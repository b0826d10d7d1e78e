----------------------------- MODULE HubPinsProofs -----------------------------
(***************************************************************************)
(* No count of the pins table is over what names the file, for any files,  *)
(* posts, profiles, links and peers, through every mixture of uploads,     *)
(* mirrors, heals, cards, deletes, sweeps, rebuilds and restarts.          *)
(***************************************************************************)
EXTENDS HubPins, HubInduction, FiniteSetTheorems

\* The references of a CID by table.
Embeds(posts, c) == UNION {{<<p, k>> : k \in 1 .. Env[p].files[c]} : p \in posts}
Arguments(S, f, c) == {x \in S : f[x] = c}
Wearers(avatar, c) == Arguments(Authors, avatar, c)
Holders(copy, c) == Arguments(Msgs, copy, c)

\* What a rebuild counts again by replay: the posts and the profiles.
Named(d, c) == Cardinality(Embeds(d.posts, c)) + Cardinality(Wearers(d.avatar, c))
Held(d, c) == Cardinality(Holders(d.copy, c))

\* Tallies, as Bump and Drop take them.
Tally == [Cids -> Nat]

\* No id is twice in the log, and a post that is here is in it.
LogOK ==
    /\ \A i, j \in DOMAIN log : log[i].id = log[j].id => i = j
    /\ db.posts \subseteq Ids

\* The goroutines know what they are at.
HandsOK ==
    /\ puller.pc \in {"fetch", "record"} => puller.file \in File
    /\ worker # NoJob => worker.post \in Msgs

PInv == TypeOK /\ LogOK /\ HandsOK /\ RefsNeverOver

-----------------------------------------------------------------------------
(* The references, counted.                                                *)

\* What one post embeds of a CID.
LEMMA EmbedsOfOne ==
    ASSUME NEW p \in Msgs, NEW c \in Cids
    PROVE  LET S == {<<p, k>> : k \in 1 .. Env[p].files[c]}
           IN  IsFiniteSet(S) /\ Cardinality(S) = Env[p].files[c]
  <1> DEFINE n == Env[p].files[c]
             S == {<<p, k>> : k \in 1 .. n}
             f == [k \in 1 .. n |-> <<p, k>>]
  <1>1. n \in Nat
    BY EnvAssumption DEF Envelope
  <1> HIDE DEF n
  <1>2. f \in Bijection(1 .. n, S)
    BY DEF Bijection, Injection, Surjection, IsInjective
  <1>3. IsFiniteSet(1 .. n) /\ Cardinality(1 .. n) = n
    BY <1>1, FS_Interval
  <1>4. ExistsBijection(1 .. n, S)
    BY <1>2 DEF ExistsBijection
  <1>5. IsFiniteSet(S) /\ Cardinality(S) = Cardinality(1 .. n)
    BY <1>3, <1>4, FS_Bijection
  <1> QED
    BY <1>3, <1>5 DEF n

LEMMA EmbedsFinite ==
    ASSUME NEW P, P \subseteq Msgs, NEW c \in Cids
    PROVE  IsFiniteSet(Embeds(P, c)) /\ Cardinality(Embeds(P, c)) \in Nat
  <1> DEFINE of(p) == {<<p, k>> : k \in 1 .. Env[p].files[c]}
             T == {of(p) : p \in P}
             f == [p \in P |-> of(p)]
  <1>1. IsFiniteSet(P)
    BY FiniteAssumption, FS_Subset
  <1>2. f \in Surjection(P, T)
    BY DEF Surjection
  <1>3. IsFiniteSet(T)
    BY <1>1, <1>2, FS_Surjection
  <1>4. \A t \in T : IsFiniteSet(t)
    BY EmbedsOfOne
  <1>5. IsFiniteSet(UNION T)
    BY <1>3, <1>4, FS_UNION
  <1>6. Embeds(P, c) = UNION T
    BY DEF Embeds
  <1> QED
    BY <1>5, <1>6, FS_CardinalityType

\* A post more is its embeds more.
LEMMA EmbedsOfMore ==
    ASSUME NEW P, P \subseteq Msgs, NEW p \in Msgs \ P, NEW c \in Cids
    PROVE  Cardinality(Embeds(P \cup {p}, c)) = Cardinality(Embeds(P, c)) + Env[p].files[c]
  <1> DEFINE S == {<<p, k>> : k \in 1 .. Env[p].files[c]}
             E == Embeds(P, c)
             n == Env[p].files[c]
  <1>1. IsFiniteSet(S) /\ Cardinality(S) = n
    BY EmbedsOfOne
  <1>2. Embeds(P \cup {p}, c) = E \cup S
    BY DEF Embeds
  <1>3. E \cap S = {}
    BY DEF Embeds
  <1>4. IsFiniteSet(E) /\ Cardinality(E) \in Nat
    BY EmbedsFinite
  <1>5. n \in Nat
    BY EnvAssumption DEF Envelope
  <1> HIDE DEF S, E, n
  <1>6. Cardinality(E \cup S) = Cardinality(E) + Cardinality(S) - Cardinality(E \cap S)
    BY <1>1, <1>4, FS_Union
  <1>7. Cardinality(E \cap S) = 0
    BY <1>3, FS_EmptySet
  <1>8. Cardinality(E \cup S) = Cardinality(E) + n
    BY <1>1, <1>4, <1>5, <1>6, <1>7
  <1> QED
    BY <1>2, <1>8 DEF E, n

LEMMA EmbedsOfLess ==
    ASSUME NEW P, P \subseteq Msgs, NEW p \in Msgs, NEW c \in Cids
    PROVE  Cardinality(Embeds(P, c)) <= Cardinality(Embeds(P \ {p}, c)) + Env[p].files[c]
  <1> DEFINE n == Env[p].files[c]
             less == Cardinality(Embeds(P \ {p}, c))
  <1>1. n \in Nat
    BY EnvAssumption DEF Envelope
  <1>2. less \in Nat
    BY EmbedsFinite
  <1>3. Cardinality(Embeds(P, c)) = less + n \/ Cardinality(Embeds(P, c)) = less
    <2>1. CASE p \in P
      <3>1. P = (P \ {p}) \cup {p} /\ P \ {p} \subseteq Msgs /\ p \in Msgs \ (P \ {p})
        BY <2>1
      <3>2. Cardinality(Embeds((P \ {p}) \cup {p}, c)) = less + n
        BY <3>1, EmbedsOfMore
      <3> HIDE DEF less, n
      <3> QED
        BY <3>1, <3>2
    <2>2. CASE p \notin P
      <3>1. P \ {p} = P
        BY <2>2
      <3> QED
        BY <3>1
    <2> QED
      BY <2>1, <2>2
  <1> HIDE DEF less, n
  <1>4. Cardinality(Embeds(P, c)) <= less + n
    BY <1>1, <1>2, <1>3
  <1> QED
    BY <1>4 DEF less, n

LEMMA PartFinite ==
    ASSUME NEW S, IsFiniteSet(S), NEW A, A \subseteq S
    PROVE  IsFiniteSet(A) /\ Cardinality(A) \in Nat
  <1>1. IsFiniteSet(A)
    BY FS_Subset
  <1> QED
    BY <1>1, FS_CardinalityType

\* Two sets that differ in one element at most.
LEMMA OneApart ==
    ASSUME NEW A, NEW B, IsFiniteSet(A), IsFiniteSet(B), NEW x, A \ {x} = B \ {x}
    PROVE  /\ x \in A /\ x \in B => Cardinality(B) = Cardinality(A)
           /\ x \in A /\ x \notin B => Cardinality(B) = Cardinality(A) - 1
           /\ x \notin A /\ x \in B => Cardinality(B) = Cardinality(A) + 1
           /\ x \notin A /\ x \notin B => Cardinality(B) = Cardinality(A)
  <1>1. Cardinality(A) \in Nat /\ Cardinality(B) \in Nat
    BY FS_CardinalityType
  <1>2. Cardinality(A \ {x}) = IF x \in A THEN Cardinality(A) - 1 ELSE Cardinality(A)
    BY FS_RemoveElement
  <1>3. Cardinality(B \ {x}) = IF x \in B THEN Cardinality(B) - 1 ELSE Cardinality(B)
    BY FS_RemoveElement
  <1> QED
    BY <1>1, <1>2, <1>3

\* The counts of two parts of a finite set that are one apart.
LEMMA OneMoves ==
    ASSUME NEW S, IsFiniteSet(S), NEW A, NEW B, A \subseteq S, B \subseteq S,
           NEW x, A \ {x} = B \ {x}
    PROVE  /\ Cardinality(A) \in Nat /\ Cardinality(B) \in Nat
           /\ Cardinality(B) = (Cardinality(A) - (IF x \in A THEN 1 ELSE 0)) + (IF x \in B THEN 1 ELSE 0)
  <1>1. /\ IsFiniteSet(A) /\ Cardinality(A) \in Nat
        /\ IsFiniteSet(B) /\ Cardinality(B) \in Nat
    BY PartFinite
  <1> DEFINE n == Cardinality(A)
             m == Cardinality(B)
  <1>2. /\ x \in A /\ x \in B => m = n
        /\ x \in A /\ x \notin B => m = n - 1
        /\ x \notin A /\ x \in B => m = n + 1
        /\ x \notin A /\ x \notin B => m = n
    BY <1>1, OneApart
  <1>3. n \in Nat /\ m \in Nat
    BY <1>1
  <1> HIDE DEF n, m
  <1>4. m = (n - (IF x \in A THEN 1 ELSE 0)) + (IF x \in B THEN 1 ELSE 0)
    BY <1>2, <1>3
  <1> QED
    BY <1>3, <1>4 DEF n, m

-----------------------------------------------------------------------------
(* The transactions on counts.                                             *)

LEMMA OneTally == \A f : One(f) \in Tally
  BY DEF One, Tally

LEMMA CountsTyped ==
    ASSUME NEW d \in Db, NEW c \in Cids
    PROVE  Named(d, c) \in Nat /\ Held(d, c) \in Nat /\ Count(d, c) = Named(d, c) + Held(d, c)
  <1>1. IsFiniteSet(Embeds(d.posts, c)) /\ Cardinality(Embeds(d.posts, c)) \in Nat
    BY EmbedsFinite DEF Db
  <1>2. Cardinality(Wearers(d.avatar, c)) \in Nat
    <2>1. Wearers(d.avatar, c) \subseteq Authors
      BY DEF Wearers, Arguments
    <2> QED
      BY <2>1, FiniteAssumption, PartFinite
  <1>3. Cardinality(Holders(d.copy, c)) \in Nat
    <2>1. Holders(d.copy, c) \subseteq Msgs
      BY DEF Holders, Arguments
    <2> QED
      BY <2>1, FiniteAssumption, PartFinite
  <1>4. Count(d, c) = Cardinality(Embeds(d.posts, c)) + Cardinality(Wearers(d.avatar, c))
                      + Cardinality(Holders(d.copy, c))
    BY DEF Count, Embeds, Wearers, Holders, Arguments
  <1> QED
    BY <1>1, <1>2, <1>3, <1>4 DEF Named, Held

\* A count goes up by its tally at most.
LEMMA BumpKeeps ==
    ASSUME NEW d \in Db, NEW t \in Tally
    PROVE  /\ Bump(d, t) \in Db
           /\ Bump(d, t) = [d EXCEPT !.refs = Bump(d, t).refs]
           /\ \A c \in Cids : Bump(d, t).refs[c] <= d.refs[c] + t[c]
  <1> DEFINE r == [c \in Cids |-> IF c \in d.rows THEN d.refs[c] + t[c] ELSE 0]
  <1>1. d.refs \in [Cids -> Nat] /\ t \in [Cids -> Nat]
    BY DEF Db, Tally
  <1>2. r \in [Cids -> Nat]
    BY <1>1
  <1>3. \A c \in Cids : r[c] <= d.refs[c] + t[c]
    BY <1>1
  <1>4. Bump(d, t) = [d EXCEPT !.refs = r]
    BY DEF Bump
  <1> HIDE DEF r
  <1> QED
    BY <1>2, <1>3, <1>4 DEF Db

LEMMA DropRowsKeeps ==
    ASSUME NEW d \in Db, NEW gone
    PROVE  /\ DropRows(d, gone) \in Db
           /\ DropRows(d, gone).rows = d.rows \ gone
           /\ DropRows(d, gone).posts = d.posts
           /\ DropRows(d, gone).avatar = d.avatar
           /\ DropRows(d, gone).copy = d.copy
           /\ \A c \in Cids : DropRows(d, gone).refs[c] = IF c \in gone THEN 0 ELSE d.refs[c]
  BY DEF Db, DropRows

\* A count goes down by its tally, or to nought; never below.
LEMMA DropKeeps ==
    ASSUME NEW d \in Db, NEW t \in Tally
    PROVE  /\ Drop(d, t) \in Db
           /\ Drop(d, t).posts = d.posts
           /\ Drop(d, t).avatar = d.avatar
           /\ Drop(d, t).copy = d.copy
           /\ \A c \in Cids, n \in Nat : d.refs[c] <= n + t[c] => Drop(d, t).refs[c] <= n
  <1> DEFINE gone == Gone(d, t)
             kept == DropRows(d, gone)
             r == [c \in Cids |-> IF c \in kept.rows THEN kept.refs[c] - t[c] ELSE 0]
  <1>1. d.refs \in [Cids -> Nat] /\ t \in [Cids -> Nat]
    BY DEF Db, Tally
  <1>2. /\ kept \in Db /\ kept.rows = d.rows \ gone
        /\ kept.posts = d.posts /\ kept.avatar = d.avatar /\ kept.copy = d.copy
        /\ \A c \in Cids : kept.refs[c] = IF c \in gone THEN 0 ELSE d.refs[c]
    BY DropRowsKeeps
  <1>3. Drop(d, t) = [kept EXCEPT !.refs = r]
    BY DEF Drop
  <1>4. ASSUME NEW c \in Cids PROVE r[c] \in Nat /\ \A n \in Nat : d.refs[c] <= n + t[c] => r[c] <= n
    <2>1. CASE c \in kept.rows
      <3>1. c \in d.rows /\ c \notin gone
        BY <1>2, <2>1
      <3>2. ~ (t[c] > 0 /\ d.refs[c] <= t[c])
        BY <3>1 DEF Gone
      <3>3. r[c] = d.refs[c] - t[c]
        BY <1>2, <2>1, <3>1
      <3> HIDE DEF r
      <3> QED
        BY <1>1, <3>2, <3>3
    <2>2. CASE c \notin kept.rows
      <3>1. r[c] = 0
        BY <2>2
      <3> HIDE DEF r
      <3> QED
        BY <3>1, <1>1
    <2> QED
      BY <2>1, <2>2
  <1>5. r \in [Cids -> Nat]
    BY <1>4
  <1> HIDE DEF r, kept
  <1> QED
    BY <1>2, <1>3, <1>4, <1>5 DEF Db
-----------------------------------------------------------------------------
(* What apply does, k being the references of the copies that are counted. *)

LEMMA CreateKeeps ==
    ASSUME NEW d \in Db, NEW id \in Msgs
    PROVE  /\ Create(d, id) \in Db
           /\ Create(d, id).posts = d.posts \cup {id}
           /\ Create(d, id).copy = d.copy
           /\ \A c \in Cids, k \in Nat :
                 id \notin d.posts /\ d.refs[c] <= Named(d, c) + k
                 => Create(d, id).refs[c] <= Named(Create(d, id), c) + k
  <1> DEFINE e == [d EXCEPT !.posts = d.posts \cup {id}]
             t == Env[id].files
             made == Create(d, id)
  <1>1. t \in Tally
    BY EnvAssumption DEF Envelope, Tally
  <1>2. e \in Db /\ e.refs = d.refs /\ e.posts = d.posts \cup {id} /\ e.avatar = d.avatar /\ e.copy = d.copy
    BY DEF Db
  <1>3. made = Bump(e, t)
    BY DEF Create
  <1> HIDE DEF e, t
  <1>4. /\ made \in Db /\ made.posts = e.posts /\ made.avatar = e.avatar /\ made.copy = e.copy
        /\ \A c \in Cids : made.refs[c] <= e.refs[c] + t[c]
    <2>1. /\ Bump(e, t) \in Db /\ Bump(e, t) = [e EXCEPT !.refs = Bump(e, t).refs]
          /\ \A c \in Cids : Bump(e, t).refs[c] <= e.refs[c] + t[c]
      BY <1>1, <1>2, BumpKeeps
    <2> HIDE DEF made
    <2> QED
      BY <1>2, <1>3, <2>1 DEF Db
  <1> HIDE DEF made
  <1>5. ASSUME NEW c \in Cids, NEW k \in Nat, id \notin d.posts, d.refs[c] <= Named(d, c) + k
        PROVE  made.refs[c] <= Named(made, c) + k
    <2> DEFINE n == Named(d, c)
               m == Named(made, c)
               x == made.refs[c]
               y == d.refs[c]
               z == t[c]
    <2>1. n \in Nat /\ m \in Nat
      BY <1>4, CountsTyped
    <2>2. x \in Nat /\ y \in Nat /\ z \in Nat
      BY <1>1, <1>4 DEF Db, Tally
    <2>3. x <= y + z
      BY <1>2, <1>4
    <2>4. m = n + z
      <3>1. made.posts = d.posts \cup {id} /\ made.avatar = d.avatar
        BY <1>2, <1>4
      <3>2. Cardinality(Embeds(d.posts \cup {id}, c)) = Cardinality(Embeds(d.posts, c)) + z
        BY <1>5, EmbedsOfMore DEF Db, t
      <3>3. Cardinality(Embeds(d.posts, c)) \in Nat
        BY EmbedsFinite DEF Db
      <3>4. Cardinality(Wearers(d.avatar, c)) \in Nat
        <4>1. Wearers(d.avatar, c) \subseteq Authors
          BY DEF Wearers, Arguments
        <4> QED
          BY <4>1, FiniteAssumption, PartFinite
      <3> HIDE DEF z
      <3> QED
        BY <3>1, <3>2, <3>3, <3>4, <2>2 DEF Named
    <2>5. y <= n + k
      BY <1>5
    <2> HIDE DEF n, m, x, y, z
    <2>6. x <= m + k
      BY <2>1, <2>2, <2>3, <2>4, <2>5
    <2> QED
      BY <2>6 DEF x, m
  <1> QED
    BY <1>2, <1>4, <1>5 DEF made

LEMMA DeleteKeeps ==
    ASSUME NEW d \in Db, NEW post \in Msgs
    PROVE  /\ Delete(d, post) \in Db
           /\ Delete(d, post).posts = d.posts \ {post}
           /\ Delete(d, post).copy = [d.copy EXCEPT ![post] = None]
           /\ \A c \in Cids, k, l \in Nat :
                 d.refs[c] <= Named(d, c) + k /\ k <= l + One(d.copy[post])[c]
                 => Delete(d, post).refs[c] <= Named(Delete(d, post), c) + l
  <1> DEFINE t == Env[post].files
             o == One(d.copy[post])
             b == Drop(d, t)
             e == Drop(b, o)
             left == Delete(d, post)
  <1>1. t \in Tally /\ o \in Tally
    BY EnvAssumption, OneTally DEF Envelope, Tally
  <1>2. /\ b \in Db /\ b.posts = d.posts /\ b.avatar = d.avatar /\ b.copy = d.copy
        /\ \A c \in Cids, n \in Nat : d.refs[c] <= n + t[c] => b.refs[c] <= n
    <2> HIDE DEF t
    <2> QED
      BY <1>1, DropKeeps
  <1>3. /\ e \in Db /\ e.posts = d.posts /\ e.avatar = d.avatar /\ e.copy = d.copy
        /\ \A c \in Cids, n \in Nat : b.refs[c] <= n + o[c] => e.refs[c] <= n
    <2> HIDE DEF b, o
    <2> QED
      BY <1>1, <1>2, DropKeeps
  <1>4. left = [e EXCEPT !.posts = e.posts \ {post}, !.copy = [e.copy EXCEPT ![post] = None]]
    BY DEF Delete
  <1> HIDE DEF e, b, t, o, left
  <1>5. /\ left \in Db /\ left.refs = e.refs /\ left.avatar = d.avatar
        /\ left.posts = d.posts \ {post} /\ left.copy = [d.copy EXCEPT ![post] = None]
    BY <1>3, <1>4 DEF Db
  <1>6. ASSUME NEW c \in Cids, NEW k \in Nat, NEW l \in Nat,
               d.refs[c] <= Named(d, c) + k, k <= l + o[c]
        PROVE  left.refs[c] <= Named(left, c) + l
    <2> DEFINE n == Named(d, c)
               m == Named(left, c)
               y == d.refs[c]
               z == t[c]
               w == o[c]
    <2>1. n \in Nat /\ m \in Nat
      BY <1>5, CountsTyped
    <2>2. y \in Nat /\ z \in Nat /\ w \in Nat
      BY <1>1 DEF Db, Tally
    <2>3. n <= m + z
      <3>1. left.posts = d.posts \ {post} /\ left.avatar = d.avatar
        BY <1>5
      <3>2. Cardinality(Embeds(d.posts, c)) <= Cardinality(Embeds(d.posts \ {post}, c)) + z
        BY EmbedsOfLess DEF Db, t
      <3>3. Cardinality(Embeds(d.posts, c)) \in Nat /\ Cardinality(Embeds(d.posts \ {post}, c)) \in Nat
        BY EmbedsFinite DEF Db
      <3>4. Cardinality(Wearers(d.avatar, c)) \in Nat
        <4>1. Wearers(d.avatar, c) \subseteq Authors
          BY DEF Wearers, Arguments
        <4> QED
          BY <4>1, FiniteAssumption, PartFinite
      <3> HIDE DEF z
      <3> QED
        BY <3>1, <3>2, <3>3, <3>4, <2>2 DEF Named
    <2>4. y <= n + k /\ k <= l + w
      BY <1>6
    <2> HIDE DEF n, m, y, z, w
    <2>5. y <= (m + l + w) + z /\ m + l + w \in Nat /\ m + l \in Nat
      BY <2>1, <2>2, <2>3, <2>4
    <2>6. b.refs[c] <= m + l + w
      BY <1>2, <2>5 DEF y, z
    <2>7. e.refs[c] <= m + l
      BY <1>3, <2>5, <2>6 DEF w
    <2> QED
      BY <1>5, <2>7 DEF m
  <1> QED
    BY <1>5, <1>6 DEF left, o

LEMMA ProfileKeeps ==
    ASSUME NEW d \in Db, NEW a \in Authors, NEW new \in Cids \cup {None}
    PROVE  /\ SetProfile(d, a, new) \in Db
           /\ SetProfile(d, a, new).posts = d.posts
           /\ SetProfile(d, a, new).copy = d.copy
           /\ \A c \in Cids, k \in Nat :
                 d.refs[c] <= Named(d, c) + k
                 => SetProfile(d, a, new).refs[c] <= Named(SetProfile(d, a, new), c) + k
  <1> DEFINE old == d.avatar[a]
             u == One(new)
             v == One(old)
             b == Bump(d, u)
             e == [b EXCEPT !.avatar = [b.avatar EXCEPT ![a] = new]]
             set == SetProfile(d, a, new)
  <1>1. CASE new = old
    BY <1>1 DEF SetProfile
  <1>2. CASE new # old
    <2>1. u \in Tally /\ v \in Tally /\ old \in Cids \cup {None}
      BY OneTally DEF Db
    <2>2. /\ b \in Db /\ b = [d EXCEPT !.refs = b.refs]
          /\ \A c \in Cids : b.refs[c] <= d.refs[c] + u[c]
      BY <2>1, BumpKeeps
    <2>3. set = Drop(e, v)
      BY <1>2 DEF SetProfile
    <2>4. u = One(new) /\ v = One(old)
      OBVIOUS
    <2> HIDE DEF u, v, b
    <2>5. b.posts = d.posts /\ b.avatar = d.avatar /\ b.copy = d.copy
      BY <2>2 DEF Db
    <2>6. /\ e \in Db /\ e.refs = b.refs /\ e.posts = d.posts /\ e.copy = d.copy
          /\ e.avatar = [d.avatar EXCEPT ![a] = new]
      BY <2>2, <2>5 DEF Db
    <2> HIDE DEF e
    <2>7. /\ set \in Db /\ set.posts = e.posts /\ set.avatar = e.avatar /\ set.copy = e.copy
          /\ \A c \in Cids, n \in Nat : e.refs[c] <= n + v[c] => set.refs[c] <= n
      <3> HIDE DEF set
      <3> QED
        BY <2>1, <2>3, <2>6, DropKeeps
    <2> HIDE DEF set
    <2>8. ASSUME NEW c \in Cids, NEW k \in Nat, d.refs[c] <= Named(d, c) + k
          PROVE  set.refs[c] <= Named(set, c) + k
      <3> DEFINE n == Cardinality(Wearers(d.avatar, c))
                 m == Cardinality(Wearers(set.avatar, c))
                 p == Cardinality(Embeds(d.posts, c))
                 x == e.refs[c]
                 y == d.refs[c]
                 i == u[c]
                 j == v[c]
      <3>1. /\ n \in Nat /\ m \in Nat
            /\ m = (n - (IF c = old THEN 1 ELSE 0)) + (IF c = new THEN 1 ELSE 0)
        <4> DEFINE A == Wearers(d.avatar, c)
                   B == Wearers(set.avatar, c)
        <4>1. A \subseteq Authors /\ B \subseteq Authors /\ A \ {a} = B \ {a}
          BY <2>6, <2>7 DEF Wearers, Arguments, Db
        <4>2. (a \in A <=> c = old) /\ (a \in B <=> c = new)
          BY <2>6, <2>7 DEF Wearers, Arguments, Db
        <4> HIDE DEF A, B, old
        <4>3. /\ Cardinality(A) \in Nat /\ Cardinality(B) \in Nat
              /\ Cardinality(B) = (Cardinality(A) - (IF a \in A THEN 1 ELSE 0)) + (IF a \in B THEN 1 ELSE 0)
          BY <4>1, FiniteAssumption, OneMoves
        <4>4. n = Cardinality(A) /\ m = Cardinality(B)
          BY DEF A, B
        <4> HIDE DEF n, m
        <4> QED
          BY <4>2, <4>3, <4>4
      <3>2. i = (IF c = new THEN 1 ELSE 0) /\ j = (IF c = old THEN 1 ELSE 0)
        BY <2>4 DEF One
      <3>3. p \in Nat
        BY EmbedsFinite DEF Db
      <3>4. x \in Nat /\ y \in Nat /\ x <= y + i
        BY <2>2, <2>6 DEF Db
      <3>5. Named(d, c) = p + n /\ Named(set, c) = p + m
        BY <2>6, <2>7 DEF Named
      <3>6. y <= p + n + k
        <4> HIDE DEF p, n
        <4> QED
          BY <2>8, <3>5
      <3> HIDE DEF n, m, p, x, y, i, j
      <3>7. x <= (p + m + k) + j /\ p + m + k \in Nat
        BY <3>1, <3>2, <3>3, <3>4, <3>6
      <3>8. set.refs[c] <= p + m + k
        BY <2>7, <3>7 DEF x, j
      <3> QED
        BY <3>5, <3>8
    <2> QED
      BY <2>6, <2>7, <2>8 DEF set
  <1> QED
    BY <1>1, <1>2

LEMMA SameNames ==
    ASSUME NEW d, NEW e, e.posts = d.posts, e.avatar = d.avatar, e.copy = d.copy, NEW c
    PROVE  Named(e, c) = Named(d, c) /\ Held(e, c) = Held(d, c) /\ Count(e, c) = Count(d, c)
  BY DEF Named, Held, Count

\* A copy changes hands.
LEMMA HolderMoves ==
    ASSUME NEW d \in Db, NEW e \in Db, NEW post \in Msgs, NEW new \in Cids \cup {None},
           e.copy = [d.copy EXCEPT ![post] = new], NEW c \in Cids
    PROVE  Held(e, c) = (Held(d, c) - One(d.copy[post])[c]) + One(new)[c]
  <1> DEFINE A == Holders(d.copy, c)
             B == Holders(e.copy, c)
             old == d.copy[post]
  <1>1. A \subseteq Msgs /\ B \subseteq Msgs /\ A \ {post} = B \ {post}
    BY DEF Holders, Arguments, Db
  <1>2. (post \in A <=> c = old) /\ (post \in B <=> c = new)
    BY DEF Holders, Arguments, Db
  <1>3. Held(d, c) = Cardinality(A) /\ Held(e, c) = Cardinality(B)
    BY DEF Held
  <1>4. One(old)[c] = (IF c = old THEN 1 ELSE 0) /\ One(new)[c] = (IF c = new THEN 1 ELSE 0)
    BY DEF One
  <1> HIDE DEF A, B, old
  <1>5. /\ Cardinality(A) \in Nat /\ Cardinality(B) \in Nat
        /\ Cardinality(B) = (Cardinality(A) - (IF post \in A THEN 1 ELSE 0)) + (IF post \in B THEN 1 ELSE 0)
    BY <1>1, FiniteAssumption, OneMoves
  <1>6. Held(e, c) = (Held(d, c) - One(old)[c]) + One(new)[c]
    BY <1>2, <1>3, <1>4, <1>5
  <1> QED
    BY <1>6 DEF old

LEMMA ApplyTyped ==
    ASSUME NEW d \in Db, NEW id \in Msgs
    PROVE  apply(d, id) \in Db /\ apply(d, id).posts \subseteq d.posts \cup {id}
  <1>1. Env[id] \in Envelope
    BY EnvAssumption
  <1>2. CASE Env[id].type = "post.create"
    BY <1>2, CreateKeeps DEF apply
  <1>3. CASE Env[id].type = "post.delete"
    <2>1. Env[id].post \in Msgs /\ apply(d, id) = Delete(d, Env[id].post)
      BY <1>1, <1>3 DEF Envelope, apply
    <2>2. /\ Delete(d, Env[id].post) \in Db
          /\ Delete(d, Env[id].post).posts = d.posts \ {Env[id].post}
      BY <2>1, DeleteKeeps
    <2> QED
      BY <2>1, <2>2
  <1>4. CASE Env[id].type = "profile.set"
    <2>1. Env[id].author \in Authors /\ Env[id].avatar \in Cids \cup {None}
      BY <1>1 DEF Envelope
    <2> QED
      BY <1>4, <2>1, ProfileKeeps DEF apply
  <1> QED
    BY <1>1, <1>2, <1>3, <1>4 DEF Envelope

\* In a rebuild, no copy is counted while the log is replayed.
LEMMA ApplyNamed ==
    ASSUME NEW d \in Db, NEW id \in Msgs, id \notin d.posts,
           \A c \in Cids : d.refs[c] <= Named(d, c)
    PROVE  \A c \in Cids : apply(d, id).refs[c] <= Named(apply(d, id), c)
  <1> SUFFICES ASSUME NEW c \in Cids PROVE apply(d, id).refs[c] <= Named(apply(d, id), c)
    OBVIOUS
  <1>1. Env[id] \in Envelope
    BY EnvAssumption
  <1> DEFINE e == apply(d, id)
  <1>2. d.refs[c] <= Named(d, c) + 0 /\ 0 \in Nat
    BY CountsTyped
  <1>3. e.refs[c] <= Named(e, c) + 0
    <2>1. CASE Env[id].type = "post.create"
      <3>1. e = Create(d, id)
        BY <2>1 DEF apply
      <3> HIDE DEF e
      <3> QED
        BY <1>2, <3>1, CreateKeeps
    <2>2. CASE Env[id].type = "post.delete"
      <3>1. Env[id].post \in Msgs /\ e = Delete(d, Env[id].post)
        BY <1>1, <2>2 DEF apply, Envelope
      <3>2. 0 <= 0 + One(d.copy[Env[id].post])[c]
        BY DEF One
      <3> HIDE DEF e
      <3> QED
        BY <1>2, <3>1, <3>2, DeleteKeeps
    <2>3. CASE Env[id].type = "profile.set"
      <3>1. /\ Env[id].author \in Authors /\ Env[id].avatar \in Cids \cup {None}
            /\ e = SetProfile(d, Env[id].author, Env[id].avatar)
        BY <1>1, <2>3 DEF apply, Envelope
      <3> HIDE DEF e
      <3> QED
        BY <1>2, <3>1, ProfileKeeps
    <2> QED
      BY <1>1, <2>1, <2>2, <2>3 DEF Envelope
  <1>4. Named(e, c) \in Nat
    BY ApplyTyped, CountsTyped
  <1> HIDE DEF e
  <1>5. e.refs[c] <= Named(e, c)
    BY <1>3, <1>4
  <1> QED
    BY <1>5 DEF e

\* A message that comes in.
LEMMA ApplyKeeps ==
    ASSUME NEW d \in Db, NEW id \in Msgs, id \notin d.posts,
           \A c \in Cids : d.refs[c] <= Count(d, c)
    PROVE  \A c \in Cids : apply(d, id).refs[c] <= Count(apply(d, id), c)
  <1> SUFFICES ASSUME NEW c \in Cids PROVE apply(d, id).refs[c] <= Count(apply(d, id), c)
    OBVIOUS
  <1>1. Env[id] \in Envelope
    BY EnvAssumption
  <1> DEFINE e == apply(d, id)
             k == Held(d, c)
             l == Held(e, c)
  <1>2. e \in Db
    BY ApplyTyped
  <1>3. k \in Nat /\ d.refs[c] <= Named(d, c) + k /\ l \in Nat /\ Count(e, c) = Named(e, c) + l
    <2> HIDE DEF e
    <2> QED
      BY <1>2, CountsTyped
  <1>4. e.refs[c] <= Named(e, c) + l
    <2>1. CASE Env[id].type = "post.create"
      <3>1. e = Create(d, id)
        BY <2>1 DEF apply
      <3> HIDE DEF e
      <3>2. e.copy = d.copy
        BY <3>1, CreateKeeps
      <3>3. k = l
        BY <3>2 DEF Held
      <3> QED
        BY <1>3, <3>1, <3>3, CreateKeeps
    <2>2. CASE Env[id].type = "post.delete"
      <3> DEFINE post == Env[id].post
                 w == One(d.copy[post])[c]
      <3>1. post \in Msgs /\ e = Delete(d, post)
        BY <1>1, <2>2 DEF apply, Envelope
      <3> HIDE DEF e, post
      <3>2. e.copy = [d.copy EXCEPT ![post] = None]
        BY <3>1, DeleteKeeps
      <3>3. l = (k - w) + One(None)[c]
        BY <1>2, <3>1, <3>2, HolderMoves
      <3>4. One(None)[c] = 0 /\ w \in Nat
        BY NoneAssumption DEF One
      <3> HIDE DEF k, l, w
      <3>5. k <= l + w
        BY <1>3, <3>3, <3>4
      <3> QED
        BY <1>3, <3>1, <3>5, DeleteKeeps DEF w
    <2>3. CASE Env[id].type = "profile.set"
      <3>1. /\ Env[id].author \in Authors /\ Env[id].avatar \in Cids \cup {None}
            /\ e = SetProfile(d, Env[id].author, Env[id].avatar)
        BY <1>1, <2>3 DEF apply, Envelope
      <3> HIDE DEF e
      <3>2. e.copy = d.copy
        BY <3>1, ProfileKeeps
      <3>3. k = l
        BY <3>2 DEF Held
      <3> QED
        BY <1>3, <3>1, <3>3, ProfileKeeps
    <2> QED
      BY <1>1, <2>1, <2>2, <2>3 DEF Envelope
  <1> QED
    BY <1>3, <1>4

\* The log replayed from emptied tables: no count over what names the file.
LEMMA ReplayKeeps ==
    ASSUME TypeOK, \A i, j \in DOMAIN log : log[i].id = log[j].id => i = j,
           NEW d \in Db, d.posts = {}, \A c \in Cids : d.refs[c] = 0
    PROVE  /\ Replay(d) \in Db
           /\ Replay(d).posts \subseteq Ids
           /\ \A c \in Cids : Replay(d).refs[c] <= Named(Replay(d), c)
  <1> DEFINE k == Len(log)
             g == [x \in (1 .. k) \X Db |-> apply(x[2], log[x[1]].id)]
             R(f) == [n \in 0 .. k |-> IF n = 0 THEN d ELSE apply(f[n - 1], log[n].id)]
  <1>1. k \in Nat /\ DOMAIN log = 1 .. k /\ \A n \in 1 .. k : log[n].id \in Msgs
    <2>1. log \in Seq(Entry)
      BY DEF TypeOK
    <2>2. Len(log) \in Nat /\ DOMAIN log = 1 .. Len(log) /\ \A n \in 1 .. Len(log) : log[n] \in Entry
      BY <2>1
    <2> QED
      BY <2>2 DEF Entry
  <1>2. \A n \in 1 .. k, x \in Db : g[<<n, x>>] = apply(x, log[n].id) /\ g[<<n, x>>] \in Db
    BY <1>1, ApplyTyped
  <1> HIDE DEF g
  <1>3. PICK f : Iterates(f, Db, d, k, g)
    <2> HIDE DEF k
    <2> QED
      BY <1>1, <1>2, Iteration
  <1>4. ASSUME NEW n \in 1 .. k PROVE f[n - 1] \in Db /\ f[n] = apply(f[n - 1], log[n].id)
    <2>1. f[n - 1] \in Db
      BY <1>1, <1>3 DEF Iterates
    <2>2. f[n] = g[<<n, f[n - 1]>>]
      BY <1>3 DEF Iterates
    <2> QED
      BY <1>2, <2>1, <2>2
  <1>5. f = R(f)
    BY <1>1, <1>3, <1>4 DEF Iterates
  <1> DEFINE r == CHOOSE h : h = R(h)
  <1>6. r = R(r)
    <2> HIDE DEF R
    <2> QED
      BY <1>5
  <1>7. Replay(d) = r[k]
    BY DEF Replay
  <1> HIDE DEF r
  <1> DEFINE Right(n) == /\ r[n] \in Db
                         /\ \A p \in r[n].posts : \E i \in 1 .. n : p = log[i].id
                         /\ \A c \in Cids : r[n].refs[c] <= Named(r[n], c)
             S == {n \in Nat : n <= k => Right(n)}
  <1>8. 0 \in S
    <2>1. r[0] = d
      BY <1>1, <1>6
    <2>2. \A c \in Cids : d.refs[c] <= Named(d, c)
      BY CountsTyped
    <2> QED
      BY <2>1, <2>2
  <1>9. ASSUME NEW n \in Nat, n \in S PROVE n + 1 \in S
    <2>1. SUFFICES ASSUME n + 1 <= k PROVE Right(n + 1)
      OBVIOUS
    <2> DEFINE b == r[n]
               id == log[n + 1].id
    <2>2. Right(n)
      BY <1>9, <1>1, <2>1
    <2>3. r[n + 1] = apply(b, id)
      BY <1>1, <1>6, <2>1
    <2>4. id \in Msgs /\ \A i \in 1 .. n : id # log[i].id
      BY <1>1, <2>1
    <2>5. b \in Db /\ id \notin b.posts /\ \A c \in Cids : b.refs[c] <= Named(b, c)
      BY <2>2, <2>4
    <2> HIDE DEF b, id
    <2>6. /\ apply(b, id) \in Db /\ apply(b, id).posts \subseteq b.posts \cup {id}
          /\ \A c \in Cids : apply(b, id).refs[c] <= Named(apply(b, id), c)
      BY <2>4, <2>5, ApplyTyped, ApplyNamed
    <2>7. \A p \in r[n + 1].posts : \E i \in 1 .. n + 1 : p = log[i].id
      BY <2>2, <2>3, <2>6 DEF b, id
    <2> QED
      BY <2>3, <2>6, <2>7
  <1>10. k \in S
    <2> HIDE DEF S
    <2> QED
      BY <1>1, <1>8, <1>9, Induction
  <1>11. Right(k)
    BY <1>1, <1>10
  <1>12. r[k].posts \subseteq Ids
    BY <1>1, <1>11 DEF Ids
  <1> QED
    BY <1>7, <1>11, <1>12

\* What a rebuild leaves.
LEMMA RebuildKeeps ==
    ASSUME TypeOK, \A i, j \in DOMAIN log : log[i].id = log[j].id => i = j, Rebuild
    PROVE  db' \in Db /\ db'.posts \subseteq Ids /\ \A c \in Cids : db'.refs[c] <= Count(db', c)
  <1> DEFINE empty == [db EXCEPT !.refs = [c \in Cids |-> 0], !.posts = {},
                            !.avatar = [a \in Authors |-> None]]
             done == Replay(empty)
             copies == [p \in Msgs |-> IF p \in done.posts THEN done.copy[p] ELSE None]
             e == [done EXCEPT !.copy = copies]
             t == [c \in Cids |-> Cardinality({p \in Msgs : copies[p] = c})]
  <1>1. db' = Bump(e, t)
    BY DEF Rebuild
  <1>2. empty \in Db /\ empty.posts = {} /\ \A c \in Cids : empty.refs[c] = 0
    BY DEF TypeOK, Db
  <1>3. done \in Db /\ done.posts \subseteq Ids /\ \A c \in Cids : done.refs[c] <= Named(done, c)
    <2> HIDE DEF empty
    <2> QED
      BY <1>2, ReplayKeeps
  <1> HIDE DEF done
  <1>4. copies \in [Msgs -> Cids \cup {None}]
    BY <1>3 DEF Db
  <1>5. \A c \in Cids : t[c] = Cardinality(Holders(copies, c))
    BY DEF Holders, Arguments
  <1>6. t = [c \in Cids |-> Cardinality(Holders(copies, c))]
    BY <1>5
  <1> HIDE DEF copies, t
  <1>7. /\ e \in Db /\ e.posts = done.posts /\ e.avatar = done.avatar /\ e.copy = copies
        /\ e.refs = done.refs
    BY <1>3, <1>4 DEF Db
  <1> HIDE DEF e
  <1>8. \A c \in Cids : Held(e, c) = t[c] /\ Held(e, c) \in Nat /\ Named(e, c) = Named(done, c)
    BY <1>5, <1>7, CountsTyped DEF Held, Named
  <1>9. t \in Tally
    <2>1. \A c \in Cids : Cardinality(Holders(copies, c)) \in Nat
      BY <1>7, <1>8 DEF Held
    <2> QED
      BY <1>6, <2>1 DEF Tally
  <1>10. /\ db' \in Db /\ db'.posts = e.posts /\ db'.avatar = e.avatar /\ db'.copy = e.copy
         /\ \A c \in Cids : db'.refs[c] <= e.refs[c] + t[c]
    BY <1>1, <1>7, <1>9, BumpKeeps DEF Db
  <1>11. ASSUME NEW c \in Cids PROVE db'.refs[c] <= Count(db', c)
    <2> DEFINE x == db'.refs[c]
               y == done.refs[c]
               z == t[c]
               n == Named(done, c)
    <2>1. x \in Nat /\ y \in Nat /\ z \in Nat /\ n \in Nat
      BY <1>3, <1>9, <1>10, CountsTyped DEF Db, Tally
    <2>2. x <= y + z /\ y <= n
      BY <1>3, <1>7, <1>10
    <2>3. Count(db', c) = Count(e, c)
      BY <1>10, SameNames
    <2>4. Count(e, c) = n + z
      BY <1>7, <1>8, CountsTyped
    <2> HIDE DEF x, y, z, n
    <2>5. x <= n + z
      BY <2>1, <2>2
    <2> QED
      BY <2>3, <2>4, <2>5 DEF x
  <1> QED
    BY <1>3, <1>7, <1>10, <1>11

\* A card or a picture stored: its post's old picture has a reference less.
LEMMA SetCopyKeeps ==
    ASSUME NEW d \in Db, NEW post \in Msgs, NEW new \in Cids \cup {None},
           \A c \in Cids : d.refs[c] <= Count(d, c)
    PROVE  /\ SetCopy(d, post, new) \in Db
           /\ SetCopy(d, post, new).posts = d.posts
           /\ \A c \in Cids : SetCopy(d, post, new).refs[c] <= Count(SetCopy(d, post, new), c)
  <1> DEFINE old == d.copy[post]
             v == One(old)
             w == One(new)
             e == IF old = new THEN d ELSE Drop(d, v)
             set == SetCopy(d, post, new)
             gain(c) == IF new = old THEN 0 ELSE w[c]
             loss(c) == IF new = old THEN 0 ELSE v[c]
  <1>1. v \in Tally /\ w \in Tally /\ old \in Cids \cup {None}
    BY OneTally DEF Db
  <1>2. /\ e \in Db /\ e.posts = d.posts /\ e.avatar = d.avatar /\ e.copy = d.copy
        /\ \A c \in Cids, n \in Nat : d.refs[c] <= n + loss(c) => e.refs[c] <= n
    <2>1. CASE old = new
      BY <2>1 DEF Db
    <2>2. CASE old # new
      <3>1. e = Drop(d, v) /\ \A c \in Cids : loss(c) = v[c]
        BY <2>2
      <3> HIDE DEF e, v, loss
      <3> QED
        BY <1>1, <3>1, DropKeeps
    <2> QED
      BY <2>1, <2>2
  <1>3. set = IF new = None \/ new = old
              THEN [e EXCEPT !.copy = [e.copy EXCEPT ![post] = new]]
              ELSE Bump([e EXCEPT !.copy = [e.copy EXCEPT ![post] = new], !.rows = e.rows \cup {new}], w)
    BY DEF SetCopy
  <1>4. v = One(old) /\ w = One(new)
    OBVIOUS
  <1> HIDE DEF set, e, v, w
  <1>5. /\ set \in Db /\ set.posts = d.posts /\ set.avatar = d.avatar
        /\ set.copy = [d.copy EXCEPT ![post] = new]
        /\ \A c \in Cids : set.refs[c] <= e.refs[c] + gain(c)
    <2>1. CASE new = None \/ new = old
      <3>1. set = [e EXCEPT !.copy = [e.copy EXCEPT ![post] = new]]
        BY <1>3, <2>1
      <3>2. /\ set \in Db /\ set.posts = d.posts /\ set.avatar = d.avatar
            /\ set.copy = [d.copy EXCEPT ![post] = new] /\ set.refs = e.refs
        BY <1>2, <3>1 DEF Db
      <3>3. \A c \in Cids : gain(c) = 0
        BY <2>1, <1>4, NoneAssumption DEF One
      <3>4. \A c \in Cids : e.refs[c] \in Nat
        BY <1>2 DEF Db
      <3> HIDE DEF gain
      <3> QED
        BY <3>2, <3>3, <3>4
    <2>2. CASE ~ (new = None \/ new = old)
      <3> DEFINE b == [e EXCEPT !.copy = [e.copy EXCEPT ![post] = new], !.rows = e.rows \cup {new}]
      <3>1. set = Bump(b, w)
        BY <1>3, <2>2
      <3>2. /\ b \in Db /\ b.posts = d.posts /\ b.avatar = d.avatar
            /\ b.copy = [d.copy EXCEPT ![post] = new] /\ b.refs = e.refs
        BY <1>2, <2>2 DEF Db
      <3> HIDE DEF b
      <3>3. /\ set \in Db /\ set = [b EXCEPT !.refs = set.refs]
            /\ \A c \in Cids : set.refs[c] <= b.refs[c] + w[c]
        BY <1>1, <3>1, <3>2, BumpKeeps
      <3>4. \A c \in Cids : gain(c) = w[c]
        BY <2>2
      <3>5. set.posts = b.posts /\ set.avatar = b.avatar /\ set.copy = b.copy
        BY <3>2, <3>3 DEF Db
      <3> HIDE DEF gain
      <3> QED
        BY <3>2, <3>3, <3>4, <3>5
    <2> QED
      BY <2>1, <2>2
  <1>6. ASSUME NEW c \in Cids PROVE set.refs[c] <= Count(set, c)
    <2> DEFINE x == set.refs[c]
               y == e.refs[c]
               z == d.refs[c]
               n == Named(d, c)
               k == Held(d, c)
               l == Held(set, c)
               i == v[c]
               j == w[c]
    <2>1. /\ x \in Nat /\ y \in Nat /\ z \in Nat /\ i \in Nat /\ j \in Nat
          /\ n \in Nat /\ k \in Nat /\ l \in Nat
      BY <1>1, <1>2, <1>5, CountsTyped DEF Db, Tally
    <2>2. l = (k - i) + j
      BY <1>4, <1>5, HolderMoves
    <2>3. z <= n + k
      BY CountsTyped
    <2>4. Count(set, c) = n + l
      BY <1>5, CountsTyped DEF Named
    <2>5. x <= y + gain(c)
      BY <1>5
    <2>6. \A m \in Nat : z <= m + loss(c) => y <= m
      BY <1>2
    <2>7. new = old => i = j
      BY <1>4
    <2> HIDE DEF old
    <2>8. gain(c) = (IF new = old THEN 0 ELSE j) /\ loss(c) = (IF new = old THEN 0 ELSE i)
      OBVIOUS
    <2> HIDE DEF x, y, z, n, k, l, i, j, gain, loss
    <2>9. CASE new = old
      <3>1. z <= (n + k) + loss(c) /\ n + k \in Nat
        BY <2>1, <2>3, <2>8, <2>9
      <3>2. y <= n + k
        BY <2>6, <3>1
      <3>3. x <= n + l
        BY <2>1, <2>2, <2>5, <2>7, <2>8, <2>9, <3>2
      <3> QED
        BY <2>4, <3>3 DEF x
    <2>10. CASE new # old
      <3>1. k - i \in Nat
        <4>1. i = (IF c = old THEN 1 ELSE 0)
          BY <1>4 DEF One, i
        <4>2. c = old => k >= 1
          <5>1. CASE c = old
            <6>1. post \in Holders(d.copy, c) /\ Holders(d.copy, c) \subseteq Msgs
              BY <5>1 DEF Holders, Arguments, old
            <6>2. IsFiniteSet(Holders(d.copy, c))
              BY <6>1, FiniteAssumption, PartFinite
            <6>3. k # 0
              BY <6>1, <6>2, FS_EmptySet DEF k, Held
            <6> QED
              BY <2>1, <6>3
          <5> QED
            BY <5>1
        <4> QED
          BY <2>1, <4>1, <4>2
      <3>2. z <= (n + (k - i)) + loss(c) /\ n + (k - i) \in Nat
        BY <2>1, <2>3, <2>8, <2>10, <3>1
      <3>3. y <= n + (k - i)
        BY <2>6, <3>2
      <3>4. x <= n + l
        BY <2>1, <2>2, <2>5, <2>8, <2>10, <3>1, <3>3
      <3> QED
        BY <2>4, <3>4 DEF x
    <2> QED
      BY <2>9, <2>10
  <1> QED
    BY <1>5, <1>6 DEF set

LEMMA AddPinKeeps ==
    ASSUME NEW d \in Db, NEW f \in File
    PROVE  /\ AddPin(d, f) \in Db /\ AddPin(d, f).refs = d.refs
           /\ AddPin(d, f).posts = d.posts /\ AddPin(d, f).avatar = d.avatar
           /\ AddPin(d, f).copy = d.copy
  BY DEF AddPin, Db, File

\* heal sets the count to what names the file.
LEMMA AdoptKeeps ==
    ASSUME NEW d \in Db, NEW f \in File, \A c \in Cids : d.refs[c] <= Count(d, c)
    PROVE  /\ AdoptPin(d, f) \in Db /\ AdoptPin(d, f).posts = d.posts
           /\ \A c \in Cids : AdoptPin(d, f).refs[c] <= Count(AdoptPin(d, f), c)
  <1> DEFINE e == AddPin(d, f)
             n == Count(e, f.cid)
             a == AdoptPin(d, f)
  <1>1. a = [e EXCEPT !.refs = [e.refs EXCEPT ![f.cid] = n]]
    BY DEF AdoptPin
  <1> HIDE DEF e, a
  <1>2. f.cid \in Cids
    BY DEF File
  <1>3. /\ e \in Db /\ e.refs = d.refs /\ e.posts = d.posts /\ e.avatar = d.avatar /\ e.copy = d.copy
    BY AddPinKeeps DEF e
  <1>4. n \in Nat
    BY <1>2, <1>3, CountsTyped
  <1> HIDE DEF n
  <1>5. /\ a \in Db /\ a.posts = d.posts /\ a.avatar = d.avatar /\ a.copy = d.copy
        /\ a.refs = [d.refs EXCEPT ![f.cid] = n]
    BY <1>1, <1>2, <1>3, <1>4 DEF Db
  <1>6. ASSUME NEW c \in Cids PROVE a.refs[c] <= Count(a, c)
    <2>1. Count(a, c) = Count(d, c) /\ Count(e, c) = Count(d, c)
      BY <1>3, <1>5, SameNames
    <2>2. CASE c = f.cid
      <3>1. a.refs[c] = n /\ n = Count(d, c)
        BY <1>5, <2>1, <2>2 DEF Db, n
      <3> QED
        BY <1>4, <2>1, <3>1
    <2>3. CASE c # f.cid
      <3>1. a.refs[c] = d.refs[c]
        BY <1>5, <2>3 DEF Db
      <3> QED
        BY <2>1, <3>1
    <2> QED
      BY <2>2, <2>3
  <1> QED
    BY <1>5, <1>6 DEF a

\* The sweep takes rows that count nought.
LEMMA SweepKeeps ==
    ASSUME NEW d \in Db, NEW gone, \A c \in Cids : d.refs[c] <= Count(d, c)
    PROVE  \A c \in Cids : DropRows(d, gone).refs[c] <= Count(DropRows(d, gone), c)
  <1> DEFINE e == DropRows(d, gone)
  <1>1. /\ e \in Db /\ e.posts = d.posts /\ e.avatar = d.avatar /\ e.copy = d.copy
        /\ \A c \in Cids : e.refs[c] = IF c \in gone THEN 0 ELSE d.refs[c]
    BY DropRowsKeeps
  <1> HIDE DEF e
  <1>2. ASSUME NEW c \in Cids PROVE e.refs[c] <= Count(e, c)
    <2>1. Count(e, c) = Count(d, c)
      BY <1>1, SameNames
    <2>2. Count(d, c) \in Nat /\ d.refs[c] <= Count(d, c)
      BY CountsTyped
    <2> QED
      BY <1>1, <2>1, <2>2
  <1> QED
    BY <1>2 DEF e

-----------------------------------------------------------------------------
(* The invariant, step by step.                                            *)

Who == Msgs \cup {"puller", "worker", "sweep"}

LEMMA ReleaseTyped ==
    ASSUME unpins \subseteq Unpin, NEW who \in Who, NEW S, S \subseteq Cids, Release(who, S)
    PROVE  unpins' \subseteq Unpin
  BY DEF Release, Unpin, Who

LEMMA InitP == Init => PInv
  <1> SUFFICES ASSUME Init PROVE PInv
    OBVIOUS
  <1>1. log = <<>> /\ db.posts = {} /\ puller = Idle /\ worker = NoJob
    BY DEF Init
  <1>2. db \in Db /\ \A c \in Cids : db.refs[c] = 0
    BY DEF Init, Db
  <1>3. TypeOK
    <2>1. log \in Seq(Entry)
      BY <1>1
    <2>2. puller \in Puller /\ worker \in Worker /\ recon \in Recon
      BY DEF Init, Idle, Puller, NoJob, Worker, Asleep, Recon
    <2>3. kubo \subseteq Cids /\ adding \subseteq Uploads /\ unpins \subseteq Unpin
      BY DEF Init
    <2> QED
      BY <1>2, <2>1, <2>2, <2>3 DEF TypeOK
  <1>4. LogOK
    <2>1. DOMAIN log = {}
      BY <1>1
    <2> QED
      BY <1>1, <2>1 DEF LogOK
  <1>5. HandsOK
    BY <1>1 DEF HandsOK, Idle
  <1>6. RefsNeverOver
    BY <1>2, CountsTyped DEF RefsNeverOver
  <1> QED
    BY <1>3, <1>4, <1>5, <1>6 DEF PInv

\* A message that is committed.
LEMMA CommitKeeps ==
    ASSUME PInv, NEW id \in Msgs, NEW local \in BOOLEAN, NEW who \in Who, Commit(id, local, who)
    PROVE  log' \in Seq(Entry) /\ db' \in Db /\ unpins' \subseteq Unpin /\ LogOK' /\ RefsNeverOver'
  <1> DEFINE m == [id |-> id, local |-> local]
             k == Len(log)
  <1>1. /\ id \notin Ids /\ log' = Append(log, m) /\ db' = apply(db, id)
        /\ Release(who, Released(db, apply(db, id)))
    BY DEF Commit
  <1>2. log \in Seq(Entry) /\ db \in Db /\ unpins \subseteq Unpin
    BY DEF PInv, TypeOK
  <1>3. m \in Entry /\ m.id = id
    BY DEF Entry
  <1> HIDE DEF m
  <1>4. log' \in Seq(Entry)
    BY <1>1, <1>2, <1>3
  <1>5. /\ k \in Nat /\ DOMAIN log = 1 .. k /\ DOMAIN log' = 1 .. k + 1
        /\ log'[k + 1] = m /\ \A i \in 1 .. k : log'[i] = log[i]
    BY <1>1, <1>2, <1>3
  <1>6. db' \in Db /\ db'.posts \subseteq db.posts \cup {id}
    BY <1>1, <1>2, ApplyTyped
  <1>7. unpins' \subseteq Unpin
    <2>1. Released(db, apply(db, id)) \subseteq Cids
      BY <1>2 DEF Released, Db
    <2> QED
      BY <1>1, <1>2, <2>1, ReleaseTyped
  <1>8. LogOK'
    <2>1. \A i \in 1 .. k : log[i].id # id
      BY <1>1, <1>5 DEF Ids
    <2>2. \A i, j \in 1 .. k : log[i].id = log[j].id => i = j
      BY <1>5 DEF PInv, LogOK
    <2> HIDE DEF k
    <2>3. ASSUME NEW i \in 1 .. k + 1, NEW j \in 1 .. k + 1, log'[i].id = log'[j].id
          PROVE  i = j
      <3>1. CASE i \in 1 .. k /\ j \in 1 .. k
        BY <1>5, <2>2, <2>3, <3>1
      <3>2. CASE i = k + 1 /\ j \in 1 .. k
        BY <1>3, <1>5, <2>1, <2>3, <3>2
      <3>3. CASE i \in 1 .. k /\ j = k + 1
        BY <1>3, <1>5, <2>1, <2>3, <3>3
      <3>4. CASE i = k + 1 /\ j = k + 1
        BY <3>4
      <3>5. (i \in 1 .. k \/ i = k + 1) /\ (j \in 1 .. k \/ j = k + 1)
        BY <1>5
      <3> QED
        BY <3>1, <3>2, <3>3, <3>4, <3>5
    <2>4. ASSUME NEW p \in db'.posts PROVE \E i \in 1 .. k + 1 : p = log'[i].id
      <3>1. CASE p = id
        <4>1. k + 1 \in 1 .. k + 1
          BY <1>5
        <4> QED
          BY <1>3, <1>5, <3>1, <4>1
      <3>2. CASE p \in db.posts
        <4>1. PICK i \in 1 .. k : p = log[i].id
          BY <1>5, <3>2 DEF PInv, LogOK, Ids
        <4>2. i \in 1 .. k + 1
          BY <1>5
        <4> QED
          BY <1>5, <4>1, <4>2
      <3> QED
        BY <1>6, <3>1, <3>2
    <2> QED
      BY <1>5, <2>3, <2>4 DEF LogOK, Ids
  <1>9. RefsNeverOver'
    <2>1. id \notin db.posts
      BY <1>1 DEF PInv, LogOK
    <2>2. \A c \in Cids : db.refs[c] <= Count(db, c)
      BY DEF PInv, RefsNeverOver
    <2>3. \A c \in Cids : db'.refs[c] <= Count(db', c)
      BY <1>1, <1>2, <2>1, <2>2, ApplyKeeps
    <2> QED
      BY <2>3 DEF RefsNeverOver, Count
  <1> QED
    BY <1>4, <1>6, <1>7, <1>8, <1>9

\* A step that leaves log and db.
LEMMA TablesStay ==
    ASSUME PInv, log' = log, db' = db
    PROVE  log' \in Seq(Entry) /\ db' \in Db /\ LogOK' /\ RefsNeverOver'
  BY DEF PInv, TypeOK, LogOK, Ids, RefsNeverOver, Count

\* A step that leaves the log, and the posts.
LEMMA LogStays ==
    ASSUME PInv, log' = log, db'.posts \subseteq db.posts
    PROVE  log' \in Seq(Entry) /\ LogOK'
  BY DEF PInv, TypeOK, LogOK, Ids

LEMMA UploadP == ASSUME PInv, NEW f \in Uploads, Upload(f) PROVE PInv'
  <1>1. log' \in Seq(Entry) /\ db' \in Db /\ LogOK' /\ RefsNeverOver'
    BY TablesStay DEF Upload
  <1>2. TypeOK' /\ HandsOK'
    BY <1>1, UploadsAssumption DEF Upload, File, PInv, TypeOK, HandsOK
  <1> QED
    BY <1>1, <1>2 DEF PInv

LEMMA RecordP == ASSUME PInv, NEW f \in Uploads, Record(f) PROVE PInv'
  <1>1. db' = AddPin(db, f) /\ log' = log
    BY DEF Record
  <1>2. f \in File /\ db \in Db
    BY UploadsAssumption DEF PInv, TypeOK
  <1>3. /\ db' \in Db /\ db'.refs = db.refs /\ db'.posts = db.posts
        /\ db'.avatar = db.avatar /\ db'.copy = db.copy
    BY <1>1, <1>2, AddPinKeeps
  <1>4. log' \in Seq(Entry) /\ LogOK'
    BY <1>1, <1>3, LogStays
  <1>5. RefsNeverOver'
    BY <1>3 DEF PInv, RefsNeverOver, Count
  <1>6. TypeOK' /\ HandsOK'
    BY <1>3, <1>4 DEF Record, PInv, TypeOK, HandsOK
  <1> QED
    BY <1>4, <1>5, <1>6 DEF PInv

LEMMA IngestP == ASSUME PInv, NEW id \in Msgs, Ingest(id) PROVE PInv'
  <1>1. Commit(id, TRUE, id) /\ id \in Who
    BY DEF Ingest, Who
  <1>2. log' \in Seq(Entry) /\ db' \in Db /\ unpins' \subseteq Unpin /\ LogOK' /\ RefsNeverOver'
    BY <1>1, CommitKeeps
  <1>3. TypeOK' /\ HandsOK'
    BY <1>2 DEF Ingest, PInv, TypeOK, HandsOK
  <1> QED
    BY <1>2, <1>3 DEF PInv

LEMMA FilesTyped == ASSUME NEW id \in Msgs PROVE FilesOf(id) \subseteq File
  <1>1. Env[id] \in Envelope
    BY EnvAssumption
  <1>2. CASE Env[id].type = "post.create"
    <2>1. FilesOf(id) = {[cid |-> c, avatar |-> FALSE] : c \in {x \in Cids : Env[id].files[x] > 0}}
      BY <1>2 DEF FilesOf
    <2>2. ASSUME NEW f \in FilesOf(id) PROVE f \in File
      <3>1. PICK c \in Cids : f = [cid |-> c, avatar |-> FALSE]
        BY <2>1
      <3> QED
        BY <3>1 DEF File
    <2> QED
      BY <2>2
  <1>3. CASE Env[id].type = "profile.set"
    <2>1. Env[id].avatar \in Cids \cup {None}
      BY <1>1 DEF Envelope
    <2>2. FilesOf(id) = {[cid |-> c, avatar |-> TRUE] : c \in {Env[id].avatar} \ {None}}
      BY <1>3 DEF FilesOf
    <2>3. ASSUME NEW f \in FilesOf(id) PROVE f \in File
      <3>1. PICK c \in Cids : f = [cid |-> c, avatar |-> TRUE]
        BY <2>1, <2>2
      <3> QED
        BY <3>1 DEF File
    <2> QED
      BY <2>3
  <1>4. CASE Env[id].type = "post.delete"
    BY <1>4 DEF FilesOf
  <1> QED
    BY <1>1, <1>2, <1>3, <1>4 DEF Envelope

LEMMA HandleP == ASSUME PInv, NEW id \in Msgs, Handle(id) PROVE PInv'
  <1>1. log' \in Seq(Entry) /\ db' \in Db /\ LogOK' /\ RefsNeverOver'
    BY TablesStay DEF Handle
  <1>2. puller' = [pc |-> "next", msg |-> id, todo |-> FilesOf(id), file |-> None]
    BY DEF Handle, Idle
  <1>3. puller' \in Puller
    BY <1>2, FilesTyped DEF Puller
  <1>4. TypeOK' /\ HandsOK'
    BY <1>1, <1>2, <1>3 DEF Handle, PInv, TypeOK, HandsOK
  <1> QED
    BY <1>1, <1>4 DEF PInv

LEMMA HealP == ASSUME PInv, Heal PROVE PInv'
  <1>1. log' \in Seq(Entry) /\ db' \in Db /\ LogOK' /\ RefsNeverOver'
    BY TablesStay DEF Heal
  <1>2. puller' = [pc |-> "next", msg |-> None, todo |-> MissingMirrors, file |-> None]
    BY DEF Heal, Idle
  <1>3. MissingMirrors \subseteq File
    <2>1. MissingEmbeds \subseteq Cids /\ MissingAvatars \subseteq Cids
      BY DEF MissingEmbeds, MissingAvatars
    <2>2. ASSUME NEW f \in MissingMirrors PROVE f \in File
      <3>1. PICK c \in MissingEmbeds \cup MissingAvatars : f = [cid |-> c, avatar |-> c \in MissingAvatars]
        BY DEF MissingMirrors
      <3>2. c \in Cids /\ (c \in MissingAvatars) \in BOOLEAN
        BY <2>1
      <3> QED
        BY <3>1, <3>2 DEF File
    <2> QED
      BY <2>2
  <1>4. puller' \in Puller
    BY <1>2, <1>3 DEF Puller
  <1>5. TypeOK' /\ HandsOK'
    BY <1>1, <1>2, <1>4 DEF Heal, PInv, TypeOK, HandsOK
  <1> QED
    BY <1>1, <1>5 DEF PInv

\* The puller goes on to its next file.
LEMMA NextFileTyped == ASSUME PInv PROVE NextFile \in Puller /\ NextFile.pc = "next"
  BY DEF PInv, TypeOK, NextFile, Puller

LEMMA MirrorCheckP == ASSUME PInv, NEW f \in puller.todo, MirrorCheck(f) PROVE PInv'
  <1>1. log' \in Seq(Entry) /\ db' \in Db /\ LogOK' /\ RefsNeverOver'
    BY TablesStay DEF MirrorCheck
  <1>2. puller \in Puller /\ puller.pc = "next" /\ f \in File
    BY DEF PInv, TypeOK, Puller, MirrorCheck
  <1>3. CASE f.cid \in db.rows
    <2>1. puller' = [puller EXCEPT !.todo = puller.todo \ {f}]
      BY <1>3 DEF MirrorCheck
    <2>2. puller' \in Puller /\ puller'.pc = "next"
      BY <1>2, <2>1 DEF Puller
    <2>3. TypeOK' /\ HandsOK'
      BY <1>1, <2>2 DEF MirrorCheck, PInv, TypeOK, HandsOK
    <2> QED
      BY <1>1, <2>3 DEF PInv
  <1>4. CASE f.cid \notin db.rows
    <2>1. puller' = [puller EXCEPT !.pc = "fetch", !.file = f]
      BY <1>4 DEF MirrorCheck
    <2>2. puller' \in Puller /\ puller'.file \in File
      BY <1>2, <2>1 DEF Puller
    <2>3. TypeOK' /\ HandsOK'
      BY <1>1, <2>2 DEF MirrorCheck, PInv, TypeOK, HandsOK
    <2> QED
      BY <1>1, <2>3 DEF PInv
  <1> QED
    BY <1>3, <1>4

LEMMA MirrorFailsP == ASSUME PInv, MirrorFails PROVE PInv'
  <1>1. log' \in Seq(Entry) /\ db' \in Db /\ LogOK' /\ RefsNeverOver'
    BY TablesStay DEF MirrorFails
  <1>2. puller' \in Puller /\ puller'.pc = "next"
    BY NextFileTyped DEF MirrorFails
  <1>3. TypeOK' /\ HandsOK'
    BY <1>1, <1>2 DEF MirrorFails, PInv, TypeOK, HandsOK
  <1> QED
    BY <1>1, <1>3 DEF PInv

LEMMA MirrorOtherP == ASSUME PInv, NEW c \in Cids, MirrorOther(c) PROVE PInv'
  <1>1. log' \in Seq(Entry) /\ db' \in Db /\ LogOK' /\ RefsNeverOver'
    BY TablesStay DEF MirrorOther
  <1>2. puller' \in Puller /\ puller'.pc = "next"
    BY NextFileTyped DEF MirrorOther
  <1>3. unpins' \subseteq Unpin
    BY ReleaseTyped DEF MirrorOther, PInv, TypeOK, Who
  <1>4. TypeOK' /\ HandsOK'
    BY <1>1, <1>2, <1>3 DEF MirrorOther, PInv, TypeOK, HandsOK
  <1> QED
    BY <1>1, <1>4 DEF PInv

LEMMA MirrorAddP == ASSUME PInv, MirrorAdd PROVE PInv'
  <1>1. log' \in Seq(Entry) /\ db' \in Db /\ LogOK' /\ RefsNeverOver'
    BY TablesStay DEF MirrorAdd
  <1>2. puller \in Puller /\ puller.file \in File
    BY DEF MirrorAdd, PInv, TypeOK, HandsOK
  <1>3. puller' \in Puller /\ puller'.file \in File
    BY <1>2 DEF MirrorAdd, Puller
  <1>4. puller.file.cid \in Cids
    BY <1>2 DEF File
  <1>5. TypeOK' /\ HandsOK'
    BY <1>1, <1>3, <1>4 DEF MirrorAdd, PInv, TypeOK, HandsOK
  <1> QED
    BY <1>1, <1>5 DEF PInv

LEMMA MirrorRecordP == ASSUME PInv, MirrorRecord PROVE PInv'
  <1> DEFINE f == puller.file
  <1>1. log' = log /\ db \in Db /\ f \in File /\ \A c \in Cids : db.refs[c] <= Count(db, c)
    BY DEF MirrorRecord, PInv, TypeOK, HandsOK, RefsNeverOver
  <1>2. db' \in Db /\ db'.posts = db.posts /\ \A c \in Cids : db'.refs[c] <= Count(db', c)
    <2>1. CASE puller.msg = None
      <3>1. db' = AdoptPin(db, f)
        BY <2>1 DEF MirrorRecord
      <3> HIDE DEF f
      <3> QED
        BY <1>1, <3>1, AdoptKeeps
    <2>2. CASE puller.msg # None
      <3>1. db' = AddPin(db, f)
        BY <2>2 DEF MirrorRecord
      <3> HIDE DEF f
      <3>2. /\ db' \in Db /\ db'.refs = db.refs /\ db'.posts = db.posts
            /\ db'.avatar = db.avatar /\ db'.copy = db.copy
        BY <1>1, <3>1, AddPinKeeps
      <3> QED
        BY <1>1, <3>2 DEF Count
    <2> QED
      BY <2>1, <2>2
  <1>3. log' \in Seq(Entry) /\ LogOK'
    BY <1>1, <1>2, LogStays
  <1>4. RefsNeverOver'
    BY <1>2 DEF RefsNeverOver, Count
  <1>5. puller' \in Puller /\ puller'.pc = "next"
    BY NextFileTyped DEF MirrorRecord
  <1>6. TypeOK' /\ HandsOK'
    BY <1>2, <1>3, <1>5 DEF MirrorRecord, PInv, TypeOK, HandsOK
  <1> QED
    BY <1>3, <1>4, <1>6 DEF PInv

LEMMA MirrorDoneP == ASSUME PInv, MirrorDone PROVE PInv'
  <1>1. puller' \in Puller /\ puller'.pc = "idle"
    BY DEF MirrorDone, Idle, Puller
  <1>2. log' \in Seq(Entry) /\ db' \in Db /\ unpins' \subseteq Unpin /\ LogOK' /\ RefsNeverOver'
    <2>1. CASE puller.msg # None /\ puller.msg \notin Ids /\ Applies(db, puller.msg, FALSE)
      <3>1. Commit(puller.msg, FALSE, "puller")
        BY <2>1 DEF MirrorDone
      <3>2. puller.msg \in Msgs
        BY <2>1 DEF PInv, TypeOK, Puller
      <3> QED
        BY <3>1, <3>2, CommitKeeps DEF Who
    <2>2. CASE ~ (puller.msg # None /\ puller.msg \notin Ids /\ Applies(db, puller.msg, FALSE))
      <3>1. log' = log /\ db' = db /\ unpins' = unpins
        BY <2>2 DEF MirrorDone
      <3>2. unpins' \subseteq Unpin
        BY <3>1 DEF PInv, TypeOK
      <3> QED
        BY <3>1, <3>2, TablesStay
    <2> QED
      BY <2>1, <2>2
  <1>3. TypeOK' /\ HandsOK'
    BY <1>1, <1>2 DEF MirrorDone, PInv, TypeOK, HandsOK
  <1> QED
    BY <1>2, <1>3 DEF PInv

LEMMA DeriveP == ASSUME PInv, NEW p \in Msgs, NEW c \in Cids \cup {None}, Derive(p, c) PROVE PInv'
  <1>1. log' \in Seq(Entry) /\ db' \in Db /\ LogOK' /\ RefsNeverOver'
    BY TablesStay DEF Derive
  <1>2. worker' \in Worker /\ worker'.post \in Msgs
    BY DEF Derive, Worker
  <1>3. TypeOK' /\ HandsOK'
    BY <1>1, <1>2 DEF Derive, PInv, TypeOK, HandsOK
  <1> QED
    BY <1>1, <1>3 DEF PInv

LEMMA StoreP == ASSUME PInv, Store PROVE PInv'
  <1> DEFINE post == worker.post
             new == worker.cid
  <1>1. /\ log' = log /\ db' = SetCopy(db, post, new) /\ db \in Db
        /\ Release("worker", Released(db, SetCopy(db, post, new)))
        /\ post \in Msgs /\ new \in Cids \cup {None} /\ unpins \subseteq Unpin
        /\ \A c \in Cids : db.refs[c] <= Count(db, c)
    BY DEF Store, PInv, TypeOK, HandsOK, RefsNeverOver, Worker
  <1> HIDE DEF post, new
  <1>2. db' \in Db /\ db'.posts = db.posts /\ \A c \in Cids : db'.refs[c] <= Count(db', c)
    BY <1>1, SetCopyKeeps
  <1>3. log' \in Seq(Entry) /\ LogOK'
    BY <1>1, <1>2, LogStays
  <1>4. RefsNeverOver'
    BY <1>2 DEF RefsNeverOver, Count
  <1>5. unpins' \subseteq Unpin
    <2>1. Released(db, SetCopy(db, post, new)) \subseteq Cids
      BY <1>1 DEF Released, Db
    <2> QED
      BY <1>1, <2>1, ReleaseTyped DEF Who
  <1>6. TypeOK' /\ HandsOK'
    BY <1>2, <1>3, <1>5 DEF Store, PInv, TypeOK, HandsOK, NoJob, Worker
  <1> QED
    BY <1>3, <1>4, <1>6 DEF PInv

LEMMA AgeP == ASSUME PInv, NEW c \in Cids, Age(c) PROVE PInv'
  <1>1. log' = log /\ db' = [db EXCEPT !.aged = db.aged \cup {c}] /\ db \in Db
    BY DEF Age, PInv, TypeOK
  <1>2. /\ db' \in Db /\ db'.refs = db.refs /\ db'.posts = db.posts
        /\ db'.avatar = db.avatar /\ db'.copy = db.copy
    BY <1>1 DEF Db
  <1>3. log' \in Seq(Entry) /\ LogOK'
    BY <1>1, <1>2, LogStays
  <1>4. RefsNeverOver'
    BY <1>2 DEF PInv, RefsNeverOver, Count
  <1>5. TypeOK' /\ HandsOK'
    BY <1>2, <1>3 DEF Age, PInv, TypeOK, HandsOK
  <1> QED
    BY <1>3, <1>4, <1>5 DEF PInv

LEMMA SweepP == ASSUME PInv, SweepStaged PROVE PInv'
  <1>1. /\ log' = log /\ db' = DropRows(db, Stale) /\ db \in Db /\ unpins \subseteq Unpin
        /\ Release("sweep", Stale) /\ \A c \in Cids : db.refs[c] <= Count(db, c)
    BY DEF SweepStaged, PInv, TypeOK, RefsNeverOver
  <1>2. Stale \subseteq Cids
    BY <1>1 DEF Stale, Db
  <1>3. db' \in Db /\ db'.posts = db.posts /\ \A c \in Cids : db'.refs[c] <= Count(db', c)
    BY <1>1, DropRowsKeeps, SweepKeeps
  <1>4. log' \in Seq(Entry) /\ LogOK'
    BY <1>1, <1>3, LogStays
  <1>5. RefsNeverOver'
    BY <1>3 DEF RefsNeverOver, Count
  <1>6. unpins' \subseteq Unpin
    BY <1>1, <1>2, ReleaseTyped DEF Who
  <1>7. TypeOK' /\ HandsOK'
    BY <1>3, <1>4, <1>6 DEF SweepStaged, PInv, TypeOK, HandsOK
  <1> QED
    BY <1>4, <1>5, <1>7 DEF PInv

LEMMA CallUnpinP == ASSUME PInv, NEW u \in unpins, CallUnpin(u) PROVE PInv'
  <1>1. log' \in Seq(Entry) /\ db' \in Db /\ LogOK' /\ RefsNeverOver'
    BY TablesStay DEF CallUnpin
  <1>2. TypeOK' /\ HandsOK'
    BY <1>1 DEF CallUnpin, PInv, TypeOK, HandsOK
  <1> QED
    BY <1>1, <1>2 DEF PInv

\* The reconcile pass touches kubo alone.
LEMMA ReconcileP == ASSUME PInv, Reconcile PROVE PInv'
  <1>1. log' = log /\ db' = db /\ UNCHANGED <<adding, unpins, puller, worker>>
    BY DEF Reconcile, ReconcileStart, ReconcileAsk, Repin, ReconcileFails, ReconcileEnd
  <1>2. log' \in Seq(Entry) /\ db' \in Db /\ LogOK' /\ RefsNeverOver'
    BY <1>1, TablesStay
  <1>3. recon \in Recon /\ db \in Db /\ kubo \subseteq Cids
    BY DEF PInv, TypeOK
  <1>4. recon' \in Recon /\ kubo' \subseteq Cids
    <2>1. CASE ReconcileStart
      BY <1>3, <2>1 DEF ReconcileStart, Recon, Db
    <2>2. CASE ReconcileAsk
      BY <1>3, <2>2 DEF ReconcileAsk, Recon
    <2>3. ASSUME NEW c \in Cids, Repin(c) PROVE recon' \in Recon /\ kubo' \subseteq Cids
      BY <1>3, <2>3 DEF Repin, Recon
    <2>4. CASE ReconcileFails
      BY <1>3, <2>4 DEF ReconcileFails, Asleep, Recon
    <2>5. CASE ReconcileEnd
      BY <1>3, <2>5 DEF ReconcileEnd, Asleep, Recon
    <2> QED
      BY <2>1, <2>2, <2>3, <2>4, <2>5 DEF Reconcile
  <1>5. TypeOK' /\ HandsOK'
    BY <1>1, <1>2, <1>4 DEF PInv, TypeOK, HandsOK
  <1> QED
    BY <1>2, <1>5 DEF PInv

LEMMA RebuildP == ASSUME PInv, Rebuild PROVE PInv'
  <1>1. TypeOK /\ (\A i, j \in DOMAIN log : log[i].id = log[j].id => i = j) /\ log' = log
    BY DEF PInv, LogOK, Rebuild
  <1>2. db' \in Db /\ db'.posts \subseteq Ids /\ \A c \in Cids : db'.refs[c] <= Count(db', c)
    BY <1>1, RebuildKeeps
  <1>3. LogOK'
    BY <1>1, <1>2 DEF LogOK, Ids
  <1>4. RefsNeverOver'
    BY <1>2 DEF RefsNeverOver, Count
  <1>5. TypeOK' /\ HandsOK'
    BY <1>1, <1>2 DEF Rebuild, PInv, TypeOK, HandsOK
  <1> QED
    BY <1>3, <1>4, <1>5 DEF PInv

LEMMA RestartP == ASSUME PInv, Restart PROVE PInv'
  <1>1. log' \in Seq(Entry) /\ db' \in Db /\ LogOK' /\ RefsNeverOver'
    BY TablesStay DEF Restart
  <1>2. TypeOK' /\ HandsOK'
    BY <1>1 DEF Restart, PInv, TypeOK, HandsOK, Idle, Puller, NoJob, Worker, Asleep, Recon
  <1> QED
    BY <1>1, <1>2 DEF PInv

LEMMA StutterP == ASSUME PInv, UNCHANGED vars PROVE PInv'
  <1>1. log' \in Seq(Entry) /\ db' \in Db /\ LogOK' /\ RefsNeverOver'
    BY TablesStay DEF vars
  <1>2. TypeOK' /\ HandsOK'
    BY <1>1 DEF vars, PInv, TypeOK, HandsOK
  <1> QED
    BY <1>1, <1>2 DEF PInv

LEMMA NextP == PInv /\ [Next]_vars => PInv'
  <1> SUFFICES ASSUME PInv, [Next]_vars PROVE PInv'
    OBVIOUS
  <1>1. CASE Request
    BY <1>1, UploadP, RecordP, IngestP DEF Request
  <1>2. CASE \E id \in Msgs : Handle(id)
    BY <1>2, HandleP
  <1>3. CASE Heal
    BY <1>3, HealP
  <1>4. CASE Mirror
    BY <1>4, MirrorCheckP, MirrorFailsP, MirrorOtherP, MirrorAddP, MirrorRecordP, MirrorDoneP
       DEF Mirror
  <1>5. CASE \E p \in Msgs, c \in Cids \cup {None} : Derive(p, c)
    BY <1>5, DeriveP
  <1>6. CASE Store
    BY <1>6, StoreP
  <1>7. CASE Sweep
    BY <1>7, AgeP, SweepP DEF Sweep
  <1>8. CASE Reconcile
    BY <1>8, ReconcileP
  <1>9. CASE \E u \in unpins : CallUnpin(u)
    BY <1>9, CallUnpinP
  <1>10. CASE Rebuild
    BY <1>10, RebuildP
  <1>11. CASE Restart
    BY <1>11, RestartP
  <1>12. CASE UNCHANGED vars
    BY <1>12, StutterP
  <1> QED
    BY <1>1, <1>2, <1>3, <1>4, <1>5, <1>6, <1>7, <1>8, <1>9, <1>10, <1>11, <1>12 DEF Next, Step

LEMMA AlwaysP == Spec => []PInv
  BY InitP, NextP, PTL DEF Spec

\* The tables of files and the goroutines' variables keep their types,
\* whatever the messages, the files and the links (schema of store.go).
THEOREM PinsTyped == Spec => []TypeOK
  <1>1. PInv => TypeOK
    BY DEF PInv
  <1> QED
    BY <1>1, AlwaysP, PTL

\* No count of the pins table exceeds the references to the file, through
\* every mixture of uploads, mirrors, heals, cards, deletes, sweeps, rebuilds
\* and restarts (apply, dropRef, AdoptPin, setCard and Rebuild of store.go).
THEOREM RefsNeverOverHolds == Spec => []RefsNeverOver
  <1>1. PInv => RefsNeverOver
    BY DEF PInv
  <1> QED
    BY <1>1, AlwaysP, PTL
=============================================================================
