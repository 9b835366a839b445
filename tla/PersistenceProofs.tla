-------------------------- MODULE PersistenceProofs --------------------------
(***************************************************************************)
(* The tables and the hive agree on threads, posts and locks, and no live  *)
(* thread loses its id unless a lower one is free, for any limits, queues, *)
(* members of staff and numbers of threads, posts and restarts.            *)
(***************************************************************************)
EXTENDS Persistence, FiniteSetTheorems, WellFoundedInduction, TLAPS

\* The rows in the transaction of the dump loop, by table.
TxRows  == IF phase = "threads" THEN Elements(tx) ELSE {}
TxPosts == IF phase = "posts" THEN Elements(tx) ELSE {}

\* Threads whose row is on its way.
Pending == Elements(threadQ) \cup {r.of : r \in TxRows}

Made == 1 .. Len(made)

Shape ==
  /\ TypeOK
  /\ Len(made) <= MaxThreads /\ Len(posted) <= MaxPosts
  /\ count <= NumQueues + Len(made)
  /\ spc = "select" => cur = 0
  /\ cur # 0 => cur \in Made /\ Len(posted) < MaxPosts
  /\ spc \in {"thread", "post"} => cur # 0
  /\ spc = "delete" => gone \in Ids /\ hive[gone] = 0
  /\ spc = "post" => hive[made[cur]] = cur
  /\ phase \in {"wait", "media", "down"} => tx = <<>>
  /\ phase = "threads" => tx \in Seq(Row)
  /\ phase = "posts" => tx \in Seq(PostRow)

\* Whoever is in the hive, the table or on the way was made under its id.
Named ==
  /\ \A id \in Ids : hive[id] # 0 => hive[id] \in Made /\ made[hive[id]] = id
  /\ \A id \in Ids : rows[id] # None => rows[id].of \in Made /\ made[rows[id].of] = id
  /\ Pending \subseteq Made
  /\ \A m \in 1 .. Len(posted) : posted[m] \in Made

Excepted == clashed \cup early

ThreadAt(id) ==
  /\ hive[id] # 0 => \/ WrittenBy(hive[id]) \/ hive[id] \in Pending
                     \/ cur = hive[id] /\ spc \in {"delete", "thread"}
  /\ rows[id] # None => rows[id].of = hive[id] \/ (spc = "delete" /\ gone = id)
  /\ \A n \in Pending : made[n] = id => hive[id] = n
  /\ cur # 0 /\ made[cur] = id => hive[id] = cur

Threads == \A id \in Ids \ Excepted : ThreadAt(id)

\* A post that is safe was made by this process, and belongs to one thread.
Owned ==
  /\ \A n \in Numbers : posts[n] \subseteq 1 .. Len(posted)
  /\ Elements(postQ) \cup safe \subseteq 1 .. Len(posted)
  /\ \A r \in postRows \cup TxPosts : r.of \in 1 .. Len(posted)
  /\ \A n \in Numbers : \A m \in posts[n] \cap safe : posted[m] = n
  /\ safe \cap late = {}

KeptPost(id, m) ==
  \/ \E r \in postRows : r.of = m /\ r.id = id
  \/ m \in Elements(postQ)
  \/ \E r \in TxPosts : r.of = m /\ r.id = id

PostsKept ==
  \A id \in Live \ Excepted : \A m \in posts[hive[id]] \cap safe :
    WrittenBy(hive[id]) /\ KeptPost(id, m)

LockAt(id) ==
  /\ (\A s \in Staff : ~UpdateOf(s, id)) =>
       /\ WrittenBy(hive[id]) => rows[id].locked = (hive[id] \in locked)
       /\ \A r \in TxRows : r.of = hive[id] => r.locked = (hive[id] \in locked)
  /\ \A s \in Staff : UpdateOf(s, id) =>
       /\ upd[s].locked = (hive[id] \in locked)
       /\ \A o \in Staff : UpdateOf(o, id) => o = s

Locks == \A id \in Live \ (Excepted \cup crossed) : LockAt(id)

\* An id that will be given a second time has a free one below.
IdsFollow ==
  (\E id \in Ids : id >= count /\ hive[id] # 0)
    => \E lower \in NumQueues .. count - 1 : hive[lower] = 0

Inv == Shape /\ Named /\ Threads /\ Owned /\ PostsKept /\ Locks /\ IdsFollow

-----------------------------------------------------------------------------
(* Sequences                                                               *)

LEMMA SetAppended ==
  ASSUME NEW S, NEW s \in Seq(S), NEW x \in S
  PROVE  /\ Append(s, x) \in Seq(S) /\ Elements(Append(s, x)) = Elements(s) \cup {x}
         /\ Len(Append(s, x)) = Len(s) + 1
         /\ \A k \in 1 .. Len(s) : Append(s, x)[k] = s[k]
         /\ Append(s, x)[Len(s) + 1] = x
<1> DEFINE a == Append(s, x)
           n == Len(s)
<1>1. /\ DOMAIN s = 1 .. n /\ DOMAIN a = 1 .. n + 1 /\ n \in Nat /\ Len(a) = n + 1
      /\ a[n + 1] = x /\ (\A k \in 1 .. n : a[k] = s[k]) /\ a \in Seq(S)
  OBVIOUS
<1>2. (\A k \in 1 .. n + 1 : k \in 1 .. n \/ k = n + 1) /\ \A k \in 1 .. n : k \in 1 .. n + 1
  BY <1>1
<1>3. n + 1 \in 1 .. n + 1
  BY <1>1
<1>4. Elements(s) = {s[k] : k \in 1 .. n} /\ Elements(a) = {a[k] : k \in 1 .. n + 1}
  BY <1>1 DEF Elements
<1> HIDE DEF a, n
<1>5. Elements(a) = Elements(s) \cup {x}
  BY <1>1, <1>2, <1>3, <1>4
<1> QED
  BY <1>1, <1>5 DEF a, n

LEMMA SetTaken ==
  ASSUME NEW S, NEW s \in Seq(S), s # <<>>
  PROVE  /\ Head(s) \in S /\ Tail(s) \in Seq(S) /\ Len(Tail(s)) = Len(s) - 1
         /\ Elements(s) = {Head(s)} \cup Elements(Tail(s))
<1> DEFINE t == Tail(s)
           n == Len(s)
<1>1. /\ DOMAIN s = 1 .. n /\ DOMAIN t = 1 .. n - 1 /\ n \in Nat \ {0} /\ Len(t) = n - 1
      /\ Head(s) = s[1] /\ \A k \in 1 .. n - 1 : t[k] = s[k + 1]
      /\ Head(s) \in S /\ t \in Seq(S)
  OBVIOUS
<1>2. /\ \A k \in 1 .. n : k = 1 \/ (k - 1 \in 1 .. n - 1 /\ t[k - 1] = s[k])
      /\ \A k \in 1 .. n - 1 : k + 1 \in 1 .. n
      /\ 1 \in 1 .. n
  BY <1>1
<1>3. Elements(s) = {s[k] : k \in 1 .. n} /\ Elements(t) = {t[k] : k \in 1 .. n - 1}
  BY <1>1 DEF Elements
<1> HIDE DEF t, n
<1>4. \A y \in Elements(s) : y = s[1] \/ y \in Elements(t)
  BY <1>2, <1>3
<1>5. s[1] \in Elements(s) /\ \A y \in Elements(t) : y \in Elements(s)
  BY <1>1, <1>2, <1>3
<1>6. Elements(s) = {s[1]} \cup Elements(t)
  BY <1>4, <1>5
<1> QED
  BY <1>1, <1>6 DEF t, n

LEMMA SetEmpty == Elements(<<>>) = {}
  BY DEF Elements

LEMMA UnwrittenIsPending == \A n : Unwritten(n) <=> n \in Pending
  BY DEF Unwritten, Pending, TxRows, Elements

LEMMA Numbered ==
  /\ 0 \notin Numbers /\ Numbers \subseteq Nat /\ Ids \subseteq Nat /\ None \notin Row
  /\ \A id \in Ids, v \in BOOLEAN : [id |-> id, locked |-> v] # None
  BY PersistenceAssumption DEF Numbers, Ids, Row

LEMMA SameQueues ==
  ASSUME UNCHANGED <<threadQ, postQ, dumpVars>>
  PROVE  TxRows' = TxRows /\ TxPosts' = TxPosts /\ Pending' = Pending
  BY DEF dumpVars, TxRows, TxPosts, Pending

-----------------------------------------------------------------------------
LEMMA InitInv == Init => Inv
<1> SUFFICES ASSUME Init PROVE Inv
  OBVIOUS
<1>1. TxRows = {} /\ TxPosts = {} /\ Pending = {} /\ Elements(postQ) = {} /\ Live = {}
  BY SetEmpty DEF Init, TxRows, TxPosts, Pending, Live
<1>2. Shape
  BY PersistenceAssumption DEF Init, Shape, TypeOK, Made
<1>3. Named /\ Threads
  BY <1>1 DEF Init, Named, Threads, ThreadAt
<1>4. Owned /\ PostsKept /\ Locks
  BY <1>1 DEF Init, Owned, PostsKept, Locks
<1>5. IdsFollow
  BY DEF Init, IdsFollow
<1> QED
  BY <1>2, <1>3, <1>4, <1>5 DEF Inv

(* What depends on the threads and their rows only. *)
LEMMA SameThreads ==
  ASSUME Inv, TxRows' = TxRows, Pending' = Pending,
         UNCHANGED <<hive, made, count, rows, spc, cur, gone, clashed, early, posted>>
  PROVE  Named' /\ Threads' /\ IdsFollow'
<1>1. Named'
  BY DEF Inv, Named, Made
<1>2. Threads'
  BY DEF Inv, Threads, ThreadAt, Excepted, WrittenBy
<1>3. IdsFollow'
  BY DEF Inv, IdsFollow
<1> QED
  BY <1>1, <1>2, <1>3

LEMMA SamePosts ==
  ASSUME Inv, TxPosts' = TxPosts,
         UNCHANGED <<hive, made, rows, posts, posted, postQ, postRows, late, safe, clashed, early>>
  PROVE  Owned' /\ PostsKept'
<1>1. Owned'
  BY DEF Inv, Owned
<1>2. PostsKept'
  BY DEF Inv, PostsKept, KeptPost, Live, Excepted, WrittenBy
<1> QED
  BY <1>1, <1>2

LEMMA SameLocks ==
  ASSUME Inv, TxRows' = TxRows,
         UNCHANGED <<hive, made, rows, locked, upd, clashed, early, crossed>>
  PROVE  Locks'
  BY DEF Inv, Locks, LockAt, Live, Excepted, WrittenBy, UpdateOf

LEMMA ReplyInv == ASSUME Inv, Reply PROVE Inv'
<1>1. PICK id \in Ids : hive[id] # 0 /\ cur' = hive[id]
  BY DEF Reply, Live
<1>2. /\ spc = "select" /\ spc' = "post" /\ Len(posted) < MaxPosts /\ cur = 0
      /\ UNCHANGED <<hiveVars, flagVars, threadQ, postQ, dbVars, dumpVars, gone, upd, restarts, historyVars>>
  BY DEF Reply, Inv, Shape
<1> USE DEF hiveVars, flagVars, dbVars, dumpVars, historyVars
<1>3. made[cur'] = id /\ cur' \in Made
  BY <1>1 DEF Inv, Named
<1>4. Shape'
  BY <1>1, <1>2, <1>3 DEF Inv, Shape, TypeOK, Made
<1>5. TxRows' = TxRows /\ TxPosts' = TxPosts /\ Pending' = Pending
  BY <1>2, SameQueues
<1>6. Named' /\ IdsFollow'
  BY <1>2, <1>5 DEF Inv, Named, Made, IdsFollow
<1>7. Threads'
  BY <1>1, <1>2, <1>3, <1>5 DEF Inv, Threads, ThreadAt, Excepted, WrittenBy
<1>8. Owned' /\ PostsKept' /\ Locks'
  BY <1>2, <1>5, SamePosts, SameLocks
<1> QED
  BY <1>4, <1>6, <1>7, <1>8 DEF Inv

LEMMA WakeInv == ASSUME Inv, Wake PROVE Inv'
<1>1. /\ phase = "wait" /\ phase' = "threads" /\ tx = <<>>
      /\ UNCHANGED <<hiveVars, flagVars, threadQ, postQ, dbVars, tx, seqVars, upd, restarts, historyVars>>
  BY DEF Wake, Inv, Shape
<1> USE DEF hiveVars, flagVars, dbVars, seqVars, historyVars
<1>2. Shape'
  BY <1>1 DEF Inv, Shape, TypeOK, Made
<1>3. TxRows' = TxRows /\ TxPosts' = TxPosts /\ Pending' = Pending
  BY <1>1, SetEmpty DEF TxRows, TxPosts, Pending
<1>4. Named' /\ Threads' /\ IdsFollow' /\ Owned' /\ PostsKept' /\ Locks'
  BY <1>1, <1>3, SameThreads, SamePosts, SameLocks
<1> QED
  BY <1>2, <1>4 DEF Inv

-----------------------------------------------------------------------------
(* The sequencer                                                           *)

LEMMA DeleteThreadInv == ASSUME Inv, DeleteThread PROVE Inv'
<1>1. PICK v \in Live : /\ hive' = [hive EXCEPT ![v] = 0] /\ spc' = "delete" /\ gone' = v
                        /\ early' = early \cup {i \in {v} : Unwritten(hive[i])}
  BY DEF DeleteThread, Remove
<1>2. /\ spc = "select" /\ cur = 0
      /\ UNCHANGED <<count, made, posts, posted, flagVars, threadQ, postQ, dbVars, dumpVars, cur, upd,
                     restarts, clashed, crossed, safe>>
  BY DEF DeleteThread, Inv, Shape
<1> USE DEF flagVars, dbVars, dumpVars
<1>3. v \in Ids /\ hive \in [Ids -> Numbers \cup {0}] /\ early' \subseteq Ids
  BY <1>1 DEF Live, Inv, Shape, TypeOK
<1>4. /\ hive'[v] = 0 /\ \A id \in Ids \ {v} : hive'[id] = hive[id]
      /\ Live' = Live \ {v} /\ Excepted \subseteq Excepted'
      /\ \A n : WrittenBy(n)' <=> WrittenBy(n)
  BY <1>1, <1>2, <1>3 DEF Live, Excepted, WrittenBy
<1>5. TxRows' = TxRows /\ TxPosts' = TxPosts /\ Pending' = Pending
  BY <1>2, SameQueues
<1>6. Shape'
  BY <1>1, <1>2, <1>3, <1>4 DEF Inv, Shape, TypeOK, Made
<1>7. Named'
  BY <1>2, <1>4, <1>5 DEF Inv, Named, Made
<1>8. Threads'
  <2> SUFFICES ASSUME NEW id \in Ids, id \notin Excepted' PROVE ThreadAt(id)'
    BY DEF Threads
  <2>1. ThreadAt(id)
    BY <1>4 DEF Inv, Threads
  <2>2. CASE id = v
    <3>1. hive[v] \notin Pending
      BY <1>1, <2>2, UnwrittenIsPending DEF Excepted
    <3> QED
      BY <1>1, <1>2, <1>4, <1>5, <2>1, <2>2, <3>1 DEF ThreadAt
  <2>3. CASE id # v
    BY <1>1, <1>2, <1>4, <1>5, <2>1, <2>3 DEF ThreadAt, WrittenBy
  <2> QED
    BY <2>2, <2>3
<1>9. Owned'
  BY <1>2, <1>5 DEF Inv, Owned
<1>10. PostsKept'
  BY <1>2, <1>3, <1>4, <1>5 DEF Inv, PostsKept, KeptPost, Live, WrittenBy
<1>11. Locks'
  BY <1>2, <1>3, <1>4, <1>5 DEF Inv, Locks, LockAt, Live, WrittenBy, UpdateOf
<1>12. IdsFollow'
  <2>1. NumQueues .. count - 1 \subseteq Ids
    BY PersistenceAssumption DEF Inv, Shape, TypeOK, Ids
  <2> QED
    BY <1>2, <1>4, <2>1 DEF Inv, IdsFollow
<1> QED
  BY <1>6, <1>7, <1>8, <1>9, <1>10, <1>11, <1>12 DEF Inv

LEMMA DeleteRowInv == ASSUME Inv, DeleteRow PROVE Inv'
<1>1. /\ spc = "delete" /\ tx = <<>> /\ gone' = None
      /\ rows' = [rows EXCEPT ![gone] = None]
      /\ spc' = IF cur = 0 THEN "select" ELSE "thread"
      /\ UNCHANGED <<hiveVars, flagVars, threadQ, postQ, late, dumpVars, cur, upd, restarts, historyVars>>
  BY DEF DeleteRow, NotWriting
<1>2. PICK fk \in BOOLEAN : postRows' = {r \in postRows : ~(fk /\ r.id = gone)}
  BY DEF DeleteRow, ForeignKeys
<1> USE DEF hiveVars, flagVars, dumpVars, historyVars
<1>3. gone \in Ids /\ hive[gone] = 0 /\ rows \in [Ids -> Row \cup {None}] /\ rows' \in [Ids -> Row \cup {None}]
  BY <1>1 DEF Inv, Shape, TypeOK
<1>4. /\ rows'[gone] = None /\ \A id \in Ids \ {gone} : rows'[id] = rows[id]
      /\ TxRows' = TxRows /\ TxPosts' = TxPosts /\ Pending' = Pending
  BY <1>1, <1>3, SameQueues
<1>5. \A id \in Live : id # gone /\ made[hive[id]] = id /\ (WrittenBy(hive[id])' <=> WrittenBy(hive[id]))
  BY <1>1, <1>3, <1>4 DEF Live, Inv, Named, WrittenBy
<1>6. Shape'
  BY <1>1, <1>2, <1>3 DEF Inv, Shape, TypeOK, Made
<1>7. Named' /\ IdsFollow'
  BY <1>1, <1>4 DEF Inv, Named, Made, IdsFollow
<1>8. Threads'
  BY <1>1, <1>4, <1>5 DEF Inv, Threads, ThreadAt, Excepted, Live
<1>9. Owned'
  BY <1>1, <1>2, <1>4 DEF Inv, Owned
<1>10. PostsKept'
  BY <1>1, <1>2, <1>4, <1>5 DEF Inv, PostsKept, KeptPost, Excepted, Live
<1>11. Locks'
  BY <1>1, <1>4, <1>5 DEF Inv, Locks, LockAt, Excepted, Live, UpdateOf
<1> QED
  BY <1>6, <1>7, <1>8, <1>9, <1>10, <1>11 DEF Inv

LEMMA QueueThreadInv == ASSUME Inv, QueueThread PROVE Inv'
<1>1. /\ spc = "thread" /\ Len(threadQ) < ThreadQueueSize /\ threadQ' = Append(threadQ, cur)
      /\ \/ hive[made[cur]] = cur /\ spc' = "post" /\ cur' = cur
         \/ spc' = "select" /\ cur' = 0
      /\ UNCHANGED <<hiveVars, flagVars, postQ, dbVars, dumpVars, gone, upd, restarts, historyVars>>
  BY DEF QueueThread
<1> USE DEF hiveVars, flagVars, dbVars, dumpVars, historyVars
<1>2. cur \in Made /\ cur \in Numbers /\ threadQ \in Seq(Numbers) /\ cur # 0
  BY <1>1, Numbered DEF Inv, Shape, TypeOK
<1>3. /\ threadQ' \in Seq(Numbers) /\ Len(threadQ') <= ThreadQueueSize
      /\ TxRows' = TxRows /\ TxPosts' = TxPosts /\ Pending' = Pending \cup {cur}
  <2>1. /\ threadQ' \in Seq(Numbers) /\ Len(threadQ') = Len(threadQ) + 1
        /\ Elements(threadQ') = Elements(threadQ) \cup {cur}
    BY <1>1, <1>2, SetAppended
  <2>2. TxRows' = TxRows /\ TxPosts' = TxPosts
    BY <1>1 DEF TxRows, TxPosts
  <2> QED
    BY <1>1, <1>2, <2>1, <2>2, PersistenceAssumption DEF Pending
<1>4. Shape'
  BY <1>1, <1>2, <1>3 DEF Inv, Shape, TypeOK, Made
<1>5. Named' /\ IdsFollow'
  BY <1>1, <1>2, <1>3 DEF Inv, Named, Made, IdsFollow
<1>6. Threads'
  BY <1>1, <1>2, <1>3 DEF Inv, Threads, ThreadAt, Excepted, WrittenBy
<1>7. Owned' /\ PostsKept' /\ Locks'
  BY <1>1, <1>3, SamePosts, SameLocks
<1> QED
  BY <1>4, <1>5, <1>6, <1>7 DEF Inv

LEMMA QueuePostInv == ASSUME Inv, QueuePost PROVE Inv'
<1>1. PICK m : m = Len(posted) + 1
  OBVIOUS
<1>2. /\ spc = "post" /\ Len(postQ) < PostQueueSize
      /\ posted' = Append(posted, cur) /\ postQ' = Append(postQ, m)
      /\ posts' = [posts EXCEPT ![cur] = @ \cup {m}]
      /\ late' \in {late, late \cup {m}}
      /\ safe' = safe \cup {p \in {m} : WrittenBy(cur) /\ p \notin late'}
      /\ spc' = "select" /\ cur' = 0
      /\ UNCHANGED <<hive, count, made, flagVars, threadQ, rows, postRows, dumpVars, gone, upd, restarts,
                     clashed, early, crossed>>
  BY <1>1 DEF QueuePost
<1> USE DEF flagVars, dumpVars
<1>3. /\ cur \in Made /\ cur \in Numbers /\ cur # 0 /\ hive[made[cur]] = cur /\ Len(posted) < MaxPosts
      /\ posted \in Seq(Numbers) /\ Len(posted) \in Nat /\ postQ \in Seq(Posts)
      /\ posts \in [Numbers -> SUBSET Posts]
  BY <1>2, Numbered DEF Inv, Shape, TypeOK
<1>4. /\ m \in Posts /\ m \notin 1 .. Len(posted)
      /\ 1 .. Len(posted') = (1 .. Len(posted)) \cup {m} /\ Len(posted') <= MaxPosts
      /\ posted' \in Seq(Numbers) /\ posted'[m] = cur
      /\ \A p \in 1 .. Len(posted) : posted'[p] = posted[p]
      /\ postQ' \in Seq(Posts) /\ Elements(postQ') = Elements(postQ) \cup {m}
      /\ Len(postQ') <= PostQueueSize
  <2>1. /\ posted' \in Seq(Numbers) /\ Len(posted') = Len(posted) + 1 /\ posted'[m] = cur
        /\ \A p \in 1 .. Len(posted) : posted'[p] = posted[p]
    BY <1>1, <1>2, <1>3, SetAppended
  <2>2. m \in Posts /\ m \notin 1 .. Len(posted) /\ 1 .. m = (1 .. Len(posted)) \cup {m}
    BY <1>1, <1>3, PersistenceAssumption DEF Posts
  <2>3. /\ postQ' \in Seq(Posts) /\ Elements(postQ') = Elements(postQ) \cup {m}
        /\ Len(postQ') = Len(postQ) + 1 /\ Len(postQ) \in Nat
    BY <1>2, <1>3, <2>2, SetAppended
  <2>4. Len(posted') <= MaxPosts /\ Len(postQ') <= PostQueueSize
    BY <1>2, <1>3, <2>1, <2>3, PersistenceAssumption
  <2> QED
    BY <1>1, <2>1, <2>2, <2>3, <2>4
<1>5. TxRows' = TxRows /\ TxPosts' = TxPosts /\ Pending' = Pending
  BY <1>2 DEF TxRows, TxPosts, Pending
<1>6. /\ posts' \in [Numbers -> SUBSET Posts] /\ posts'[cur] = posts[cur] \cup {m}
      /\ \A n \in Numbers \ {cur} : posts'[n] = posts[n]
  BY <1>2, <1>3, <1>4
<1>7. Shape'
  BY <1>2, <1>4, <1>6 DEF Inv, Shape, TypeOK, Made
<1>8. Named' /\ IdsFollow'
  BY <1>2, <1>3, <1>4, <1>5 DEF Inv, Named, Made, IdsFollow
<1>9. Threads'
  BY <1>2, <1>3, <1>5 DEF Inv, Threads, ThreadAt, Excepted, WrittenBy
<1>10. Owned'
  <2>1. \A n \in Numbers : posts'[n] \subseteq 1 .. Len(posted')
    BY <1>3, <1>4, <1>6 DEF Inv, Owned
  <2>2. Elements(postQ') \cup safe' \subseteq 1 .. Len(posted')
    BY <1>2, <1>4 DEF Inv, Owned
  <2>3. \A n \in Numbers : \A p \in posts'[n] \cap safe' : posted'[p] = n
    <3> SUFFICES ASSUME NEW n \in Numbers, NEW p \in posts'[n] \cap safe' PROVE posted'[p] = n
      OBVIOUS
    <3>1. CASE p = m
      BY <1>3, <1>4, <1>6, <3>1 DEF Inv, Owned
    <3>2. CASE p # m
      <4>1. p \in posts[n] \cap safe
        BY <1>2, <1>6, <3>2
      <4> QED
        BY <1>4, <4>1 DEF Inv, Owned
    <3> QED
      BY <3>1, <3>2
  <2>4. safe' \cap late' = {}
    BY <1>2, <1>4 DEF Inv, Owned
  <2> QED
    BY <1>2, <1>4, <1>5, <2>1, <2>2, <2>3, <2>4 DEF Inv, Owned
<1>11. PostsKept'
  <2> SUFFICES ASSUME NEW id \in Live \ Excepted, NEW p \in posts'[hive[id]] \cap safe'
               PROVE  WrittenBy(hive[id]) /\ (p \in Elements(postQ') \/ KeptPost(id, p))
    <3>1. /\ Live' = Live /\ Excepted' = Excepted /\ \A id \in Live : WrittenBy(hive[id])' <=> WrittenBy(hive[id])
      BY <1>2 DEF Live, Excepted, WrittenBy
    <3>2. \A id, p : p \in Elements(postQ') \/ KeptPost(id, p) => KeptPost(id, p)'
      BY <1>2, <1>4, <1>5 DEF KeptPost
    <3>3. hive' = hive
      BY <1>2
    <3> QED
      BY <3>1, <3>2, <3>3 DEF PostsKept
  <2>1. hive[id] \in Numbers
    BY DEF Live, Inv, Shape, TypeOK
  <2>2. CASE p = m
    <3>1. hive[id] = cur
      BY <1>3, <1>4, <1>6, <2>1, <2>2 DEF Inv, Owned
    <3>2. WrittenBy(cur)
      <4>1. m \notin safe
        BY <1>4 DEF Inv, Owned
      <4> QED
        BY <1>2, <2>2, <4>1
    <3> QED
      BY <1>4, <2>2, <3>1, <3>2
  <2>3. CASE p # m
    <3>1. p \in posts[hive[id]] \cap safe
      BY <1>2, <1>6, <2>1, <2>3
    <3> QED
      BY <3>1 DEF Inv, PostsKept
  <2> QED
    BY <2>2, <2>3
<1>12. Locks'
  BY <1>2, <1>5, SameLocks
<1> QED
  BY <1>7, <1>8, <1>9, <1>10, <1>11, <1>12 DEF Inv

LEMMA NewThreadInv == ASSUME Inv, NewThread PROVE Inv'
<1>1. PICK n, id : n = Len(made) + 1 /\ id = count
  OBVIOUS
<1>2. /\ spc = "select" /\ cur = 0 /\ n <= MaxThreads /\ Len(posted) < MaxPosts
      /\ count' = id + 1 /\ made' = Append(made, id) /\ cur' = n
      /\ clashed' = clashed \cup {i \in {id} : hive[i] # 0 \/ rows[i] # None}
      /\ crossed' = crossed \cup {i \in {id} : \E s \in Staff : UpdateOf(s, i)}
      /\ UNCHANGED <<posts, posted, flagVars, threadQ, postQ, dbVars, dumpVars, upd, restarts, safe>>
  BY <1>1 DEF NewThread, Inv, Shape
<1> USE DEF flagVars, dbVars, dumpVars
<1>3. /\ made \in Seq(Ids) /\ Len(made) \in Nat /\ id \in Ids /\ n \in Numbers /\ n \notin Made /\ n # 0
      /\ hive \in [Ids -> Numbers \cup {0}] /\ id \in Nat
  BY <1>1, <1>2, PersistenceAssumption DEF Inv, Shape, TypeOK, Made, Ids, Numbers
<1>4. /\ made' \in Seq(Ids) /\ Len(made') = n /\ made'[n] = id /\ \A k \in Made : made'[k] = made[k]
      /\ Made' = Made \cup {n}
  BY <1>1, <1>2, <1>3, SetAppended DEF Made
<1>5. PICK h : h = [hive EXCEPT ![id] = n]
  OBVIOUS
<1>6. /\ h \in [Ids -> Numbers \cup {0}] /\ h[id] = n
      /\ \A i \in Ids \ {id} : h[i] = hive[i]
  BY <1>3, <1>5
<1>7. PICK gones \in SUBSET Ids :
        /\ hive' \in [Ids -> Numbers \cup {0}]
        /\ \A i \in Ids : hive'[i] = IF i \in gones THEN 0 ELSE h[i]
        /\ early' = early \cup {i \in gones : h[i] = n \/ Unwritten(h[i])}
        /\ \/ gones = {gone'} /\ spc' = "delete"
           \/ gones = {} /\ spc' = "thread" /\ gone' = gone
  <2>1. CASE count + 1 > Limit
    <3>1. PICK v \in Oldest(h, id) : /\ Remove(h, v)
                                     /\ early' = early \cup {i \in {v} : h[i] = n \/ Unwritten(h[i])}
      BY <1>1, <1>5, <2>1 DEF NewThread
    <3>2. v \in Ids
      BY <1>3 DEF Oldest
    <3> QED
      BY <1>3, <1>6, <3>1, <3>2 DEF Remove
  <2>2. CASE ~(count + 1 > Limit)
    <3>1. hive' = h /\ spc' = "thread" /\ gone' = gone /\ early' = early
      BY <1>1, <1>5, <2>2 DEF NewThread
    <3>2. {} \in SUBSET Ids
      OBVIOUS
    <3> QED
      BY <1>6, <3>1, <3>2
  <2> QED
    BY <2>1, <2>2
<1>8. /\ \A i \in Ids : hive'[i] # 0 => hive'[i] = h[i] /\ i \notin gones
      /\ \A i \in Ids : i \notin gones => hive'[i] = h[i]
      /\ Excepted \subseteq Excepted'
  BY <1>2, <1>7 DEF Excepted
<1>9. /\ TxRows' = TxRows /\ TxPosts' = TxPosts /\ Pending' = Pending
      /\ \A k \in Made : WrittenBy(k)' <=> WrittenBy(k)
  BY <1>2, <1>4, SameQueues DEF WrittenBy
<1>10. Shape'
  <2>1. count' \in NumQueues .. NumQueues + MaxThreads /\ count' <= NumQueues + Len(made')
    BY <1>1, <1>2, <1>3, <1>4, PersistenceAssumption DEF Inv, Shape, TypeOK
  <2>2. early' \subseteq Ids /\ clashed' \subseteq Ids /\ crossed' \subseteq Ids
    BY <1>2, <1>3, <1>7 DEF Inv, Shape, TypeOK
  <2>3. TypeOK'
    BY <1>2, <1>3, <1>4, <1>7, <2>1, <2>2 DEF Inv, Shape, TypeOK
  <2> QED
    BY <1>2, <1>3, <1>4, <1>7, <2>1, <2>3 DEF Inv, Shape
<1>11. Named'
  <2>1. \A i \in Ids : hive'[i] # 0 => hive'[i] \in Made' /\ made'[hive'[i]] = i
    BY <1>4, <1>6, <1>8 DEF Inv, Named
  <2> QED
    BY <1>2, <1>4, <1>9, <2>1 DEF Inv, Named
<1>12. Threads'
  <2> SUFFICES ASSUME NEW i \in Ids, i \notin Excepted' PROVE ThreadAt(i)'
    BY DEF Threads
  <2>1. ThreadAt(i) /\ i \notin Excepted
    BY <1>8 DEF Inv, Threads
  <2>2. CASE i = id
    <3>1. hive[i] = 0 /\ rows[i] = None
      BY <1>2, <2>2 DEF Excepted
    <3>2. i \notin gones /\ hive'[i] = n
      BY <1>6, <1>7, <1>8, <2>2 DEF Excepted
    <3>3. \A k \in Pending : k # 0 /\ made'[k] # i
      <4> SUFFICES ASSUME NEW k \in Pending PROVE k # 0 /\ made'[k] # i
        OBVIOUS
      <4>1. k \in Made
        BY DEF Inv, Named
      <4>2. k # 0 /\ made'[k] = made[k]
        BY <1>4, <4>1 DEF Made
      <4>3. made[k] # i
        BY <2>1, <3>1, <4>2 DEF ThreadAt
      <4> QED
        BY <4>2, <4>3
    <3> QED
      BY <1>2, <1>3, <1>7, <1>9, <3>1, <3>2, <3>3 DEF ThreadAt
  <2>3. CASE i # id
    <3>1. made'[cur'] # i
      BY <1>2, <1>4, <2>3
    <3>2. \A k \in Pending : made'[k] = made[k]
      BY <1>4 DEF Inv, Named
    <3>3. CASE i \in gones
      <4>1. hive[i] \notin Pending
        BY <1>6, <1>7, <2>3, <3>3, UnwrittenIsPending DEF Excepted
      <4>2. hive'[i] = 0 /\ spc' = "delete" /\ gone' = i
        BY <1>7, <3>3
      <4> QED
        BY <1>2, <1>9, <2>1, <3>1, <3>2, <4>1, <4>2 DEF ThreadAt
    <3>4. CASE i \notin gones
      <4>1. hive'[i] = hive[i]
        BY <1>6, <1>8, <2>3, <3>4
      <4>2. hive[i] # 0 => hive[i] \in Made
        BY DEF Inv, Named
      <4> QED
        BY <1>2, <1>9, <2>1, <3>1, <3>2, <4>1, <4>2 DEF ThreadAt
    <3> QED
      BY <3>3, <3>4
  <2> QED
    BY <2>2, <2>3
<1>13. Owned'
  BY <1>2, <1>9 DEF Inv, Owned
<1>14. \A i \in Live' : \/ i = id /\ hive'[i] = n
                        \/ i # id /\ i \in Live /\ hive'[i] = hive[i] /\ hive[i] \in Made
  BY <1>6, <1>8 DEF Live, Inv, Named
<1>15. PostsKept'
  <2> SUFFICES ASSUME NEW i \in Live', i \notin Excepted', NEW m \in posts[hive'[i]] \cap safe
               PROVE  WrittenBy(hive[i])' /\ KeptPost(i, m)'
    BY <1>2 DEF PostsKept
  <2>1. i # id
    BY <1>2, <1>3, <1>14 DEF Inv, Owned, Named
  <2>2. i \in Live \ Excepted /\ hive'[i] = hive[i] /\ hive[i] \in Made
    BY <1>8, <1>14, <2>1
  <2>3. WrittenBy(hive[i]) /\ KeptPost(i, m)
    BY <2>2 DEF Inv, PostsKept
  <2> QED
    BY <1>2, <1>4, <1>9, <2>2, <2>3 DEF KeptPost, WrittenBy
<1>16. Locks'
  <2> SUFFICES ASSUME NEW i \in Live', i \notin (Excepted \cup crossed)' PROVE LockAt(i)'
    BY DEF Locks
  <2>1. \A s \in Staff : UpdateOf(s, i)' <=> UpdateOf(s, i)
    BY <1>2 DEF UpdateOf
  <2>2. CASE i = id /\ hive'[i] = n
    <3>1. \A s \in Staff : ~UpdateOf(s, i)
      BY <1>2, <2>2
    <3>2. rows[i] = None /\ \A r \in TxRows : r.of # n
      BY <1>2, <1>3, <2>2 DEF Excepted, Inv, Named, Pending
    <3> QED
      BY <1>2, <1>4, <1>9, <2>1, <2>2, <3>1, <3>2 DEF LockAt, WrittenBy
  <2>3. CASE i # id /\ i \in Live /\ hive'[i] = hive[i] /\ hive[i] \in Made
    <3>1. LockAt(i)
      BY <1>2, <1>8, <2>3 DEF Inv, Locks
    <3>2. WrittenBy(hive[i])' <=> WrittenBy(hive[i])
      BY <1>2, <1>4, <2>3 DEF WrittenBy
    <3>3. rows' = rows /\ locked' = locked /\ upd' = upd
      BY <1>2
    <3> QED
      BY <1>9, <2>3, <3>1, <3>2, <3>3 DEF LockAt, UpdateOf
  <2> QED
    BY <1>14, <2>2, <2>3
<1>17. IdsFollow'
  <2> SUFFICES ASSUME NEW i \in Ids, i >= id + 1, hive'[i] # 0
               PROVE  \E lower \in NumQueues .. id : hive'[lower] = 0
    BY <1>2, <1>3, Numbered, PersistenceAssumption DEF IdsFollow
  <2>1. i \in Nat /\ i >= id /\ hive[i] # 0 /\ i # id
    BY <1>3, <1>6, <1>8, Numbered
  <2>2. PICK lower \in NumQueues .. id - 1 : hive[lower] = 0
    BY <1>1, <2>1 DEF Inv, IdsFollow
  <2>3. lower \in Ids /\ lower # id /\ lower \in NumQueues .. id
    BY <1>3, <2>2, PersistenceAssumption DEF Ids
  <2> QED
    BY <1>6, <1>7, <2>2, <2>3
<1> QED
  BY <1>10, <1>11, <1>12, <1>13, <1>15, <1>16, <1>17 DEF Inv

-----------------------------------------------------------------------------
(* The handlers of staff                                                   *)

LEMMA LockThreadInv == ASSUME Inv, NEW s \in Staff, LockThread(s) PROVE Inv'
<1>1. PICK id \in Elements(made), val \in BOOLEAN :
        /\ locked' = IF val THEN locked \cup ({hive[id]} \ {0}) ELSE locked \ {hive[id]}
        /\ upd' = [upd EXCEPT ![s] = [id |-> id, locked |-> val]]
        /\ crossed' = crossed \cup {i \in {id} : hive[i] = 0 \/ \E o \in Staff : UpdateOf(o, i)}
  BY DEF LockThread
<1>2. /\ spc = "select" /\ upd[s] = None /\ changes < MaxChanges /\ changes' = changes + 1
      /\ UNCHANGED <<hiveVars, threadQ, postQ, dbVars, dumpVars, seqVars, restarts,
                     clashed, early, safe>>
  BY DEF LockThread
<1> USE DEF hiveVars, dbVars, dumpVars, seqVars
<1>3. /\ made \in Seq(Ids) /\ id \in Ids /\ hive \in [Ids -> Numbers \cup {0}]
      /\ upd \in [Staff -> [id : Ids, locked : BOOLEAN] \cup {None}]
  BY <1>1 DEF Inv, Shape, TypeOK, Elements
<1>4. /\ upd'[s] = [id |-> id, locked |-> val] /\ upd'[s] # None
      /\ \A o \in Staff \ {s} : upd'[o] = upd[o]
  BY <1>1, <1>3, Numbered
<1>5. TxRows' = TxRows /\ TxPosts' = TxPosts /\ Pending' = Pending
  BY <1>2, SameQueues
<1>6. Shape'
  <2>1. /\ locked' \subseteq Numbers /\ crossed' \subseteq Ids /\ changes' \in 0 .. MaxChanges
        /\ upd' \in [Staff -> [id : Ids, locked : BOOLEAN] \cup {None}]
    BY <1>1, <1>2, <1>3, PersistenceAssumption DEF Inv, Shape, TypeOK
  <2> QED
    BY <1>2, <2>1 DEF Inv, Shape, TypeOK, Made
<1>7. Named' /\ Threads' /\ IdsFollow' /\ Owned' /\ PostsKept'
  BY <1>2, <1>5, SameThreads, SamePosts
<1>8. Locks'
  <2> SUFFICES ASSUME NEW i \in Live, i \notin Excepted \cup crossed' PROVE LockAt(i)'
    BY <1>2 DEF Locks, Live, Excepted
  <2>1. LockAt(i) /\ i \notin crossed /\ i \in Ids /\ hive[i] # 0 /\ made[hive[i]] = i
    BY <1>1 DEF Inv, Locks, Live, Named
  <2>2. CASE i = id
    <3>1. \A o \in Staff : ~UpdateOf(o, i)
      BY <1>1, <2>2
    <3>2. \A o \in Staff : UpdateOf(o, i)' <=> o = s
      BY <1>4, <2>2, <3>1 DEF UpdateOf
    <3>3. upd'[s].locked = (hive[i] \in locked')
      BY <1>1, <1>4, <2>1, <2>2
    <3> QED
      BY <1>2, <3>2, <3>3 DEF LockAt
  <2>3. CASE i # id
    <3>1. \A o \in Staff : UpdateOf(o, i)' <=> UpdateOf(o, i)
      BY <1>2, <1>4, <2>3 DEF UpdateOf
    <3>2. hive[i] # hive[id]
      BY <1>3, <2>1, <2>3 DEF Inv, Named
    <3>3. hive[i] \in locked' <=> hive[i] \in locked
      BY <1>1, <3>2
    <3>4. \A o \in Staff : UpdateOf(o, i) => upd'[o] = upd[o]
      BY <1>2, <1>4 DEF UpdateOf
    <3>5. hive' = hive /\ rows' = rows /\ (WrittenBy(hive[i])' <=> WrittenBy(hive[i]))
      BY <1>2 DEF WrittenBy
    <3> QED
      BY <1>5, <2>1, <3>1, <3>3, <3>4, <3>5 DEF LockAt
  <2> QED
    BY <2>2, <2>3
<1> QED
  BY <1>6, <1>7, <1>8 DEF Inv

LEMMA UpdateLockedInv == ASSUME Inv, NEW s \in Staff, UpdateLocked(s) PROVE Inv'
<1>1. PICK u : u = upd[s]
  OBVIOUS
<1>2. /\ u # None /\ tx = <<>>
      /\ rows' = [id \in Ids |-> IF id = u.id /\ rows[id] # None
                                 THEN [rows[id] EXCEPT !.locked = u.locked] ELSE rows[id]]
      /\ upd' = [upd EXCEPT ![s] = None]
      /\ UNCHANGED <<hiveVars, flagVars, threadQ, postQ, postRows, late, dumpVars, seqVars, restarts,
                     historyVars>>
  BY <1>1 DEF UpdateLocked, NotWriting
<1> USE DEF hiveVars, flagVars, dumpVars, seqVars, historyVars
<1>3. /\ rows \in [Ids -> Row \cup {None}] /\ hive \in [Ids -> Numbers \cup {0}]
      /\ upd \in [Staff -> [id : Ids, locked : BOOLEAN] \cup {None}]
      /\ u \in [id : Ids, locked : BOOLEAN] /\ UpdateOf(s, u.id)
  BY <1>1, <1>2 DEF Inv, Shape, TypeOK, UpdateOf
<1>4. /\ \A id \in Ids : rows[id] = None => rows'[id] = None
      /\ \A id \in Ids : rows[id] # None =>
           /\ rows'[id] \in Row /\ rows'[id] # None /\ rows'[id].of = rows[id].of
           /\ rows'[id].locked = IF id = u.id THEN u.locked ELSE rows[id].locked
  <2> SUFFICES ASSUME NEW id \in Ids, rows[id] # None
               PROVE  /\ rows'[id] \in Row /\ rows'[id] # None /\ rows'[id].of = rows[id].of
                      /\ rows'[id].locked = IF id = u.id THEN u.locked ELSE rows[id].locked
    BY <1>2
  <2>1. rows[id] \in Row
    BY <1>3
  <2>2. rows'[id] = IF id = u.id THEN [rows[id] EXCEPT !.locked = u.locked] ELSE rows[id]
    BY <1>2
  <2>3. /\ rows'[id] \in Row /\ rows'[id].of = rows[id].of
        /\ rows'[id].locked = IF id = u.id THEN u.locked ELSE rows[id].locked
    BY <1>3, <2>1, <2>2 DEF Row
  <2> QED
    BY <2>3, Numbered
<1>5. /\ TxRows' = TxRows /\ TxPosts' = TxPosts /\ Pending' = Pending /\ TxRows = {}
      /\ \A k \in Made : WrittenBy(k)' <=> WrittenBy(k)
  <2>1. \A k \in Made : made[k] \in Ids
    BY DEF Made, Inv, Shape, TypeOK
  <2> QED
    BY <1>2, <1>4, <2>1, SameQueues, SetEmpty DEF WrittenBy, TxRows
<1>6. Shape'
  <2>1. rows' \in [Ids -> Row \cup {None}]
    BY <1>2, <1>3, <1>4
  <2>2. upd' \in [Staff -> [id : Ids, locked : BOOLEAN] \cup {None}]
    BY <1>2, <1>3
  <2> QED
    BY <1>2, <2>1, <2>2 DEF Inv, Shape, TypeOK, Made
<1>7. Named' /\ IdsFollow'
  BY <1>2, <1>4, <1>5 DEF Inv, Named, Made, IdsFollow
<1>8. Threads'
  BY <1>2, <1>4, <1>5 DEF Inv, Threads, ThreadAt, Excepted, Named, WrittenBy
<1>9. Owned'
  BY <1>2, <1>5 DEF Inv, Owned
<1>10. PostsKept'
  BY <1>2, <1>5 DEF Inv, PostsKept, KeptPost, Live, Excepted, Named
<1>11. Locks'
  <2> SUFFICES ASSUME NEW i \in Live, i \notin Excepted \cup crossed PROVE LockAt(i)'
    BY <1>2 DEF Locks, Live, Excepted
  <2>1. LockAt(i) /\ i \in Ids /\ hive[i] \in Made /\ made[hive[i]] = i
    BY DEF Inv, Locks, Live, Named
  <2>2. /\ \A o \in Staff \ {s} : upd'[o] = upd[o]
        /\ upd'[s] = None /\ hive' = hive /\ locked' = locked
        /\ \A o \in Staff : UpdateOf(o, i)' <=> (UpdateOf(o, i) /\ o # s)
    BY <1>2, <1>3 DEF UpdateOf
  <2>3. WrittenBy(hive[i])' <=> WrittenBy(hive[i])
    BY <1>5, <2>1, <2>2
  <2>4. \A o \in Staff : UpdateOf(o, i)' =>
          /\ upd'[o].locked = (hive[i] \in locked)
          /\ \A k \in Staff : UpdateOf(k, i)' => k = o
    BY <2>1, <2>2 DEF LockAt
  <2>5. CASE i = u.id
    <3>1. u.locked = (hive[i] \in locked)
      BY <1>1, <1>3, <2>1, <2>5 DEF LockAt
    <3>2. WrittenBy(hive[i]) => rows'[i].locked = u.locked
      BY <1>4, <2>1, <2>5 DEF WrittenBy
    <3> QED
      BY <1>5, <2>2, <2>3, <2>4, <3>1, <3>2 DEF LockAt
  <2>6. CASE i # u.id
    <3>1. \A o \in Staff : UpdateOf(o, i)' <=> UpdateOf(o, i)
      BY <1>1, <2>2, <2>6 DEF UpdateOf
    <3>2. WrittenBy(hive[i]) => rows'[i].locked = rows[i].locked
      BY <1>4, <2>1, <2>6 DEF WrittenBy
    <3> QED
      BY <1>5, <2>1, <2>2, <2>3, <2>4, <3>1, <3>2 DEF LockAt
  <2> QED
    BY <2>5, <2>6
<1> QED
  BY <1>6, <1>7, <1>8, <1>9, <1>10, <1>11 DEF Inv

-----------------------------------------------------------------------------
(* The dump loop                                                           *)

LEMMA Least ==
  ASSUME NEW T \in SUBSET Nat, T # {}
  PROVE  \E x \in T : \A y \in T : x <= y
<1> DEFINE R == OpToRel(<, Nat)
<1>1. IsWellFoundedOn(R, Nat)
  BY NatLessThanWellFounded
<1>2. \A y \in Nat, x \in Nat : y < x => <<y, x>> \in R
  BY DEF OpToRel
<1> HIDE DEF R
<1>3. PICK x \in T : \A y \in T : ~ (<<y, x>> \in R)
  BY <1>1, WFMin
<1>4. \A y \in T : ~(y < x)
  BY <1>2, <1>3
<1> QED
  BY <1>4

LEMMA InsertThreadInv == ASSUME Inv, InsertThread PROVE Inv'
<1>1. PICK n, r : n = Head(threadQ) /\ r = [of |-> n, locked |-> n \in locked]
  OBVIOUS
<1>2. /\ phase = "threads" /\ threadQ # <<>> /\ tx' = Append(tx, r) /\ threadQ' = Tail(threadQ)
      /\ UNCHANGED <<hiveVars, flagVars, postQ, dbVars, phase, seqVars, upd, restarts, historyVars>>
  BY <1>1 DEF InsertThread
<1> USE DEF hiveVars, flagVars, dbVars, seqVars, historyVars
<1>3. /\ threadQ \in Seq(Numbers) /\ Len(threadQ) <= ThreadQueueSize /\ tx \in Seq(Row)
  BY <1>2 DEF Inv, Shape, TypeOK
<1>4. /\ n \in Numbers /\ threadQ' \in Seq(Numbers) /\ Len(threadQ') <= ThreadQueueSize
      /\ Elements(threadQ) = {n} \cup Elements(threadQ')
  <2>1. /\ n \in Numbers /\ threadQ' \in Seq(Numbers) /\ Len(threadQ') = Len(threadQ) - 1
        /\ Elements(threadQ) = {n} \cup Elements(threadQ')
    BY <1>1, <1>2, <1>3, SetTaken
  <2> QED
    BY <1>3, <2>1, PersistenceAssumption
<1>5. /\ r \in Row /\ r.of = n /\ r.locked = (n \in locked)
  BY <1>1, <1>4 DEF Row
<1>6. tx' \in Seq(Row) /\ Elements(tx') = Elements(tx) \cup {r}
  BY <1>2, <1>3, <1>5, SetAppended
<1>7. TxRows' = TxRows \cup {r} /\ TxPosts' = TxPosts /\ Pending' = Pending
  <2>1. TxRows = Elements(tx) /\ TxRows' = Elements(tx') /\ TxPosts' = TxPosts
    BY <1>2 DEF TxRows, TxPosts
  <2> QED
    BY <1>4, <1>5, <1>6, <2>1 DEF Pending
<1>8. Shape'
  BY <1>2, <1>4, <1>6 DEF Inv, Shape, TypeOK, Made
<1>9. Named' /\ Threads' /\ IdsFollow'
  <2>1. Named'
    BY <1>2, <1>7 DEF Inv, Named, Made
  <2>2. Threads'
    BY <1>2, <1>7 DEF Inv, Threads, ThreadAt, Excepted, WrittenBy
  <2>3. IdsFollow'
    BY <1>2 DEF Inv, IdsFollow
  <2> QED
    BY <2>1, <2>2, <2>3
<1>10. Owned' /\ PostsKept'
  BY <1>2, <1>7, SamePosts
<1>11. Locks'
  BY <1>2, <1>5, <1>7 DEF Inv, Locks, LockAt, Live, Excepted, WrittenBy, UpdateOf
<1> QED
  BY <1>8, <1>9, <1>10, <1>11 DEF Inv

\* A commit leaves the rows that are there, and takes the others from the
\* transaction.
LEMMA Committed ==
  ASSUME Inv, CommitThreads, NEW id \in Ids
  PROVE  \/ rows'[id] = rows[id] /\ (rows[id] = None => \A r \in TxRows : made[r.of] # id)
         \/ rows[id] = None /\ rows'[id] \in TxRows /\ made[rows'[id].of] = id
<1> DEFINE new == {i \in DOMAIN tx : made[tx[i].of] = id}
           c   == CHOOSE i \in new : \A j \in new : i <= j
<1>1. tx \in Seq(Row) /\ TxRows = {tx[i] : i \in DOMAIN tx}
  BY DEF CommitThreads, Inv, Shape, TxRows, Elements
<1>2. rows'[id] = IF rows[id] # None \/ new = {} THEN rows[id] ELSE tx[c]
  BY DEF CommitThreads
<1>3. CASE rows[id] # None
  BY <1>2, <1>3
<1>4. CASE rows[id] = None /\ new = {}
  BY <1>1, <1>2, <1>4
<1>5. CASE rows[id] = None /\ new # {}
  <2>1. new \in SUBSET Nat
    BY <1>1
  <2>2. \E i \in new : \A j \in new : i <= j
    BY <1>5, <2>1, Least
  <2>3. c \in new
    BY <2>2
  <2> HIDE DEF c
  <2> QED
    BY <1>1, <1>2, <1>5, <2>3
<1> QED
  BY <1>3, <1>4, <1>5

LEMMA CommitThreadsInv == ASSUME Inv, CommitThreads PROVE Inv'
<1>1. /\ phase = "threads" /\ threadQ = <<>> /\ tx' = <<>> /\ phase' = "media"
      /\ UNCHANGED <<hiveVars, flagVars, threadQ, postQ, postRows, late, seqVars, upd, restarts, historyVars>>
      /\ DOMAIN rows' = Ids /\ rows' = [id \in Ids |-> rows'[id]]
  BY DEF CommitThreads
<1> USE DEF hiveVars, flagVars, seqVars, historyVars
<1>2. /\ TxRows' = {} /\ TxPosts' = TxPosts /\ Pending' = {} /\ TxRows \subseteq Row
      /\ Pending = {r.of : r \in TxRows}
  BY <1>1, SetEmpty DEF TxRows, TxPosts, Pending, Inv, Shape, Elements
<1>3. \A id \in Ids : \/ rows'[id] = rows[id] /\ (rows[id] = None => \A r \in TxRows : made[r.of] # id)
                      \/ rows[id] = None /\ rows'[id] \in TxRows /\ made[rows'[id].of] = id
  BY Committed
<1>4. rows' \in [Ids -> Row \cup {None}]
  BY <1>1, <1>2, <1>3 DEF Inv, Shape, TypeOK
<1>5. Shape'
  BY <1>1, <1>4 DEF Inv, Shape, TypeOK, Made
<1>6. Named'
  BY <1>1, <1>2, <1>3 DEF Inv, Named, Made
<1>7. IdsFollow'
  BY <1>1 DEF Inv, IdsFollow
<1>8. ASSUME NEW id \in Ids, id \notin Excepted, rows[id] = None, rows'[id] \in TxRows,
             made[rows'[id].of] = id
      PROVE  rows'[id].of = hive[id]
  BY <1>2, <1>8 DEF Inv, Threads, ThreadAt
<1>9. \A k \in Made : WrittenBy(k) => WrittenBy(k)'
  <2>1. \A k \in Made : made[k] \in Ids
    BY DEF Made, Inv, Shape, TypeOK
  <2> QED
    BY <1>1, <1>3, <2>1 DEF WrittenBy
<1>10. Threads'
  <2> SUFFICES ASSUME NEW id \in Ids, id \notin Excepted PROVE ThreadAt(id)'
    BY <1>1 DEF Threads, Excepted
  <2>1. ThreadAt(id)
    BY DEF Inv, Threads
  <2>2. hive[id] # 0 => \/ WrittenBy(hive[id])'
                        \/ cur = hive[id] /\ spc \in {"delete", "thread"}
    <3>0. hive[id] # 0 /\ WrittenBy(hive[id]) => WrittenBy(hive[id])'
      BY <1>1, <1>9 DEF Inv, Named, WrittenBy
    <3> SUFFICES ASSUME hive[id] # 0, hive[id] \in Pending PROVE WrittenBy(hive[id])'
      BY <2>1, <3>0 DEF ThreadAt
    <3>1. made[hive[id]] = id /\ ~(spc = "delete" /\ gone = id)
      BY DEF Inv, Shape, Named
    <3>2. CASE rows[id] # None
      BY <1>1, <1>3, <2>1, <3>1, <3>2 DEF ThreadAt, WrittenBy
    <3>3. CASE rows[id] = None
      <4>1. rows'[id] \in TxRows /\ made[rows'[id].of] = id
        BY <1>2, <1>3, <3>1, <3>3
      <4> QED
        BY <1>1, <1>2, <1>8, <3>1, <3>3, <4>1, Numbered DEF WrittenBy
    <3> QED
      BY <3>2, <3>3
  <2>3. rows'[id] # None => rows'[id].of = hive[id] \/ (spc = "delete" /\ gone = id)
    BY <1>3, <1>8, <2>1 DEF ThreadAt
  <2> QED
    BY <1>1, <1>2, <2>1, <2>2, <2>3 DEF ThreadAt
<1>11. Owned'
  BY <1>1, <1>2 DEF Inv, Owned
<1>12. PostsKept'
  BY <1>1, <1>2, <1>9 DEF Inv, PostsKept, KeptPost, Live, Excepted, Named
<1>13. Locks'
  <2> SUFFICES ASSUME NEW id \in Live, id \notin Excepted \cup crossed PROVE LockAt(id)'
    BY <1>1 DEF Locks, Live, Excepted
  <2>1. LockAt(id) /\ id \in Ids /\ made[hive[id]] = id
    BY DEF Inv, Locks, Live, Named
  <2>2. ASSUME \A s \in Staff : ~UpdateOf(s, id), WrittenBy(hive[id])'
        PROVE  rows'[id].locked = (hive[id] \in locked)
    <3>1. rows'[id] # None /\ rows'[id].of = hive[id]
      BY <1>1, <2>1, <2>2 DEF WrittenBy
    <3>2. CASE rows'[id] = rows[id]
      BY <2>1, <2>2, <3>1, <3>2 DEF LockAt, WrittenBy
    <3>3. CASE rows'[id] \in TxRows
      BY <2>1, <2>2, <3>1, <3>3 DEF LockAt
    <3> QED
      BY <1>3, <2>1, <3>2, <3>3
  <2>3. hive' = hive /\ locked' = locked /\ upd' = upd
    BY <1>1
  <2> QED
    BY <1>2, <2>1, <2>2, <2>3 DEF LockAt, UpdateOf
<1> QED
  BY <1>5, <1>6, <1>7, <1>10, <1>11, <1>12, <1>13 DEF Inv

LEMMA DumpMediaInv == ASSUME Inv, DumpMedia PROVE Inv'
<1>1. /\ phase = "media" /\ phase' = "posts" /\ late' = {} /\ tx = <<>>
      /\ UNCHANGED <<hiveVars, flagVars, threadQ, postQ, rows, postRows, tx, seqVars, upd, restarts, historyVars>>
  BY DEF DumpMedia, Inv, Shape
<1> USE DEF hiveVars, flagVars, seqVars, historyVars
<1>2. Shape'
  BY <1>1 DEF Inv, Shape, TypeOK, Made
<1>3. TxRows' = TxRows /\ TxPosts' = TxPosts /\ Pending' = Pending
  BY <1>1, SetEmpty DEF TxRows, TxPosts, Pending
<1>4. Named' /\ Threads' /\ IdsFollow' /\ Locks'
  BY <1>1, <1>3, SameThreads, SameLocks
<1>5. Owned'
  BY <1>1, <1>3 DEF Inv, Owned
<1>6. PostsKept'
  BY <1>1, <1>3 DEF Inv, PostsKept, KeptPost, Live, Excepted, WrittenBy
<1> QED
  BY <1>2, <1>4, <1>5, <1>6 DEF Inv

LEMMA InsertPostInv == ASSUME Inv, InsertPost PROVE Inv'
<1>1. PICK m, r : m = Head(postQ) /\ r = [of |-> m, id |-> made[posted[m]]]
  OBVIOUS
<1>2. /\ phase = "posts" /\ postQ # <<>> /\ tx' = Append(tx, r) /\ postQ' = Tail(postQ)
      /\ UNCHANGED <<hiveVars, flagVars, threadQ, dbVars, phase, seqVars, upd, restarts, historyVars>>
  BY <1>1 DEF InsertPost
<1> USE DEF hiveVars, flagVars, dbVars, seqVars, historyVars
<1>3. postQ \in Seq(Posts) /\ Len(postQ) <= PostQueueSize /\ tx \in Seq(PostRow)
  BY <1>2 DEF Inv, Shape, TypeOK
<1>4. /\ m \in Posts /\ postQ' \in Seq(Posts) /\ Len(postQ') <= PostQueueSize
      /\ Elements(postQ) = {m} \cup Elements(postQ')
  <2>1. /\ m \in Posts /\ postQ' \in Seq(Posts) /\ Len(postQ') = Len(postQ) - 1
        /\ Elements(postQ) = {m} \cup Elements(postQ')
    BY <1>1, <1>2, <1>3, SetTaken
  <2> QED
    BY <1>3, <2>1, PersistenceAssumption
<1>5. r \in PostRow /\ r.of = m /\ r.id = made[posted[m]]
  <2>1. posted[m] \in Made
    BY <1>4 DEF Inv, Owned, Named
  <2>2. made[posted[m]] \in Ids
    BY <2>1 DEF Made, Inv, Shape, TypeOK
  <2> QED
    BY <1>1, <1>4, <2>2 DEF PostRow
<1>6. tx' \in Seq(PostRow) /\ Elements(tx') = Elements(tx) \cup {r}
  BY <1>2, <1>3, <1>5, SetAppended
<1>7. TxRows' = TxRows /\ TxPosts' = TxPosts \cup {r} /\ Pending' = Pending
  BY <1>2, <1>6 DEF TxRows, TxPosts, Pending
<1>8. Shape'
  BY <1>2, <1>4, <1>6 DEF Inv, Shape, TypeOK, Made
<1>9. Named' /\ Threads' /\ IdsFollow' /\ Locks'
  BY <1>2, <1>7, SameThreads, SameLocks
<1>10. Owned'
  BY <1>2, <1>4, <1>5, <1>7 DEF Inv, Owned
<1>11. PostsKept'
  <2> SUFFICES ASSUME NEW id \in Live \ Excepted, NEW p \in posts[hive[id]] \cap safe
               PROVE  WrittenBy(hive[id]) /\ KeptPost(id, p)'
    BY <1>2 DEF PostsKept, Live, Excepted, WrittenBy
  <2>1. WrittenBy(hive[id]) /\ KeptPost(id, p)
    BY DEF Inv, PostsKept
  <2>2. p = m => r.of = p /\ r.id = id
    BY <1>5 DEF Inv, Owned, Named, Live, Shape, TypeOK
  <2> QED
    BY <1>2, <1>4, <1>7, <2>1, <2>2 DEF KeptPost
<1> QED
  BY <1>8, <1>9, <1>10, <1>11 DEF Inv

LEMMA CommitPostsInv == ASSUME Inv, CommitPosts PROVE Inv'
<1>1. PICK fk \in BOOLEAN :
        postRows' = postRows \cup {r \in Elements(tx) : fk => rows[r.id] # None /\ r.of \notin late}
  BY DEF CommitPosts, ForeignKeys
<1>2. /\ phase = "posts" /\ postQ = <<>> /\ tx' = <<>> /\ phase' = "wait"
      /\ UNCHANGED <<hiveVars, flagVars, threadQ, postQ, rows, late, seqVars, upd, restarts, historyVars>>
  BY DEF CommitPosts
<1> USE DEF hiveVars, flagVars, seqVars, historyVars
<1>3. /\ TxRows' = TxRows /\ TxPosts' = {} /\ Pending' = Pending /\ Elements(tx) = TxPosts
      /\ TxPosts \subseteq PostRow /\ Elements(postQ) = {}
  BY <1>2, SetEmpty DEF TxRows, TxPosts, Pending, Inv, Shape, Elements
<1>4. Shape'
  BY <1>1, <1>2, <1>3 DEF Inv, Shape, TypeOK, Made
<1>5. Named' /\ Threads' /\ IdsFollow' /\ Locks'
  BY <1>2, <1>3, SameThreads, SameLocks
<1>6. Owned'
  BY <1>1, <1>2, <1>3 DEF Inv, Owned
<1>7. PostsKept'
  <2> SUFFICES ASSUME NEW id \in Live \ Excepted, NEW p \in posts[hive[id]] \cap safe
               PROVE  WrittenBy(hive[id]) /\ \E r \in postRows' : r.of = p /\ r.id = id
    BY <1>2 DEF PostsKept, KeptPost, Live, Excepted, WrittenBy
  <2>1. WrittenBy(hive[id]) /\ KeptPost(id, p)
    BY DEF Inv, PostsKept
  <2>2. rows[id] # None /\ p \notin late
    BY <2>1 DEF WrittenBy, Inv, Named, Live, Owned
  <2> QED
    BY <1>1, <1>3, <2>1, <2>2 DEF KeptPost
<1> QED
  BY <1>4, <1>5, <1>6, <1>7 DEF Inv

-----------------------------------------------------------------------------
(* The next start                                                          *)

\* Each row is that of a thread of its own, so there are no more rows than
\* threads were made.
LEMMA RowsCounted ==
  ASSUME Shape, Named, NEW recovered, recovered = {id \in Ids : rows[id] # None}
  PROVE  /\ IsFiniteSet(recovered) /\ Cardinality(recovered) \in Nat
         /\ Cardinality(recovered) <= Len(made)
<1>1. PICK n : n = Len(made)
  OBVIOUS
<1>2. n \in Nat /\ Made = 1 .. n
  BY <1>1 DEF Shape, TypeOK, Made
<1>3. IsFiniteSet(1 .. n) /\ Cardinality(1 .. n) = n
  <2>1. 1 \in Int /\ n \in Int
    BY <1>2
  <2>2. IsFiniteSet(1 .. n) /\ Cardinality(1 .. n) = IF 1 > n THEN 0 ELSE n - 1 + 1
    BY <2>1, FS_Interval
  <2> QED
    BY <1>2, <2>2
<1>4. PICK f : f = [id \in recovered |-> rows[id].of]
  OBVIOUS
<1>5. f \in Injection(recovered, 1 .. n)
  <2>1. f \in [recovered -> 1 .. n]
    BY <1>2, <1>4 DEF Named
  <2>2. \A i, j \in recovered : f[i] = f[j] => i = j
    BY <1>4 DEF Named
  <2> QED
    BY <2>1, <2>2 DEF Injection, IsInjective
<1>6. IsFiniteSet(recovered) /\ Cardinality(recovered) <= Cardinality(1 .. n)
  BY <1>3, <1>5, FS_Injection
<1> QED
  BY <1>1, <1>3, <1>6, FS_CardinalityType

LEMMA RestartInv == ASSUME Inv, Restart PROVE Inv'
<1>1. PICK recovered : recovered = {id \in Ids : rows[id] # None} /\ recovered = Recovered
  BY DEF Recovered
<1>2. /\ restarts < MaxRestarts /\ restarts' = restarts + 1
      /\ hive' = [id \in Ids |-> IF rows[id] = None THEN 0 ELSE rows[id].of]
      /\ count' = NumQueues + Cardinality(recovered)
      /\ locked' = {rows[id].of : id \in {i \in recovered : rows[i].locked}}
      /\ posts' = [n \in Numbers |->
           {r.of : r \in {q \in postRows : rows[q.id] # None /\ rows[q.id].of = n}}]
      /\ late' = {r.of : r \in {q \in postRows : q.of \in late}}
      /\ threadQ' = <<>> /\ postQ' = <<>>
      /\ phase' \in {"wait", "down"} /\ tx' = <<>>
      /\ spc' \in {"select", "down"} /\ cur' = 0 /\ gone' = None
      /\ upd' = [s \in Staff |-> None]
      /\ clashed' = {} /\ early' = {} /\ crossed' = {} /\ safe' = {}
      /\ UNCHANGED <<made, posted, changes, rows, postRows>>
  BY <1>1 DEF Restart, Forget, Recover
<1>3. /\ TxRows' = {} /\ TxPosts' = {} /\ Pending' = {} /\ Elements(postQ') = {}
      /\ Excepted' = {} /\ \A s \in Staff : \A id : ~UpdateOf(s, id)'
  BY <1>2, SetEmpty DEF TxRows, TxPosts, Pending, Excepted, UpdateOf
<1>4. IsFiniteSet(recovered) /\ Cardinality(recovered) \in Nat /\ Cardinality(recovered) <= Len(made)
  BY <1>1, RowsCounted DEF Inv
<1>5. rows \in [Ids -> Row \cup {None}] /\ postRows \subseteq PostRow
  BY DEF Inv, Shape, TypeOK
<1>6. \A id \in Ids : rows[id] # None =>
        rows[id].of \in Made /\ rows[id].of \in Numbers /\ made[rows[id].of] = id /\ rows[id].of # 0
  BY <1>5, Numbered DEF Inv, Named, Row
<1>7. \A r \in postRows : r.of \in Posts
  BY <1>5 DEF PostRow
<1>8. Shape'
  <2>1. count' \in NumQueues .. NumQueues + MaxThreads /\ count' <= NumQueues + Len(made')
    BY <1>2, <1>4, PersistenceAssumption DEF Inv, Shape, TypeOK
  <2>2. hive' \in [Ids -> Numbers \cup {0}] /\ locked' \subseteq Numbers /\ restarts' \in 0 .. MaxRestarts
    BY <1>1, <1>2, <1>6, PersistenceAssumption DEF Inv, Shape, TypeOK
  <2>3. posts' \in [Numbers -> SUBSET Posts] /\ late' \subseteq Posts
    BY <1>2, <1>7
  <2>4. TypeOK'
    BY <1>2, <2>1, <2>2, <2>3, PersistenceAssumption DEF Inv, Shape, TypeOK
  <2> QED
    BY <1>2, <2>1, <2>4 DEF Inv, Shape
<1>9. Named'
  BY <1>2, <1>3, <1>6 DEF Inv, Named, Made
<1>10. Threads'
  BY <1>2, <1>3, <1>6 DEF Threads, ThreadAt, WrittenBy
<1>11. Owned'
  <2>1. \A r \in postRows : r.of \in 1 .. Len(posted)
    BY DEF Inv, Owned
  <2> QED
    BY <1>2, <1>3, <2>1 DEF Owned
<1>12. PostsKept'
  BY <1>2 DEF PostsKept
<1>13. Locks'
  <2> SUFFICES ASSUME NEW id \in Live' PROVE LockAt(id)'
    BY DEF Locks
  <2>1. id \in Ids /\ rows[id] # None /\ hive'[id] = rows[id].of
    BY <1>2 DEF Live
  <2>2. rows[id].locked = (hive'[id] \in locked')
    <3>1. rows[id].locked \in BOOLEAN
      BY <1>5, <2>1 DEF Row
    <3>2. rows[id].locked => hive'[id] \in locked'
      BY <1>1, <1>2, <2>1
    <3>3. ASSUME hive'[id] \in locked' PROVE rows[id].locked
      <4>1. PICK i \in Ids : rows[i] # None /\ rows[i].locked /\ rows[i].of = rows[id].of
        BY <1>1, <1>2, <2>1, <3>3
      <4>2. i = id
        BY <1>6, <2>1, <4>1
      <4> QED
        BY <4>1, <4>2
    <3> QED
      BY <3>1, <3>2, <3>3
  <2> QED
    BY <1>2, <1>3, <2>2 DEF LockAt
<1>14. IdsFollow'
  <2> SUFFICES ASSUME NEW id \in Ids, id >= count', hive'[id] # 0,
                      \A lower \in NumQueues .. count' - 1 : hive'[lower] # 0
               PROVE  FALSE
    BY DEF IdsFollow
  <2> DEFINE low == NumQueues .. count' - 1
  <2>1. PICK c : c = Cardinality(recovered)
    OBVIOUS
  <2>2. /\ c \in Nat /\ NumQueues \in Nat /\ count' = NumQueues + c /\ id \in Nat
        /\ c <= MaxThreads /\ MaxThreads \in Nat
    BY <1>2, <1>4, <2>1, Numbered, PersistenceAssumption DEF Inv, Shape, TypeOK
  <2>3. low \subseteq Ids /\ id \notin low
    BY <2>2 DEF Ids
  <2>4. IsFiniteSet(low) /\ Cardinality(low) = c
    <3>1. NumQueues \in Int /\ count' - 1 \in Int
      BY <2>2
    <3>2. IsFiniteSet(low) /\ Cardinality(low) = IF NumQueues > count' - 1 THEN 0 ELSE count' - 1 - NumQueues + 1
      BY <3>1, FS_Interval
    <3> QED
      BY <2>2, <3>2
  <2>5. low \cup {id} \in SUBSET recovered
    BY <1>1, <1>2, <2>3
  <2> HIDE DEF low
  <2>6. Cardinality(low \cup {id}) = c + 1
    BY <2>3, <2>4, FS_AddElement
  <2>7. Cardinality(low \cup {id}) <= c
    BY <1>4, <2>1, <2>5, FS_Subset
  <2> QED
    BY <2>2, <2>6, <2>7
<1> QED
  BY <1>8, <1>9, <1>10, <1>11, <1>12, <1>13, <1>14 DEF Inv

LEMMA StepInv == Inv /\ [Next]_vars => Inv'
<1> SUFFICES ASSUME Inv, [Next]_vars PROVE Inv'
  OBVIOUS
<1>1. CASE UNCHANGED vars
  <2> USE <1>1 DEF vars, hiveVars, flagVars, dbVars, dumpVars, seqVars, historyVars
  <2>1. TxRows' = TxRows /\ TxPosts' = TxPosts /\ Pending' = Pending
    BY SameQueues
  <2>2. Shape'
    BY DEF Inv, Shape, TypeOK, Made
  <2>3. Named' /\ Threads' /\ IdsFollow' /\ Owned' /\ PostsKept' /\ Locks'
    BY <2>1, SameThreads, SamePosts, SameLocks
  <2> QED
    BY <2>2, <2>3 DEF Inv
<1>2. CASE NewThread \/ DeleteThread \/ Reply
  BY <1>2, NewThreadInv, DeleteThreadInv, ReplyInv
<1>3. CASE Sequencer
  BY <1>3, DeleteRowInv, QueueThreadInv, QueuePostInv DEF Sequencer
<1>4. CASE Dumper
  BY <1>4, WakeInv, InsertThreadInv, CommitThreadsInv, DumpMediaInv, InsertPostInv, CommitPostsInv DEF Dumper
<1>5. CASE \E s \in Staff : LockThread(s) \/ UpdateLocked(s)
  BY <1>5, LockThreadInv, UpdateLockedInv
<1>6. CASE Restart
  BY <1>6, RestartInv
<1> QED
  BY <1>1, <1>2, <1>3, <1>4, <1>5, <1>6 DEF Next

-----------------------------------------------------------------------------
(* Every reachable state is of its type.                                   *)
THEOREM PersistenceType == Spec => []TypeOK
<1>1. Inv => TypeOK
  BY DEF Inv, Shape
<1> QED
  BY InitInv, StepInv, <1>1, PTL DEF Spec

(* The row of a live thread is there or on its way, and a row without a    *)
(* thread is being deleted, except for threads deleted before they were    *)
(* written and ids that were given twice.                                  *)
THEOREM ThreadsPersist == Spec => []ThreadsAgree
<1>1. Inv => ThreadsAgree
  BY UnwrittenIsPending DEF Inv, Threads, ThreadAt, Excepted, ThreadsAgree
<1> QED
  BY InitInv, StepInv, <1>1, PTL DEF Spec

(* A post made when its thread and its media were in their tables is in    *)
(* the queue, in the transaction or in the table.                          *)
THEOREM PostsPersist == Spec => []PostsAgree
<1>1. Inv => PostsAgree
  <2> SUFFICES ASSUME Inv, NEW id \in Live \ (clashed \cup early), NEW m \in posts[hive[id]] \cap safe
               PROVE  \/ \E r \in postRows : r.of = m /\ r.id = id
                      \/ m \in Elements(postQ)
                      \/ phase = "posts" /\ \E i \in DOMAIN tx : tx[i].of = m
    BY DEF PostsAgree
  <2>1. KeptPost(id, m)
    BY DEF Inv, PostsKept, Excepted
  <2> QED
    BY <2>1 DEF KeptPost, TxPosts, Elements
<1> QED
  BY InitInv, StepInv, <1>1, PTL DEF Spec

(* The table and the hive agree on which threads are locked, unless two    *)
(* statements for one id crossed.                                          *)
THEOREM LocksPersist == Spec => []LocksAgree
<1>1. Inv => LocksAgree
  BY DEF Inv, Locks, LockAt, Excepted, LocksAgree
<1> QED
  BY InitInv, StepInv, <1>1, PTL DEF Spec

(* A new thread takes the id of a live one only if a lower id is free.     *)
THEOREM IdsKept == Spec => NotReplaced
<1>1. ASSUME Inv, [Next]_vars, restarts' = restarts,
             NEW id \in Ids, hive[id] # 0, hive'[id] \notin {0, hive[id]}
      PROVE  \E lower \in NumQueues .. id - 1 : hive[lower] = 0
  <2>1. CASE UNCHANGED vars \/ Reply \/ Sequencer \/ Dumper
    BY <1>1, <2>1 DEF vars, hiveVars, historyVars, Reply, Sequencer, DeleteRow, QueueThread, QueuePost,
                      Dumper, Wake, InsertThread, CommitThreads, DumpMedia, InsertPost, CommitPosts
  <2>2. CASE \E s \in Staff : LockThread(s) \/ UpdateLocked(s)
    BY <1>1, <2>2 DEF hiveVars, LockThread, UpdateLocked
  <2>3. CASE Restart
    BY <1>1, <2>3 DEF Restart, Inv, Shape, TypeOK
  <2>4. CASE DeleteThread
    BY <1>1, <2>4 DEF DeleteThread, Remove, Inv, Shape, TypeOK
  <2>5. CASE NewThread
    <3>1. hive \in [Ids -> Numbers \cup {0}]
      BY <1>1 DEF Inv, Shape, TypeOK
    <3>2. \A i \in Ids : i # count => hive'[i] \in {0, hive[i]}
      BY <2>5, <3>1 DEF NewThread, Remove
    <3>3. id = count
      BY <1>1, <3>2
    <3>4. id >= count
      BY <3>3, Numbered
    <3> QED
      BY <1>1, <3>3, <3>4 DEF Inv, IdsFollow
  <2> QED
    BY <1>1, <2>1, <2>2, <2>3, <2>4, <2>5 DEF Next
<1>2. Inv /\ [Next]_vars => (restarts' = restarts =>
        \A id \in Ids : hive[id] # 0 /\ hive'[id] \notin {0, hive[id]}
          => \E lower \in NumQueues .. id - 1 : hive[lower] = 0)
  BY <1>1
<1> QED
  BY InitInv, StepInv, <1>2, PTL DEF Spec, NotReplaced
=============================================================================
