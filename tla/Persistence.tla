----------------------------- MODULE Persistence -----------------------------
(***************************************************************************)
(* What the server keeps in SQLite (db.go), and when.                      *)
(*                                                                         *)
(* The sequencer puts new threads and posts into two channels; one         *)
(* goroutine wakes every DumpInterval and writes first the threads, then   *)
(* the media and then the posts, each in a transaction.  DELETE and UPDATE *)
(* statements are executed at once, by the sequencer or by a handler,      *)
(* whatever is still in the channels.  A signal ends the process without a *)
(* flush, and the next start builds the hive from the tables.              *)
(*                                                                         *)
(* A thread is a number n of its own, given when it is made; its id is     *)
(* what the hive and the tables know it by.  Posts are numbered as well.   *)
(* Of what else they hold, only this is here: whether a thread is locked,  *)
(* and whether the media of a post has a row, which its own row refers to. *)
(* How media get theirs is in Media; hiding a post writes nothing.         *)
(***************************************************************************)
EXTENDS Integers, Sequences, FiniteSets

CONSTANTS
  Staff,            \* handlers of postLock
  NumQueues,        \* report queues, which take the first ids and no rows
  Limit,            \* settings.Limit.Threads
  ThreadQueueSize,  \* settings.Database.ThreadQueueSize
  PostQueueSize,    \* settings.Database.PostQueueSize
  None,             \* no row, no statement
  MaxThreads,       \* bound: threads made in one behaviour
  MaxPosts,         \* bound: posts made
  MaxChanges,       \* bound: threads locked or unlocked
  MaxRestarts       \* bound: restarts

ASSUME PersistenceAssumption ==
  /\ NumQueues \in Nat /\ Limit \in Nat
  /\ ThreadQueueSize \in Nat \ {0} /\ PostQueueSize \in Nat \ {0}
  /\ MaxThreads \in Nat /\ MaxPosts \in Nat /\ MaxRestarts \in Nat /\ MaxChanges \in Nat
  /\ None \notin [of : Nat, locked : BOOLEAN] \cup [id : Nat, locked : BOOLEAN]

VARIABLES
  hive,      \* hive.Threads: the number of the thread with each id, or 0
  count,     \* hive.ThreadCount
  made,      \* the id of each thread made so far
  locked,    \* the threads that are locked
  posts,     \* the posts of each thread
  posted,    \* the thread of each post made so far
  late,      \* the posts whose media is still in persistMedia
  threadQ,   \* persistThread
  postQ,     \* persistPost
  rows,      \* the table threads
  postRows,  \* the table posts
  phase,     \* what initDbLoop's goroutine does: waits for the ticker, or dumps
  tx,        \* rows its transaction has inserted and not committed
  spc,       \* where the sequencer is
  cur,       \* the thread it works on
  gone,      \* the id it is deleting
  upd,       \* the UPDATE each handler has still to execute
  changes, restarts,
  clashed,   \* history: ids given to a thread while another one had them
  early,     \* history: ids of threads deleted before their row was written
  crossed,   \* history: ids with two UPDATEs outstanding at once, or with one
             \* that is for a thread that had the id before
  safe       \* history: posts made when the rows they refer to were written

hiveVars    == <<hive, count, made, posts, posted>>
flagVars    == <<locked, changes>>
dbVars      == <<rows, postRows, late>>
dumpVars    == <<phase, tx>>
seqVars     == <<spc, cur, gone>>
historyVars == <<clashed, early, crossed, safe>>
vars == <<hiveVars, flagVars, threadQ, postQ, dbVars, dumpVars, seqVars, upd, restarts, historyVars>>

Ids     == NumQueues .. NumQueues + MaxThreads
Numbers == 1 .. MaxThreads
Posts   == 1 .. MaxPosts
Row     == [of : Numbers, locked : BOOLEAN]
PostRow == [of : Posts, id : Ids]

TypeOK ==
  /\ hive \in [Ids -> Numbers \cup {0}] /\ count \in NumQueues .. NumQueues + MaxThreads
  /\ made \in Seq(Ids) /\ posts \in [Numbers -> SUBSET Posts] /\ posted \in Seq(Numbers)
  /\ locked \subseteq Numbers /\ late \subseteq Posts
  /\ threadQ \in Seq(Numbers) /\ Len(threadQ) <= ThreadQueueSize
  /\ postQ \in Seq(Posts) /\ Len(postQ) <= PostQueueSize
  /\ rows \in [Ids -> Row \cup {None}] /\ postRows \subseteq PostRow
  /\ phase \in {"wait", "threads", "media", "posts", "down"}
  /\ tx \in Seq(Row) \cup Seq(PostRow)
  /\ spc \in {"select", "delete", "thread", "post", "down"}
  /\ cur \in Numbers \cup {0} /\ gone \in Ids \cup {None}
  /\ upd \in [Staff -> [id : Ids, locked : BOOLEAN] \cup {None}]
  /\ clashed \subseteq Ids /\ early \subseteq Ids /\ crossed \subseteq Ids /\ safe \subseteq Posts
  /\ changes \in 0 .. MaxChanges /\ restarts \in 0 .. MaxRestarts

Live == {id \in Ids : hive[id] # 0}
Elements(s) == {s[i] : i \in DOMAIN s}
UpdateOf(s, id) == upd[s] # None /\ upd[s].id = id
WrittenBy(n) == rows[made[n]] # None /\ rows[made[n]].of = n

Init ==
  /\ hive = [id \in Ids |-> 0] /\ count = NumQueues
  /\ made = <<>> /\ posts = [n \in Numbers |-> {}] /\ posted = <<>>
  /\ locked = {} /\ late = {} /\ changes = 0
  /\ threadQ = <<>> /\ postQ = <<>>
  /\ rows = [id \in Ids |-> None] /\ postRows = {}
  /\ phase = "wait" /\ tx = <<>>
  /\ spc = "select" /\ cur = 0 /\ gone = None
  /\ upd = [s \in Staff |-> None]
  /\ restarts = 0
  /\ clashed = {} /\ early = {} /\ crossed = {} /\ safe = {}

-----------------------------------------------------------------------------
(* SQLite.  Once the transaction of the dump loop has written, every other *)
(* writer waits for its end.                                               *)

NotWriting == tx = <<>>

\* "PRAGMA foreign_keys = ON" was executed on one connection of the pool; a
\* statement that runs while that one is in use gets a connection without.
ForeignKeys == BOOLEAN

-----------------------------------------------------------------------------
(* The sequencer                                                           *)

\* The thread is not in the table yet, and its row is on the way.
Unwritten(n) ==
  \/ n \in Elements(threadQ)
  \/ phase = "threads" /\ \E i \in DOMAIN tx : tx[i].of = n

\* The hive without the thread with this id, whose row is deleted next.
Remove(h, id) ==
  /\ hive' = [h EXCEPT ![id] = 0]
  /\ spc' = "delete"
  /\ gone' = id

\* pruneThreads takes the last of "!!_all"; which one that is depends on
\* bumps and stickies.  The new thread is in front.
Oldest(h, new) ==
  LET others == {id \in Ids \ {new} : h[id] # 0}
  IN  IF others = {} THEN {new} ELSE others

\* newThreadFromPost, up to the DELETE of the thread it prunes.
NewThread ==
  LET n  == Len(made) + 1
      id == count
      h  == [hive EXCEPT ![id] = n]
  IN /\ spc = "select" /\ n <= MaxThreads /\ Len(posted) < MaxPosts
     /\ count' = count + 1
     /\ made' = Append(made, id)
     /\ cur' = n
     /\ IF count + 1 > Limit
        THEN \E v \in Oldest(h, id) :
               /\ Remove(h, v)
               /\ early' = early \cup {i \in {v} : h[i] = n \/ Unwritten(h[i])}
        ELSE hive' = h /\ spc' = "thread" /\ UNCHANGED <<gone, early>>
     /\ clashed' = clashed \cup {i \in {id} : hive[i] # 0 \/ rows[i] # None}
     /\ crossed' = crossed \cup {i \in {id} : \E s \in Staff : UpdateOf(s, i)}
     /\ UNCHANGED <<posts, posted, flagVars, threadQ, postQ, dbVars, dumpVars, upd, restarts, safe>>

\* postDeleteThread
DeleteThread ==
  /\ spc = "select"
  /\ \E id \in Live :
       /\ Remove(hive, id)
       /\ early' = early \cup {i \in {id} : Unwritten(hive[i])}
  /\ UNCHANGED <<count, made, posts, posted, flagVars, threadQ, postQ, dbVars, dumpVars, cur, upd,
                 restarts, clashed, crossed, safe>>

\* Mutant: the thread goes from memory only.
DeleteNoRow ==
  /\ spc = "delete" /\ NotWriting
  /\ gone' = None
  /\ spc' = IF cur = 0 THEN "select" ELSE "thread"
  /\ UNCHANGED <<hiveVars, flagVars, threadQ, postQ, dbVars, dumpVars, cur, upd, restarts, historyVars>>

\* DELETE FROM threads, and the posts with it if the connection has foreign
\* keys.  A new thread goes on with its own row.
DeleteRow ==
  /\ spc = "delete" /\ NotWriting
  /\ rows' = [rows EXCEPT ![gone] = None]
  /\ \E fk \in ForeignKeys :
       postRows' = {r \in postRows : ~(fk /\ r.id = gone)}
  /\ gone' = None
  /\ spc' = IF cur = 0 THEN "select" ELSE "thread"
  /\ UNCHANGED <<hiveVars, flagVars, threadQ, postQ, late, dumpVars, cur, upd, restarts, historyVars>>

\* Mutant: the queue grows as it has to.
QueueThreadUnbounded ==
  /\ spc = "thread"
  /\ threadQ' = Append(threadQ, cur)
  /\ IF hive[made[cur]] = cur
     THEN spc' = "post" /\ UNCHANGED cur
     ELSE spc' = "select" /\ cur' = 0
  /\ UNCHANGED <<hiveVars, flagVars, postQ, dbVars, dumpVars, gone, upd, restarts, historyVars>>

\* persistThread <- t.  A thread that has pruned itself gets no post.
QueueThread ==
  /\ spc = "thread" /\ Len(threadQ) < ThreadQueueSize
  /\ threadQ' = Append(threadQ, cur)
  /\ IF hive[made[cur]] = cur
     THEN spc' = "post" /\ UNCHANGED cur
     ELSE spc' = "select" /\ cur' = 0
  /\ UNCHANGED <<hiveVars, flagVars, postQ, dbVars, dumpVars, gone, upd, restarts, historyVars>>

\* AddPost of a reply, up to persistPost.
Reply ==
  /\ spc = "select" /\ Len(posted) < MaxPosts
  /\ \E id \in Live : cur' = hive[id]
  /\ spc' = "post"
  /\ UNCHANGED <<hiveVars, flagVars, threadQ, postQ, dbVars, dumpVars, gone, upd, restarts, historyVars>>

\* Mutant: persistPost is sent to only if it has room.
QueuePostIfRoom ==
  LET m == Len(posted) + 1
  IN /\ spc = "post"
     /\ posted' = Append(posted, cur)
     /\ posts' = [posts EXCEPT ![cur] = @ \cup {m}]
     /\ postQ' = IF Len(postQ) < PostQueueSize THEN Append(postQ, m) ELSE postQ
     /\ late' \in {late, late \cup {m}}
     /\ safe' = safe \cup {p \in {m} : WrittenBy(cur) /\ p \notin late'}
     /\ spc' = "select" /\ cur' = 0
     /\ UNCHANGED <<hive, count, made, flagVars, threadQ, rows, postRows, dumpVars, gone, upd, restarts,
                    clashed, early, crossed>>

\* persistPost <- p.  The handler has queued the media of the post before
\* (MediaAgree of Media); it has no row yet, or there is one, or no media.
QueuePost ==
  LET m == Len(posted) + 1
  IN /\ spc = "post" /\ Len(postQ) < PostQueueSize
     /\ posted' = Append(posted, cur)
     /\ posts' = [posts EXCEPT ![cur] = @ \cup {m}]
     /\ postQ' = Append(postQ, m)
     /\ late' \in {late, late \cup {m}}
     /\ safe' = safe \cup {p \in {m} : WrittenBy(cur) /\ p \notin late'}
     /\ spc' = "select" /\ cur' = 0
     /\ UNCHANGED <<hive, count, made, flagVars, threadQ, rows, postRows, dumpVars, gone, upd, restarts,
                    clashed, early, crossed>>

-----------------------------------------------------------------------------
(* lockThread: the closure, and then the statement, in the handler.        *)

LockThread(s) ==
  /\ spc = "select" /\ upd[s] = None /\ changes < MaxChanges
  /\ \E id \in Elements(made), val \in BOOLEAN :
       /\ locked' = IF val THEN locked \cup ({hive[id]} \ {0}) ELSE locked \ {hive[id]}
       /\ upd' = [upd EXCEPT ![s] = [id |-> id, locked |-> val]]
       /\ crossed' = crossed \cup
            {i \in {id} : hive[i] = 0 \/ \E o \in Staff : UpdateOf(o, i)}
  /\ changes' = changes + 1
  /\ UNCHANGED <<hiveVars, threadQ, postQ, dbVars, dumpVars, seqVars, restarts,
                 clashed, early, safe>>

\* UPDATE threads SET locked
UpdateLocked(s) ==
  /\ upd[s] # None /\ NotWriting
  /\ rows' = [id \in Ids |-> IF id = upd[s].id /\ rows[id] # None
                             THEN [rows[id] EXCEPT !.locked = upd[s].locked] ELSE rows[id]]
  /\ upd' = [upd EXCEPT ![s] = None]
  /\ UNCHANGED <<hiveVars, flagVars, threadQ, postQ, postRows, late, dumpVars, seqVars, restarts,
                 historyVars>>

-----------------------------------------------------------------------------
(* The goroutine of initDbLoop                                             *)

\* Mutant: the dump is a closure, which the sequencer has to be free for.
WakeInSequencer ==
  /\ phase = "wait" /\ spc = "select"
  /\ phase' = "threads"
  /\ UNCHANGED <<hiveVars, flagVars, threadQ, postQ, dbVars, tx, seqVars, upd, restarts, historyVars>>

\* <-dumpTicker.C
Wake ==
  /\ phase = "wait"
  /\ phase' = "threads"
  /\ UNCHANGED <<hiveVars, flagVars, threadQ, postQ, dbVars, tx, seqVars, upd, restarts, historyVars>>

\* Mutant: the row is what the thread was when it was put into the queue.
InsertAsQueued ==
  /\ phase = "threads" /\ threadQ # <<>>
  /\ tx' = Append(tx, [of |-> Head(threadQ), locked |-> FALSE])
  /\ threadQ' = Tail(threadQ)
  /\ UNCHANGED <<hiveVars, flagVars, postQ, dbVars, phase, seqVars, upd, restarts, historyVars>>

\* dbInsertThread reads the thread's flag now.
InsertThread ==
  /\ phase = "threads" /\ threadQ # <<>>
  /\ tx' = Append(tx, [of |-> Head(threadQ), locked |-> Head(threadQ) \in locked])
  /\ threadQ' = Tail(threadQ)
  /\ UNCHANGED <<hiveVars, flagVars, postQ, dbVars, phase, seqVars, upd, restarts, historyVars>>

\* Of the rows with one id, the first; none if there is one in the table.
CommitThreads ==
  /\ phase = "threads" /\ threadQ = <<>>
  /\ rows' = [id \in Ids |->
       LET new == {i \in DOMAIN tx : made[tx[i].of] = id}
       IN  IF rows[id] # None \/ new = {} THEN rows[id]
           ELSE tx[CHOOSE i \in new : \A j \in new : i <= j]]
  /\ tx' = <<>>
  /\ phase' = "media"
  /\ UNCHANGED <<hiveVars, flagVars, threadQ, postQ, postRows, late, seqVars, upd, restarts, historyVars>>

\* Media dumps the queue in steps; here is its commit.
DumpMedia ==
  /\ phase = "media"
  /\ late' = {}
  /\ phase' = "posts"
  /\ UNCHANGED <<hiveVars, flagVars, threadQ, postQ, rows, postRows, tx, seqVars, upd, restarts, historyVars>>

InsertPost ==
  /\ phase = "posts" /\ postQ # <<>>
  /\ LET m == Head(postQ)
     IN  tx' = Append(tx, [of |-> m, id |-> made[posted[m]]])
  /\ postQ' = Tail(postQ)
  /\ UNCHANGED <<hiveVars, flagVars, threadQ, dbVars, phase, seqVars, upd, restarts, historyVars>>

\* With foreign keys, a post whose thread or media has no row is refused.
CommitPosts ==
  /\ phase = "posts" /\ postQ = <<>>
  /\ \E fk \in ForeignKeys :
       postRows' = postRows \cup {r \in Elements(tx) : fk => rows[r.id] # None /\ r.of \notin late}
  /\ tx' = <<>>
  /\ phase' = "wait"
  /\ UNCHANGED <<hiveVars, flagVars, threadQ, postQ, rows, late, seqVars, upd, restarts, historyVars>>

-----------------------------------------------------------------------------
(* os.Exit(0) on a signal, or a crash, at any moment; then the next start. *)

\* What was in memory only.
Forget ==
  /\ threadQ' = <<>> /\ postQ' = <<>> /\ tx' = <<>>
  /\ cur' = 0 /\ gone' = None
  /\ upd' = [s \in Staff |-> None]
  /\ clashed' = {} /\ early' = {} /\ crossed' = {} /\ safe' = {}

Recovered == {id \in Ids : rows[id] # None}

\* recoverPosts looks the media of every post up before it adds the post.
CanStart == \A r \in postRows : r.of \notin late

\* recoverThreads builds the threads, recoverPosts adds each post to the
\* thread that has its id.  "post media hash not found during recovery" is a
\* panic, of this start and of every later one.
Recover ==
  /\ hive' = [id \in Ids |-> IF rows[id] = None THEN 0 ELSE rows[id].of]
  /\ locked' = {rows[id].of : id \in {i \in Recovered : rows[i].locked}}
  /\ posts' = [n \in Numbers |->
       {r.of : r \in {q \in postRows : rows[q.id] # None /\ rows[q.id].of = n}}]
  /\ late' = {r.of : r \in {q \in postRows : q.of \in late}}
  /\ phase' = IF CanStart THEN "wait" ELSE "down"
  /\ spc' = IF CanStart THEN "select" ELSE "down"

\* Mutant: the recovered threads are not counted.
RestartUncounted ==
  /\ restarts < MaxRestarts /\ phase # "down"
  /\ restarts' = restarts + 1
  /\ Forget /\ Recover
  /\ count' = NumQueues
  /\ UNCHANGED <<made, posted, changes, rows, postRows>>

\* newThread counts each of the recovered threads.
Restart ==
  /\ restarts < MaxRestarts /\ phase # "down"
  /\ restarts' = restarts + 1
  /\ Forget /\ Recover
  /\ count' = NumQueues + Cardinality(Recovered)
  /\ UNCHANGED <<made, posted, changes, rows, postRows>>

Sequencer == DeleteRow \/ QueueThread \/ QueuePost
Dumper    == Wake \/ InsertThread \/ CommitThreads \/ DumpMedia \/ InsertPost \/ CommitPosts

Next ==
  \/ NewThread \/ DeleteThread \/ Reply
  \/ Sequencer \/ Dumper
  \/ \E s \in Staff : LockThread(s) \/ UpdateLocked(s)
  \/ Restart

Spec == Init /\ [][Next]_vars

(* The sequencer finishes what it has begun, and the dump loop wakes again *)
(* and again.                                                              *)
FairSpec == Spec /\ WF_vars(Sequencer) /\ WF_vars(Dumper)

-----------------------------------------------------------------------------
(* The table of threads and the hive agree, whatever is still in the queue *)
(* or in a transaction: the row of a live thread is there or on its way,   *)
(* and a row without a thread is being deleted.  Excepted are threads that *)
(* were deleted before their row was written (hive.go 475 executes DELETE  *)
(* at once, db.go 318 inserts later) and ids that were given twice.        *)
ThreadsAgree ==
  \A id \in Ids \ (clashed \cup early) :
    /\ hive[id] # 0 => WrittenBy(hive[id]) \/ Unwritten(hive[id]) \/ cur = hive[id]
    /\ rows[id] # None => rows[id].of = hive[id] \/ (spc = "delete" /\ gone = id)

(* A post made when its thread and its media had rows already is never     *)
(* lost as long as the process runs: it is in the queue, in the            *)
(* transaction or in the table.  Any other may be: db.go 163-165 drops     *)
(* what an INSERT refuses, and a thread or media that was queued behind    *)
(* the dump of its table has no row when the posts are dumped (318-320).   *)
PostsAgree ==
  \A id \in Live \ (clashed \cup early) : \A m \in posts[hive[id]] \cap safe :
    \/ \E r \in postRows : r.of = m /\ r.id = id
    \/ m \in Elements(postQ)
    \/ phase = "posts" /\ \E i \in DOMAIN tx : tx[i].of = m

(* The table and the hive agree on which threads are locked, although the  *)
(* UPDATE runs after the closure and outside the sequencer (hive.go 331),  *)
(* unless two of them for one thread were on their way at once, or one for *)
(* a thread that had the id before.                                        *)
LocksAgree ==
  \A id \in Live \ (clashed \cup early \cup crossed) :
    WrittenBy(hive[id]) /\ (\A s \in Staff : ~UpdateOf(s, id))
      => rows[id].locked = (hive[id] \in locked)

(* The sequencer blocks on full queues and on the database, and always     *)
(* comes back to its select (hive.go 128, 220, 475), unless the process    *)
(* ends and cannot start again.                                            *)
SequencerReturns == spc # "select" ~> spc \in {"select", "down"}

(* "Global thread ID" (threads.go 83), "id TEXT PRIMARY KEY" (db.go 56): a *)
(* new thread takes the id of another that is there only if a lower id is  *)
(* free.  Ids go on after a restart from the number of rows (db.go 220,    *)
(* hive.go 244), and a thread deleted before it leaves them one too low.   *)
NotReplaced ==
  [][restarts' = restarts =>
       \A id \in Ids : hive[id] # 0 /\ hive'[id] \notin {0, hive[id]}
         => \E lower \in NumQueues .. id - 1 : hive[lower] = 0]_vars
=============================================================================
