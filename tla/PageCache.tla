------------------------------ MODULE PageCache ------------------------------
(***************************************************************************)
(* The page cache of the board (cache.go), the goroutine that owns the     *)
(* hive (sequencer.go) and the request handlers that use both.             *)
(*                                                                         *)
(* A handler that shows a thread reads the cached page under a read lock;  *)
(* when the page is stale it gives the lock up, asks the sequencer for a   *)
(* new one over threadRequest, takes the lock again and writes the answer  *)
(* through the pointer it had looked up.  A handler that changes a thread  *)
(* sends a closure over hiveReqListener; the sequencer runs it and, inside *)
(* it, waits for the write lock to install a new, stale bPage.             *)
(*                                                                         *)
(* The bPage objects are members of Objects, so that a handler can hold a  *)
(* pointer to one that is no longer in the map.  A page is abstracted to   *)
(* the version of the thread it was rendered from and the number of the    *)
(* spam-trap form it carries.  Content is a Go slice: its two halves (the  *)
(* bytes and the length) are written one after the other while other       *)
(* readers may look, because the handlers write it under a READ lock.      *)
(***************************************************************************)
EXTENDS Naturals, Sequences, FiniteSets

CONSTANTS
  Threads,         \* identifiers of threads
  RecoveredPage,   \* the bPage of each thread the database held at the start
  HiddenThreads,   \* threads with t.Hidden: the report queues
  Clients,         \* the goroutines serving requests
  Staff,           \* those whose role may see hidden threads and post in locked ones
  Objects,         \* the heap of bPage objects
  None,            \* a nil pointer, an absent value
  Self,            \* the sequencer as the sender of a command
  PostsPerThread,  \* settings.Limit.PostsPerThread
  ChannelCap,      \* capacity of the sequencer's channels (100 in the code)
  MaxRequests      \* bound: requests the users make in one behaviour

Recovered == DOMAIN RecoveredPage

ASSUME ConstantsAssumption ==
  /\ Recovered \subseteq Threads
  /\ RecoveredPage \in [Recovered -> Objects]
  /\ \A t, u \in Recovered : RecoveredPage[t] = RecoveredPage[u] => t = u
  /\ HiddenThreads \subseteq Threads
  /\ Staff \subseteq Clients
  /\ None \notin Clients \cup Objects \cup Threads
  /\ Self \notin Clients \cup {None}
  /\ PostsPerThread \in Nat \ {0}
  /\ ChannelCap \in Nat \ {0}
  /\ MaxRequests \in Nat

VARIABLES
  thread,    \* hive.Threads, with what the page of each thread depends on
  page,      \* byteCache.pages
  obj,       \* the contents of the bPage objects
  holders,   \* handlers that hold byteCache.mtx for reading
  blocked,   \* handlers waiting in RLock because a writer is waiting
  reqs,      \* threadRequest: the handlers whose request is in the channel
  cmds,      \* hiveReqListener: the senders whose closure is in the channel
  spc,       \* where the sequencer goroutine is
  cur,       \* the sender of the closure the sequencer is running
  on,        \* the threads that closure has changed
  todo,      \* the threads whose page that closure has still to replace
  notice,    \* the closure has added the "Reply limit reached" post
  pc,        \* where each handler is
  tid,       \* the thread each handler is asked for
  bp,        \* the object each handler looked up
  got,       \* the page each handler received from the sequencer
  half,      \* the halves of Content each handler has still to write
  cmd,       \* the closure each handler is sending
  fields,    \* FieldNames as read by normalizePostFields
  seen,      \* the page each handler's user is looking at
  floor,     \* history: version acknowledged when the current Get began
  acked,     \* history: last version of each thread a handler was told of
  issued     \* requests made so far

hiveVars   == <<thread, acked>>
cacheVars  == <<page, obj>>
lockVars   == <<holders, blocked>>
seqVars    == <<spc, cur, on, todo, notice>>
getVars    == <<tid, bp, got, half, floor, seen>>
postVars   == <<cmd, fields, issued>>
vars == <<hiveVars, cacheVars, lockVars, reqs, cmds, seqVars, pc, getVars, postVars>>

Page     == [ver : Nat, form : Nat]
Blank    == [ver |-> 0, form |-> 0]
Halves   == {"data", "len"}
BPage    == [data : Page, len : Page, hidden : BOOLEAN, fresh : BOOLEAN]
Empty(h) == [data |-> Blank, len |-> Blank, hidden |-> h, fresh |-> FALSE]
Thread   == [status : {"unborn", "live", "deleted"}, ver : Nat, posts : Nat,
             locked : BOOLEAN, form : Nat]
Served   == [thread : Threads, data : Page, len : Page, floor : Nat]
Kinds    == {"fields", "post", "create", "lock", "unlock", "hide", "delete"}
Command  == [kind : Kinds, on : SUBSET Threads]
GetSteps == {"lookup", "request", "reply", "relock", "store", "serve"}
CmdSteps == {"send", "await", "answered"}

HiveType ==
  /\ thread \in [Threads -> Thread]
  /\ acked \in [Threads -> Nat]

CacheType ==
  /\ page \in [Threads -> Objects \cup {None}]
  /\ obj \in [Objects -> BPage]
  /\ holders \subseteq Clients /\ blocked \subseteq Clients

SeqType ==
  /\ reqs \in Seq(Clients)
  /\ cmds \in Seq(Clients \cup {Self})
  /\ spc \in {"select", "run", "stale", "lock", "full", "nest", "self", "return"}
  /\ cur \in Clients \cup {Self, None}
  /\ on \subseteq Threads /\ todo \subseteq Threads
  /\ notice \in BOOLEAN

GetType ==
  /\ pc \in [Clients -> {"idle"} \cup GetSteps \cup CmdSteps]
  /\ tid \in [Clients -> Threads \cup {None}]
  /\ bp \in [Clients -> Objects \cup {None}]
  /\ got \in [Clients -> Page]
  /\ half \in [Clients -> SUBSET Halves]
  /\ floor \in [Clients -> Nat]
  /\ seen \in [Clients -> Served \cup {None}]

PostType ==
  /\ cmd \in [Clients -> Command \cup {None}]
  /\ fields \in [Clients -> Nat]
  /\ issued \in Nat

TypeOK == HiveType /\ CacheType /\ SeqType /\ GetType /\ PostType

(***************************************************************************)
(* After recoverFromDatabase every recovered thread has one stale page:    *)
(* AddPost replaced it for each recovered post.  That of a report queue    *)
(* was installed before the queue was hidden (hive.go 52-65).              *)
(***************************************************************************)
Init ==
  /\ thread = [t \in Threads |->
                [status |-> IF t \in Recovered THEN "live" ELSE "unborn",
                 ver |-> IF t \in Recovered THEN 1 ELSE 0,
                 posts |-> IF t \in Recovered THEN 1 ELSE 0,
                 locked |-> FALSE, form |-> 0]]
  /\ page = [t \in Threads |-> IF t \in Recovered THEN RecoveredPage[t] ELSE None]
  /\ obj = [o \in Objects |-> Empty(FALSE)]
  /\ holders = {} /\ blocked = {}
  /\ reqs = <<>> /\ cmds = <<>>
  /\ spc = "select" /\ cur = None /\ on = {} /\ todo = {} /\ notice = FALSE
  /\ pc = [c \in Clients |-> "idle"]
  /\ tid = [c \in Clients |-> None]
  /\ bp = [c \in Clients |-> None]
  /\ got = [c \in Clients |-> Blank]
  /\ half = [c \in Clients |-> {}]
  /\ cmd = [c \in Clients |-> None]
  /\ fields = [c \in Clients |-> 0]
  /\ seen = [c \in Clients |-> None]
  /\ floor = [c \in Clients |-> 0]
  /\ acked = [t \in Threads |-> IF t \in Recovered THEN 1 ELSE 0]
  /\ issued = 0

-----------------------------------------------------------------------------
(* sync.RWMutex.  A writer that waits keeps new readers out; when it is    *)
(* done, every reader that waited gets the lock.                           *)

RLock(c) ==
  IF spc = "lock"
  THEN blocked' = blocked \cup {c} /\ UNCHANGED holders
  ELSE holders' = holders \cup {c} /\ UNCHANGED blocked

RUnlock(c) == holders' = holders \ {c} /\ UNCHANGED blocked

Unlock == holders' = blocked /\ blocked' = {}

-----------------------------------------------------------------------------
(* byteCache.Get, called by showThread                                     *)

Get(c, t) ==
  /\ pc[c] = "idle" /\ issued < MaxRequests
  /\ issued' = issued + 1
  /\ RLock(c)
  /\ pc' = [pc EXCEPT ![c] = "lookup"]
  /\ tid' = [tid EXCEPT ![c] = t]
  /\ floor' = [floor EXCEPT ![c] = acked[t]]
  /\ seen' = [seen EXCEPT ![c] = None]
  /\ UNCHANGED <<hiveVars, cacheVars, reqs, cmds, seqVars, bp, got, half, cmd, fields>>

MayNotSee(c) == page[tid[c]] # None /\ obj[page[tid[c]]].hidden /\ c \notin Staff

LookupMiss(c) ==
  /\ pc[c] = "lookup" /\ c \in holders
  /\ page[tid[c]] = None \/ MayNotSee(c)
  /\ RUnlock(c)
  /\ pc' = [pc EXCEPT ![c] = "idle"]
  /\ tid' = [tid EXCEPT ![c] = None]
  /\ floor' = [floor EXCEPT ![c] = 0]
  /\ UNCHANGED <<hiveVars, cacheVars, reqs, cmds, seqVars, bp, got, half, seen, postVars>>

LookupFresh(c) ==
  /\ pc[c] = "lookup" /\ c \in holders
  /\ page[tid[c]] # None /\ ~MayNotSee(c)
  /\ obj[page[tid[c]]].fresh
  /\ bp' = [bp EXCEPT ![c] = page[tid[c]]]
  /\ pc' = [pc EXCEPT ![c] = "serve"]
  /\ UNCHANGED <<hiveVars, cacheVars, lockVars, reqs, cmds, seqVars,
                 tid, got, half, floor, seen, postVars>>

\* Mutant: the read lock is kept while the handler waits for the sequencer.
LookupStaleLocked(c) ==
  /\ pc[c] = "lookup" /\ c \in holders
  /\ page[tid[c]] # None /\ ~MayNotSee(c)
  /\ ~obj[page[tid[c]]].fresh
  /\ bp' = [bp EXCEPT ![c] = page[tid[c]]]
  /\ pc' = [pc EXCEPT ![c] = "request"]
  /\ UNCHANGED <<hiveVars, cacheVars, lockVars, reqs, cmds, seqVars,
                 tid, got, half, floor, seen, postVars>>

\* The lock is released before the request is sent.
LookupStale(c) ==
  /\ pc[c] = "lookup" /\ c \in holders
  /\ page[tid[c]] # None /\ ~MayNotSee(c)
  /\ ~obj[page[tid[c]]].fresh
  /\ bp' = [bp EXCEPT ![c] = page[tid[c]]]
  /\ RUnlock(c)
  /\ pc' = [pc EXCEPT ![c] = "request"]
  /\ UNCHANGED <<hiveVars, cacheVars, reqs, cmds, seqVars,
                 tid, got, half, floor, seen, postVars>>

SendPageRequest(c) ==
  /\ pc[c] = "request"
  /\ Len(reqs) < ChannelCap
  /\ reqs' = Append(reqs, c)
  /\ pc' = [pc EXCEPT ![c] = "reply"]
  /\ UNCHANGED <<hiveVars, cacheVars, lockVars, cmds, seqVars, getVars, postVars>>

Relock(c) ==
  /\ pc[c] = "relock"
  /\ RLock(c)
  /\ half' = [half EXCEPT ![c] = Halves]
  /\ pc' = [pc EXCEPT ![c] = "store"]
  /\ UNCHANGED <<hiveVars, cacheVars, reqs, cmds, seqVars,
                 tid, bp, got, floor, seen, postVars>>

Write(b, h, p) ==
  IF h = "data" THEN [b EXCEPT !.data = p] ELSE [b EXCEPT !.len = p]

StoreHalf(c, h) ==
  /\ pc[c] = "store" /\ c \in holders
  /\ h \in half[c]
  /\ obj' = [obj EXCEPT ![bp[c]] = Write(@, h, got[c])]
  /\ half' = [half EXCEPT ![c] = @ \ {h}]
  /\ UNCHANGED <<hiveVars, page, lockVars, reqs, cmds, seqVars, pc,
                 tid, bp, got, floor, seen, postVars>>

MarkFresh(c) ==
  /\ pc[c] = "store" /\ c \in holders
  /\ half[c] = {}
  /\ obj' = [obj EXCEPT ![bp[c]].fresh = TRUE]
  /\ pc' = [pc EXCEPT ![c] = "serve"]
  /\ UNCHANGED <<hiveVars, page, lockVars, reqs, cmds, seqVars, getVars, postVars>>

Serve(c) ==
  /\ pc[c] = "serve" /\ c \in holders
  /\ seen' = [seen EXCEPT ![c] = [thread |-> tid[c], floor |-> floor[c],
                                  data |-> obj[bp[c]].data, len |-> obj[bp[c]].len]]
  /\ bp' = [bp EXCEPT ![c] = None]
  /\ got' = [got EXCEPT ![c] = Blank]
  /\ tid' = [tid EXCEPT ![c] = None]
  /\ floor' = [floor EXCEPT ![c] = 0]
  /\ RUnlock(c)
  /\ pc' = [pc EXCEPT ![c] = "idle"]
  /\ UNCHANGED <<hiveVars, cacheVars, reqs, cmds, seqVars, half, postVars>>

-----------------------------------------------------------------------------
(* Handlers that use hiveReq: send a closure, then wait for done.          *)

Issue(c, k, ts) ==
  /\ pc[c] = "idle" /\ issued < MaxRequests
  /\ issued' = issued + 1
  /\ cmd' = [cmd EXCEPT ![c] = [kind |-> k, on |-> ts]]
  /\ pc' = [pc EXCEPT ![c] = "send"]
  /\ UNCHANGED <<hiveVars, cacheVars, lockVars, reqs, cmds, seqVars, getVars,
                 fields>>

\* postComment: the user submits the form of the page he is looking at;
\* normalizePostFields first fetches the names the form should have.
SubmitComment(c) ==
  /\ seen[c] # None /\ seen[c].data # Blank
  /\ Issue(c, "fields", {seen[c].thread})

\* postThread, below the limit on threads; lockThread; postModPosts and
\* ReportPost, which change the pages of the post's thread and of the report
\* queues; DeleteThread.
StaffOrOP(c) ==
  \/ \E t \in Threads, k \in {"lock", "unlock", "delete"} : Issue(c, k, {t})
  \/ Issue(c, "create", {})
  \/ \E ts \in (SUBSET Threads) \ {{}} : Issue(c, "hide", ts)

Send(c) ==
  /\ pc[c] = "send"
  /\ Len(cmds) < ChannelCap
  /\ cmds' = Append(cmds, c)
  /\ pc' = [pc EXCEPT ![c] = "await"]
  /\ UNCHANGED <<hiveVars, cacheVars, lockVars, reqs, seqVars, getVars, postVars>>

\* The rest of normalizePostFields: the user's form must be the one the
\* thread has; if it is, recordPost sends the post.
CheckFields(c) ==
  /\ pc[c] = "answered" /\ cmd[c].kind = "fields"
  /\ IF fields[c] = seen[c].data.form
     THEN /\ pc' = [pc EXCEPT ![c] = "send"]
          /\ cmd' = [cmd EXCEPT ![c].kind = "post"]
     ELSE /\ pc' = [pc EXCEPT ![c] = "idle"]
          /\ cmd' = [cmd EXCEPT ![c] = None]
  /\ fields' = [fields EXCEPT ![c] = 0]
  /\ UNCHANGED <<hiveVars, cacheVars, lockVars, reqs, cmds, seqVars, getVars, issued>>

Finish(c) ==
  /\ pc[c] = "answered" /\ cmd[c].kind # "fields"
  /\ pc' = [pc EXCEPT ![c] = "idle"]
  /\ cmd' = [cmd EXCEPT ![c] = None]
  /\ UNCHANGED <<hiveVars, cacheVars, lockVars, reqs, cmds, seqVars, getVars,
                 fields, issued>>

-----------------------------------------------------------------------------
(* The sequencer goroutine                                                 *)

\* Mutant: a request for a thread that is gone is dropped.
AnswerLiveRequest ==
  /\ spc = "select" /\ reqs # <<>>
  /\ LET c == Head(reqs)
         t == tid[c]
     IN IF thread[t].status = "live"
        THEN /\ thread' = [thread EXCEPT ![t].form = @ + 1]
             /\ got' = [got EXCEPT ![c] = [ver |-> thread[t].ver, form |-> thread[t].form + 1]]
             /\ pc' = [pc EXCEPT ![c] = "relock"]
        ELSE UNCHANGED <<thread, got, pc>>
  /\ reqs' = Tail(reqs)
  /\ UNCHANGED <<acked, cacheVars, lockVars, cmds, seqVars, tid, bp, half, floor, seen, postVars>>

\* case threadReq := <-threadRequest.  CreateThreadPage gives the thread a
\* new form; a thread that is gone is answered with no bytes.
AnswerPageRequest ==
  /\ spc = "select" /\ reqs # <<>>
  /\ LET c == Head(reqs)
         t == tid[c]
     IN /\ IF thread[t].status = "live"
           THEN /\ thread' = [thread EXCEPT ![t].form = @ + 1]
                /\ got' = [got EXCEPT ![c] = [ver |-> thread[t].ver, form |-> thread[t].form + 1]]
           ELSE got' = [got EXCEPT ![c] = Blank] /\ UNCHANGED thread
        /\ pc' = [pc EXCEPT ![c] = "relock"]
  /\ reqs' = Tail(reqs)
  /\ UNCHANGED <<acked, cacheVars, lockVars, cmds, seqVars, tid, bp, half, floor, seen, postVars>>

\* case cmd := <-hiveReqListener
TakeCommand ==
  /\ spc = "select" /\ cmds # <<>>
  /\ spc' = "run"
  /\ cur' = Head(cmds)
  /\ cmds' = Tail(cmds)
  /\ UNCHANGED <<hiveVars, cacheVars, lockVars, reqs, on, todo, notice, pc, getVars, postVars>>

Running(k) == spc = "run" /\ cur \in Clients /\ cmd[cur].kind = k
Live(ts)   == {t \in ts : thread[t].status = "live"}

\* The hive part of a closure that changes the threads ts: their pages have
\* to be replaced next, or the closure returns if there are none.
Change(ts, new(_)) ==
  /\ thread' = [t \in Threads |-> IF t \in ts THEN new(thread[t]) ELSE thread[t]]
  /\ on' = ts /\ todo' = ts
  /\ spc' = IF ts = {} THEN "return" ELSE "stale"
  /\ UNCHANGED <<acked, cacheVars, lockVars, reqs, cmds, cur, notice, pc, getVars, postVars>>

\* What a change to a thread does to the version of its page.
Edited(r)      == [r EXCEPT !.ver = @ + 1]
WithPost(r)    == Edited([r EXCEPT !.posts = @ + 1])
WithLock(r, b) == Edited([r EXCEPT !.locked = b])

\* hive.AddPost of a reply, up to SetStale.  constrainPost refuses a locked
\* thread, and may refuse the comment.
AddPost ==
  /\ Running("post")
  /\ \/ Change({}, WithPost)
     \/ Change({t \in Live(cmd[cur].on) : thread[t].locked => cur \in Staff}, WithPost)

\* What pruneThreads deletes to make room for a new thread: nothing, or a
\* thread, which one that is Hive says.
Prunable == {{}} \cup {{t} : t \in Live(Threads)}

\* What becomes of the new thread, and of the one pruned for it.
OpenedOrPruned(r) ==
  IF r.status = "unborn" THEN WithPost([r EXCEPT !.status = "live"])
  ELSE Edited([r EXCEPT !.status = "deleted"])

\* hive.AddPost of an opening post: refused by newThreadFromPost, or given a
\* thread with a new id.
CreateThread ==
  /\ Running("create")
  /\ \/ Change({}, WithPost)
     \/ \E t \in Threads, pruned \in Prunable :
          /\ thread[t].status = "unborn"
          /\ Change({t} \cup pruned, OpenedOrPruned)

\* When constrainPost refuses the comment of an opening post, the thread made
\* for it stays, without a post and without a page.
CreateEmptyThread ==
  /\ Running("create")
  /\ \E t \in Threads, pruned \in Prunable :
       /\ thread[t].status = "unborn"
       /\ thread' = [u \in Threads |-> IF u = t THEN [thread[u] EXCEPT !.status = "live"]
                                       ELSE IF u \in pruned THEN OpenedOrPruned(thread[u])
                                       ELSE thread[u]]
       /\ on' = pruned /\ todo' = pruned
       /\ spc' = IF pruned = {} THEN "return" ELSE "stale"
  /\ UNCHANGED <<acked, cacheVars, lockVars, reqs, cmds, cur, notice, pc, getVars, postVars>>

\* Mutant: the thread is locked and its page left as it was.
LockThreadOnly ==
  /\ Running("lock") \/ Running("unlock")
  /\ thread' = [t \in Threads |-> IF t \in Live(cmd[cur].on)
                  THEN WithLock(thread[t], cmd[cur].kind = "lock")
                  ELSE thread[t]]
  /\ on' = Live(cmd[cur].on)
  /\ spc' = "return"
  /\ UNCHANGED <<acked, cacheVars, lockVars, reqs, cmds, cur, todo, notice, pc, getVars, postVars>>

LockThread ==
  /\ Running("lock") \/ Running("unlock")
  /\ Change(Live(cmd[cur].on),
            LAMBDA r : WithLock(r, cmd[cur].kind = "lock"))

HidePost ==
  /\ Running("hide")
  /\ Change(Live(cmd[cur].on), Edited)

DeleteThread ==
  /\ Running("delete")
  /\ Change(Live(cmd[cur].on), LAMBDA r : Edited([r EXCEPT !.status = "deleted"]))

ReadFields ==
  /\ Running("fields")
  /\ fields' = [fields EXCEPT ![cur] =
                  IF Live(cmd[cur].on) = {} THEN 0
                  ELSE thread[CHOOSE t \in cmd[cur].on : TRUE].form]
  /\ spc' = "return"
  /\ UNCHANGED <<hiveVars, cacheVars, lockVars, reqs, cmds, cur, on, todo, notice, pc, getVars,
                 cmd, issued>>

\* mtx.Lock in SetStale and Purge: from here on new readers have to wait.
WantLock ==
  /\ spc = "stale"
  /\ spc' = "lock"
  /\ UNCHANGED <<hiveVars, cacheVars, lockVars, reqs, cmds, cur, on, todo, notice, pc, getVars, postVars>>

\* Objects nothing points to: &bPage{} returns one of them, no matter which.
Unused == {o \in Objects : (\A t \in Threads : page[t] # o) /\ (\A c \in Clients : bp[c] # o)}

New == CHOOSE o \in Unused : TRUE

\* What is installed for t: it says itself whether the thread is hidden.
Stale(t) == Empty(t \in HiddenThreads)

\* Mutant: the object in the map is marked stale instead of being replaced.
SetStaleInPlace(t) ==
  /\ page' = [page EXCEPT ![t] = IF @ = None THEN New ELSE @]
  /\ obj' = [obj EXCEPT ![page'[t]] = Stale(t)]

SetStale(t) ==
  /\ Unused # {}
  /\ page' = [page EXCEPT ![t] = New]
  /\ obj' = [obj EXCEPT ![New] = Stale(t)]

\* Mutant: the map loses the key, and a lookup does not test for it.
PurgeKey(t) == page' = [u \in Threads \ {t} |-> page[u]] /\ UNCHANGED obj

Purge(t) == page' = [page EXCEPT ![t] = None] /\ UNCHANGED obj

\* The thread has reached its limit, and AddPost has not said so yet.
JustFilled ==
  /\ cmd[cur].kind \in {"post", "create"}
  /\ \E t \in Live(on) : thread[t].posts >= PostsPerThread

\* Where the closure goes on once a page has been replaced.
AfterPage(rest) ==
  IF rest # {} THEN "stale"
  ELSE IF notice THEN "nest"
  ELSE IF JustFilled THEN "full" ELSE "return"

ReplacePage ==
  /\ spc = "lock" /\ holders = {}
  /\ \E t \in todo :
       /\ IF thread[t].status = "live" THEN SetStale(t) ELSE Purge(t)
       /\ todo' = todo \ {t}
  /\ Unlock
  /\ spc' = AfterPage(todo')
  /\ UNCHANGED <<hiveVars, reqs, cmds, cur, on, notice, pc, getVars, postVars>>

\* The thread is full: AddPost appends a notice ...
AddLockPost ==
  /\ spc = "full"
  /\ thread' = [t \in Threads |-> IF t \in Live(on) THEN WithPost(thread[t]) ELSE thread[t]]
  /\ on' = Live(on) /\ todo' = Live(on)
  /\ notice' = TRUE
  /\ spc' = "stale"
  /\ UNCHANGED <<acked, cacheVars, lockVars, reqs, cmds, cur, pc, getVars, postVars>>

\* ... and calls lockThread, whose hiveReq sends to this same goroutine and
\* then waits for it: no step leaves "self".
NestedHiveReq ==
  /\ spc = "nest"
  /\ Len(cmds) < ChannelCap
  /\ cmds' = Append(cmds, Self)
  /\ spc' = "self"
  /\ UNCHANGED <<hiveVars, cacheVars, lockVars, reqs, cur, on, todo, notice, pc, getVars, postVars>>

\* done <- true
Return ==
  /\ spc = "return"
  /\ pc' = [pc EXCEPT ![cur] = "answered"]
  /\ acked' = [t \in Threads |-> IF t \in on THEN thread[t].ver ELSE acked[t]]
  /\ spc' = "select" /\ cur' = None /\ on' = {} /\ notice' = FALSE
  /\ UNCHANGED <<thread, cacheVars, lockVars, reqs, cmds, todo, getVars, postVars>>

-----------------------------------------------------------------------------
Begin(c) == SubmitComment(c) \/ StaffOrOP(c)

GetStep(c) ==
  \/ LookupMiss(c) \/ LookupFresh(c) \/ LookupStale(c) \/ SendPageRequest(c)
  \/ Relock(c) \/ (\E h \in Halves : StoreHalf(c, h)) \/ MarkFresh(c) \/ Serve(c)

CmdStep(c) == Send(c) \/ CheckFields(c) \/ Finish(c)

Body == AddPost \/ CreateThread \/ CreateEmptyThread \/ LockThread \/ HidePost \/ DeleteThread \/ ReadFields

Sequencer ==
  \/ AnswerPageRequest \/ TakeCommand \/ Body \/ WantLock \/ ReplacePage
  \/ AddLockPost \/ NestedHiveReq \/ Return

\* Nothing is under way and the bound lets nobody begin anything.
Quiet ==
  /\ issued = MaxRequests /\ spc = "select"
  /\ \A c \in Clients : pc[c] = "idle"
  /\ UNCHANGED vars

Next ==
  \/ \E c \in Clients : (\E t \in Threads : Get(c, t)) \/ Begin(c) \/ GetStep(c) \/ CmdStep(c)
  \/ Sequencer
  \/ Quiet

Spec == Init /\ [][Next]_vars

(* Goroutines are scheduled, so a step that stays possible is taken.  The   *)
(* runtime's select picks among the ready cases at random, so a case that   *)
(* is ready again and again is picked in the end.  Nobody is forced to      *)
(* begin a request.  Serve is fair as far as the socket takes the bytes.    *)
Fairness ==
  /\ \A c \in Clients : WF_vars(GetStep(c)) /\ WF_vars(CmdStep(c))
  /\ WF_vars(Sequencer)
  /\ SF_vars(AnswerPageRequest) /\ SF_vars(TakeCommand)

FairSpec == Spec /\ Fairness

-----------------------------------------------------------------------------
(* A command that has changed t but not yet replaced its page.             *)
Changing(t) == t \in todo

(* A page in the map that is marked fresh was rendered from the thread as  *)
(* it is now, both halves of it, and the map has a page for exactly the    *)
(* live threads, except for the threads a running command has changed and  *)
(* not yet come to: whatever late answers handlers still write (cache.go   *)
(* 60-67) against the new bPage that SetStale installs (32).               *)
CacheCoherent ==
  \A t \in Threads : ~Changing(t) =>
     /\ page[t] # None => thread[t].status = "live"
     /\ thread[t].status = "live" /\ thread[t].posts > 0 => page[t] # None
     /\ page[t] # None /\ obj[page[t]].fresh =>
          /\ obj[page[t]].data.ver = thread[t].ver
          /\ obj[page[t]].len.ver = thread[t].ver

(* No handler serves a page older than what another handler had already    *)
(* been told was done when the request came in: a user who posts and then  *)
(* reloads sees the post.  No bytes at all are served only when the thread *)
(* was deleted after the request came in (sequencer.go 61-63).             *)
NotOlder(s, p) ==
  \/ p.ver >= s.floor
  \/ p = Blank /\ thread[s.thread].status = "deleted" /\ s.floor < thread[s.thread].ver

ServedCurrent ==
  \A c \in Clients : seen[c] # None =>
     NotOlder(seen[c], seen[c].data) /\ NotOlder(seen[c], seen[c].len)

(* Every request for a page is answered.                                   *)
GetsFinish == \A c \in Clients : pc[c] \in GetSteps ~> pc[c] = "idle"

(* hiveReq: "submit hiveCmd and block until complete" (sequencer.go 33).   *)
CommandsFinish == \A c \in Clients : pc[c] \in CmdSteps ~> pc[c] = "idle"

(* A user who fills in the form of the very page the cache is serving at    *)
(* that moment is not taken for a spammer: antispam.go 3-12 bans the user   *)
(* when "input is found in any of the dummy fields".                        *)
HonestUserNotBanned ==
  \A c \in Clients : pc[c] = "answered" /\ cmd[c].kind = "fields" =>
     LET t == seen[c].thread
     IN  page[t] # None /\ obj[page[t]].fresh /\ obj[page[t]].data = seen[c].data
           => fields[c] = seen[c].data.form
=============================================================================
