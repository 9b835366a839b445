# Tolxanka in TLA+

Tolxanka is an imageboard server: one Go process, an SQLite database behind it,
and HTTP and websocket handlers in front.  This directory holds TLA+ models of
its core logic, the TLC configurations that check them on small boards, and
proofs, checked by TLAPS, that the most important properties hold for every
size of board.  All line numbers refer to the files in `src/`.

## 1. Inventory

### How the parts work together

A single goroutine, the *sequencer* (`sequencer.go`), owns the *hive*: the
threads, their posts and the index of tags.  Everybody else reaches the hive in
one of three ways:

* `hiveReq(f)` sends a closure over `hiveReqListener`, the sequencer runs it,
  and the caller waits on a `done` channel;
* `sendPageRequest` sends a `threadRequest`, and the sequencer answers with the
  rendered page;
* `regListener` hands over a websocket to be told of new posts.

Handlers run one goroutine per request.  Closures that change a thread call
`pageCache.SetStale` or `Purge`, which take the write lock of the cache; the
handlers that show a thread hold its read lock.  Closures also send rows to
`persistPost`, `persistThread` and `persistBan` (buffered channels); one
goroutine (`initDbLoop`) drains them into SQLite every `DumpInterval`.
Users, their bans and their thresholds are in `userMap`, under a mutex of its
own; media are in `mediaLibrary`, under another.

### Components

| component | state | operations | what is hard | what makes it correct |
|---|---|---|---|---|
| page cache (`cache.go`) | `pages`: a `*bPage` (`Content`, `Fresh`) per thread; a read-write mutex | `Get`, `SetStale`, `Purge` | the lock is given up in the middle of `Get`; `Content` and `Fresh` are written under a read lock; a write through a pointer that may have left the map | a page marked fresh shows the thread as it is; nobody is served less than what was acknowledged; every `Get` ends |
| sequencer (`sequencer.go`) | three channels of capacity 100 | `hiveReq`, page requests, registration | the closure waits for the cache's lock while handlers wait for the sequencer; a closure that itself calls `hiveReq` | every closure is completed |
| hive and tags (`hive.go`, `tags.go`) | `Threads`, `ThreadCount`, `tags`, per tag a normal and a sticky list; per thread `Tags` and `StickyTags` | new thread, reply, bump, prune, delete, sticky, lock, hide, delete media | the same facts kept twice; a slice changed while it is ranged over; queues that must survive pruning | lists and labels agree; the limit on threads is kept; no label is lost |
| thresholds (`users.go`) | per user and limit a slice of times | `Record` through `InThreshold` | the slice keeps no order of time | an exact sliding window |
| bans, challenges (`users.go`, `admin.go`) | `user.Ban`, `user.Challenge`, rows of `bans` | `IssueBan`, `IsUserBanned`, `IsPageViewAllowed`, `readBans` | the ban is read, the view counted and a ban issued apart; row and memory are written apart; days overflow a duration | what is read back at a restart is the ban in force; one ban per flood of requests |
| spam trap (`antispam.go`) | `FieldNames` of each thread | `normalizePostFields`, new names on each rendering | the names belong to the last rendering, not to the page that is served | a user who fills in the displayed field is not banned |
| persistence (`db.go`) | three queues, the tables, foreign keys | `dumpPosts`, `dumpThreads`, `dumpBans`, direct `UPDATE`/`DELETE`, recovery | rows in the queues at a crash; `INSERT` after `DELETE`; a post before its thread; ids given again after a restart | what was on disk comes back; nothing deleted does |
| media library (`library.go`, `av.go`) | a map by hash, a list in order of use, `CacheSize`, files, an ffmpeg worker | `InsertImage`, `Get`, `clearSpace`, `Block` | accounting of what is in memory; two objects for one hash; three critical sections per request | the cache keeps its limit; what is served is whole; what is blocked is not served; a post's media has a row |
| listeners (`board.go`, `threads.go`) | the websockets of each thread | `regListener`, `broadcastPost`, `threadUpdater` | sockets that close or stall in the middle of a broadcast, threads that go | every reader gets every post once, in order |
| reports (`hive.go`, `admin.go`) | the posts of the three report queues, report counts | report, dismiss, delete by staff | a moderation is many closures; ids on a form outlive a restart | a report reaches its queues once; a moderation does all it was asked |
| tag queries (`tags.go`, `board.go`) | none | filter and merge generators, paging | merging relies on the order of the lists | the catalogue shows what the query asks for |
| staff sessions (`admin.go`) | cookies | OpenPGP challenge | library calls | handlers see the role only |
| configuration, templates, start, browser scripts | – | – | – | constants and presentation |

`PROJECT.json` lists under `hazards` every place where this code can go wrong
in a way a test would hardly reach, with the properties that watch it or the
reason why none does.

## 2. Plan

In order of importance; (done) is in this directory.

1. (done) `PageCache` with the sequencer and the handlers, and its proofs
   (`PageCacheProofs`).
2. (done) `SlidingWindow`, `Threshold` and the refinement proof.
3. (done) `Hive`: the index of tags, pruning, sticking, and its proofs (`HiveProofs`),
   those of `StickyThread` with the slices it changes while it ranges over them included.
4. (done) `Persistence`: queues, dump loop, direct statements, crash, recovery,
   and its proofs.
5. (done) `Catalogue`: tag queries as operators over the states of `Hive`, checked
   against what a query asks for.
6. (done) `Bans` on top of `SlidingWindow`: bans in memory, in the queue and in
   the table, the traffic ban of `IsPageViewAllowed`.
7. (done) `Media`: uploads, cache, workers, `Block`, recovery, and its proofs.
8. (done) `Listeners` and `Feed`, the promise it implements, and its proofs.
9. (done) `Reports`: reports, moderation forms, restarts; proofs of `Reports` and
   of the agreement of `Bans`.
10. (done) Proofs of `DosBansBounded` and of `CacheAccounted`.
11. (done) Proofs about `Catalogue`, in `HiveProofs`.
12. An abstract *page service* ("a reader gets some version between the last
   one acknowledged at his call and the current one") which `PageCache` implements.

Runs are kept to a dozen.  Bounds: two or three of each actor, four requests,
and counters that stop at `MaxThreads`, `MaxTime`, `MaxRequests`.

## 3. The modules

### PageCache (with the sequencer and the handlers)

| in the model | in the code |
|---|---|
| `thread[t].ver` | how often the page of a thread has changed; a page is abstracted to the version it shows and the number of the form (`FieldNames`) it carries |
| `page`, `obj` | `byteCache.pages` and the `bPage` objects, kept apart so that a handler can hold a pointer that has left the map |
| `data`, `len`, `hidden`, `fresh` of an object | `bPage.Content`, a slice whose pointer and length are stored one after the other under a *read* lock (a data race), `Hidden` and `Fresh`; the first page of a report queue says that it is not hidden, since the queue is hidden after it was made (`hive.go:52-65`) |
| `holders`, `blocked`, `spc = "lock"` | `sync.RWMutex`: readers, readers kept out by a waiting writer, the waiting writer |
| `reqs`, `cmds` | `threadRequest`, `hiveReqListener` |
| `Get` … `Serve` | the steps of `byteCache.Get`, cut where the lock is given up, taken or waited for and where another goroutine can see a half-written slice |
| `Issue`, `Send`, `CheckFields`, `Finish` | a handler that calls `hiveReq`; a comment is two calls, with the form read in the first and the post added in the second |
| `TakeCommand`, `AddPost`, …, `ReplacePage`, `Return` | a closure in the sequencer: the change to the hive, then for each affected page `SetStale` or `Purge`, which wait for the write lock, then `done <- true` |
| `AddLockPost`, `NestedHiveReq` | the end of `hive.AddPost` when the thread is full: another post, then `lockThread` and with it `hiveReq`, from inside the sequencer |

`acked` and `floor` are history: the version acknowledged to somebody when a
`Get` began.  `Objects` is the heap; it has one object more than threads and
handlers together, so `Unused` is never empty in the runs.

* `CacheCoherent`: outside the page the current closure is replacing, a fresh
  page in the map shows both halves of the thread as it is.  The danger is the
  write through an old pointer; what makes it harmless is that `SetStale`
  installs a new object instead of marking the old one, and the mutant that
  marks it in place is caught.
* `ServedCurrent`: nobody is shown less than what was acknowledged before his
  request, not even while two handlers write different halves of one object.  Each
  half is recent enough; they may be of two different pages, which the code does not prevent.
* `GetsFinish`, `CommandsFinish`: no cycle of waits between handlers, the
  sequencer and the waiting writer, for threads below the reply limit.
* Findings: `page_cache_full` (the sequencer waits for itself at the reply
  limit) and `page_cache_spam` (the form that is served is not the form that is
  checked).

A post that opens a thread (`CreateThread`, and `CreateEmptyThread` when the comment is refused)
may also prune another thread and purge its page (`hive.go:258-265`), in the same closure.  Which
one that is, and when, is left open here (`Prunable`); it is the subject of `Hive`.

### SlidingWindow and Threshold

`SlidingWindow` is the promise: an occurrence is accepted exactly when fewer
than `Times` were accepted within `Duration`.  `Threshold` is `threshold.Record`:
a slice of `Times` times, of which the first that is old enough is overwritten,
so the slice is in no order.  `InThreshold` runs under `userMap.mtx`, hence one
call is one step; `Restart` is a new, empty `userMap`.  The histories `log` and
`slot` say what was accepted and where it was written; the refinement mapping is
the identity on `now`, `log` and `answer`.

### Hive

`Threads`, `Tags`, `StickyTags` and per tag the lists `Normal` and `Sticky`.
Every operation is one step, since it runs inside the sequencer: what is hard is
a long sequence.  `StickyThread` moves labels between two slices while it ranges
over one of them, so `MoveLabels` and `SetOne` keep the backing array and the
length: which labels are visited twice, or skipped, and where `s[i+1:]` panics
(`crashed`), is computed the way Go does it.  `Repeats` names the threads that
have a label twice because a user posted with `!!_all` himself; `IndexAgrees`
says less of those.  Sticking such a thread under `!!_all` does panic, inside the
sequencer, and so ends the process: two steps of the run suffice.  `OnlyRepeatsPanic` says that
nothing else does.  Whoever has `PostSystemThreads` may use the tags of the staff as well.  Of two neighbouring labels that are selected only the first is
stuck (`hive.go:355`); the model does the same.  `QueuesNotPruned`: a report queue is
removed from the normal list of `!!_all` when it is made (`hive.go:61`), and that is
the list from which `pruneThreads` takes, so it stays for good unless staff stick
and unstick it, which `unstuck` remembers.  `ThreadCount`
never goes down (`hive.go:244`), so after enough threads have been made every new one
pushes another off the board even when the board is below its limit:
`ThreadsBounded` is the upper bound only.

### Catalogue

A query changes nothing and runs inside the sequencer, so it is an operator over
a state of `Hive`, to which `Catalogue` adds the order of `t.Updated` (`OpenThread`,
`Reply`, `Delete` and `Stick` are the actions of `Hive` with that order; a thread
whose opening post was refused keeps the zero time and is not in it).  A
generator is the sequence of what its calls return.  `MergeGenerator` takes the
newest head of several lists, and the same operator on two streams is
`advance`, since both take the first argument when two times are equal; `FilterGenerators` is a set,
because `sort.Sort` may put either of two equally long lists first.  The calls
of a generator are a recursive function of their number: `Call` is one of them, and there are as
many as the lists have elements (`Places`).  `Kept` is `SelectSeq`, for which the provers
have no rules, written the same way.  `NotFound`
drops what is excluded or was found before, `Query` cuts a window out of it and
hides the report queues from users, and `Links` are the pages a page links to.
The reference is `Matches`, said of the labels of a thread and not of the
lists; of a thread that has a label twice (`Repeats`, in `Hive`) `QueryExact` says that it
is found only if it matches.  `PagesCover` holds although `pageRange` counts too few pages
(`board.go:281` divides by `ThreadsPerPage + 1`): page `p` shows up to `p + 1`
times as many threads as `config/settings.toml:37` promises (`hive.go:193`), and so
the pages overlap and the last one reaches the end.  `Links` also names pages past the
end once `start` is above zero, since `end` is used as a count (`board.go:288-295`);
the run's `PageRange` keeps `start` at zero, so that this does not hide a missing page, and
the proof uses only the link from each page to the next.

### Persistence

Threads and posts are numbers; `made[n]` is the id thread `n` was given.
`threadQ` and `postQ` are the channels, `rows` and `postRows` the tables, `tx`
what the dump loop's transaction has inserted.  While `tx` is not empty SQLite
makes every other writer wait; that such a wait ends within SQLite's busy timeout is
assumed (after it the server would panic).  A statement may or may not run with
foreign keys, because the pragma was given to one connection of the pool
(`db.go:102`): `ForeignKeys` is that choice.  `Restart` is the end of the
process at any moment (`os.Exit` in `main.go`, a panic, a kill) and the recovery
of the next start.  Which thread `pruneThreads` takes is left
open here, it is the subject of `Hive`.

The row of a post refers to two others (`db.go:64-76`): that of its thread and that of
its media.  Of the media only the order matters here: `late` are the posts whose media
was queued and has no row yet.  That a post's media is at least queued before the post
is made is `MediaAgree` of `Media`; from there `DumpMedia`, between the dumps of
threads and of posts (`db.go:318-320`), gives it its row.  `CommitPosts` refuses a post
whose thread or media has no row, if its statement runs with foreign keys.  If it does
not, the post is written, and when the process ends before the media is, the next start finds a
post whose media it does not know and panics (`db.go:281`), as every later one does:
`CanStart`, and `"down"` for a server that does not come up again.

* `ThreadsAgree`, `PostsAgree`, `LocksAgree`: what the tables hold is what the
  hive holds, or it is on its way; the exceptions are named by the history
  variables, and each of them is a hazard of the code: `early` (deleted before
  its row was written, so the row comes back), `clashed` (an id given twice),
  `crossed` (two `UPDATE`s under way, or one for a thread that was deleted and
  whose id a new thread has got since), and posts not in `safe` (the row of their
  thread or of their media was not there yet, so a foreign key may refuse them for
  good).
* `SequencerReturns`: the sequencer blocks on full channels and on the write
  lock, and the dump loop, which never waits for it, frees it; unless the process ends
  there and cannot start again.
* `NotReplaced`: no step gives the id of a live thread to a new one, unless a
  thread with a lower id was deleted and the server restarted since: recovery
  counts the rows (`db.go:220`) and does not look at the greatest id.
* Hiding a post writes nothing (`hive.go:433`) and is not in this module: a post hidden
  after its row was written is shown again after a restart.  `PostsAgree` speaks of the posts,
  not of their `Hidden`; `Reports` has it in its restart.
* Recovery writes as well: it moves stuck labels again and updates the columns of tags
  (`db.go:243-252`).  Tags are not part of this module.

### Bans

Two viewers and other handlers (`Issuers`: whoever posts, falls into the trap or
moderates) work on `users[addr].Ban`, the channel `persistBan` and the table.
`View`, `Count` and `BanForDos` / `DenyPage` are the three critical sections of
`IsPageViewAllowed` (`users.go:166-178`); `Count` and the two after it are
`Accept` and `Refuse` of `SlidingWindow`, which `Threshold` is proved to implement.
`CreateBan`, `SendBan`, `SetBan` are `IssueBan`: the end is computed before the
handler waits for room in the channel, and memory is set after.
`ReadBans` is the next start.  Which ban of an address the table means is the last row,
as `readBans` lets later rows overwrite earlier ones; days are ticks of the clock.

* `BanAgrees`: what a restart would read is what the memory holds, unless two
  handlers banned the address at once; `crossed` remembers those, because then
  the channel and the memory may have the two bans in different orders.
* `DosBansBounded`: whoever floods the server gets a ban, not one for every
  request.  `dos` is the bans for `"Dos"` that still last, each as its end and how many
  before it have the same end.  Views under way when the first is set may each add
  one.  One that has waited in the channel until it was over replaces the one in force,
  so the address is let in again, by all handlers but the one that still waits with
  a ban: `1 + 2 + ... + n` for `n` handlers.  (The attempt to prove a smaller bound
  failed here, and TLC found six bans for three handlers.)  Once a handler has banned
  somebody for another reason nothing more is counted, since `IsPageViewAllowed` compares
  the reason and such a ban lets the address be banned for `"Dos"` again.
* `RequestsFinish`: a full queue makes handlers wait, the dump loop frees them.

### Media

An upload is an object with a hash; objects made by `readFromDatabase` are their own
hash.  `InsertFirst` is `DirectInsert` with `clearSpace`, computed in one step as
under `lib.mtx` (`Evictions` is its loop); `KeepOld` the case where the library has
the hash, whose new object lives in its post only (`library.go:147`).  Video and audio pass
through `StartProbe` and `EndProbe`, the closure on `ffmpegWork`; refused audio
leaves `nil`, which is sent to the dump loop like the others and ends the process
there (`InsertNil`).  A request is `Lookup`, `ReadFromDisk`, `Write`: three
critical sections between which others evict or block.  `Block` removes the file and
empties the object, and its `INSERT` always fails.  If the row of the object is still to be
written it gets the reason of the block (`db.go:136-142`), and the next start blocks the
media again (`library.go:339-346`): `banned` are the rows with a reason.  A start whose settings no
longer name that reason panics; the settings do not change in the model.

* `CacheAccounted`: `CacheSize` is the size of what is in the list; what the library
  has in memory outside the list was read back by a request (`library.go:203`),
  which `reread` names; the limit holds as long as nothing recovered is in the list.
* `ServedWhole`: the bytes are there when they are written, whatever was evicted
  before the request or recovered; the exceptions are named: there was no room for the file, it was
  removed, or the object was emptied after this request had read it (`lost`).
* `BlockHolds`: no upload and no request that was under way brings blocked media back
  to memory or disk, and the next start does not either if the row was written after the
  block.  If it was there before, that start forgets the block.
* `MediaAgree`: the media of a post has its row, or is ahead of it in the queue.

### Reports

`Report` is `ReportPost` in one closure; the two queues it appends to, the
history and `ReportedBy` are kept apart as in the code.  `Landing` and `Submit` are the two
requests of a moderation; `ModPost` is the closure run for each id, `BanUser` an
`IssueBan` each.  `Restart` gives global ids anew: a form that was loaded before it
may then name other posts.  `Block` inside a moderation always returns an error and
ends the closure after the author was noted, before the post is hidden (`admin.go:267-274`): `BlockFails`.

* `ReportsCounted`: queues, histories and `ReportedBy` agree, and an address counts once.
* `AutoHidden`: with `AutoDeleteThreshold` reports or more for illegal contents a post
  is hidden, and with fewer it is not, unless staff hid it (`judged`, history, which also has
  what was hidden before the start); the first report is mailed instead (`hive.go:168`),
  so a threshold of 1 acts like 2.
* `ModeratedFully`: a moderation that has ended did to every post its form showed what
  was asked, banned their authors and nobody else, whatever was reported, posted or
  moderated meanwhile.

`Asked` bounds what one may ask for in a form; the theorems hold for any choice of it.

### Listeners and Feed

`Feed` is the promise to a reader: the posts of the thread since he was entered, each
once and in their order.  `Listeners` is how it is kept: `Register` and `Return` are
`threadUpdater`, `AddThreadListener` the sequencer's side, and `AddPost`,
`SkipNil`, `WriteTo`, `WriteFails`, `LoopEnds` the loop of `broadcastPost`,
one listener at a time, since a client may stall or leave between two of them.  `FeedSpec`
is `INSTANCE Feed WITH` the histories `log`, `sub` and `received`.  A registration for a
thread that is gone is dropped and its handler waits for good, and `DeleteThread` drops
the slice without telling anybody: both are in the model (and in the hazards), so nothing is
said about every handler returning.

* `AllDelivered`: after a broadcast everybody who is still there has everything,
  whoever failed before him.
* `HandlerOutlives`: no write to a socket whose handler has returned, and nobody is told
  twice over `Done`, which would stop the sequencer.

That every broadcast ends is not stated.  A client that stalls and neither reads nor closes its
socket holds up the sequencer for as long as it likes: `threads.go:298` sets a deadline for reading,
and none for the write that follows.

## 4. The runs

| run | bounds | shows |
|---|---|---|
| `page_cache_safety` | 1 thread (recovered), 3 users, 5 objects, limit 2 posts, channel of 1, 4 requests; symmetry over users | `TypeOK`, `CacheCoherent`, `ServedCurrent` |
| `page_cache_liveness` | 2 threads, one hidden, 2 clients, one of them staff, limit 4 posts, 3 requests | `GetsFinish`, `CommandsFinish`; deadlock checked |
| `page_cache_full` | limit 2 posts | finding: violates `CommandsFinish` |
| `page_cache_spam` | 2 users, 3 requests | finding: violates `HonestUserNotBanned` |
| `threshold_window` | 1 user, limits 2 in 2 and 3 in 1, clock to 5 | `TypeOK`, `NeverExceeded`, `WindowSpec`; deadlock checked |
| `hive_safety` | 1 queue, limit 2, 3 threads made, two user labels, `!!_all` and, for staff, `!?_admin` | `TypeOK`, `IndexAgrees`, `ThreadsBounded`, `QueuesNotPruned`, `LabelsKept`, `OnlyRepeatsPanic` |
| `catalogue_queries` | 1 queue, 2 threads of one user label each, limit 3, pages of 1, links to the 4 pages around; 6 queries: merge, filter, both, excluding, by staff and by others | `QueryExact`, `QueryOrdered`, `PagesCover` |
| `persistence_safety` | 2 threads, 2 posts, 2 staff, 2 changes, queues of 1, 1 restart | `TypeOK`, the three agreements, `SequencerReturns`, `NotReplaced` |
| `bans` | 1 address, 2 viewers, 1 issuer, 1 view allowed at a time, bans of 1 and 2 ticks, clock to 1, queue of 1, 1 restart | `TypeOK`, `BanAgrees`, `DosBansBounded`, `RequestsFinish`; deadlock checked |
| `media` | images of size 2 and 5, a video of size 4, refused audio of size 2, cache of 5, 1 worker, queue of 1, 3 uploads by 2 uploaders, 1 viewer, 1 restart | `TypeOK`, `CacheAccounted`, `ServedWhole`, `BlockHolds`, `MediaAgree`; deadlock checked |
| `reports` | 2 posts of 2 authors, one with media, 2 reporters, staff who may ban and who may not, threshold 2, 2 reports, 2 forms with any of 3 wishes (block, delete and ban; delete; ban), 1 restart; symmetry over reporters | `TypeOK`, `ReportsCounted`, `AutoHidden`, `ModeratedFully` |
| `listeners` | 2 clients, 2 threads, channel of 1, 3 posts | `TypeOK`, `AllDelivered`, `HandlerOutlives`, `FeedSpec` |

Why the bounds are enough.  A stale page needs a reader with an old pointer, one
that renders again and a writer: three clients and four requests leave one
request to observe the result.  Channels of capacity 1 make "full" happen
(100 in the code).  Three report queues behave alike; one leaves room for two
threads under the limit.  In `catalogue_queries` three results on pages of one are
the least for which the overlap of pages matters.  A slot of a threshold is reused after three ticks and
the clock runs to five, so slots out of order occur.  In `persistence_safety`
queues of 1 fill with the second thread, the second thread prunes the first,
and one restart lies between any two steps.  In `bans` two viewers are the least that
can both be past the look at the ban; one more tick than a ban for `"Dos"` lasts lets one be
over while another waits.  In `media` there must be more room than the new media
needs (`library.go:214`, a strict `>`): the small image and the audio are in the list
together, the video goes in only when everything else went out, and the large image pushes
everything out and still finds no room, although it is no larger than the cache.  In `persistence_safety`
a post has media without a row at any point between the dumps, and the restart may find it so.  In `listeners` two
listeners of one slice are the least of which one can fail before the other, and three
posts leave one before and one after.  In `reports` two forms are under way at once, of
two members of staff who may do different things, with the same posts or different ones; two reports
are what the threshold asks for, so one is the case of too few; and a form may hold both posts.

`CHECK_DEADLOCK FALSE` is set where the system may really stop: the sequencer
waiting for itself (`page_cache_safety`, `page_cache_full`), the process gone
after a panic or all threads of the bound made (`hive_safety`,
`catalogue_queries`), nothing left to post, report or moderate within the bounds
(`reports`), and readers whose thread was deleted, who wait for good (`listeners`).

Fairness.  Goroutines are scheduled (weak fairness of every handler's and the
sequencer's steps), Go's `select` picks at random among the ready cases (strong
fairness of `AnswerPageRequest` and `TakeCommand`), `time.Ticker` fires again
(weak fairness of the dump loop), and statements are executed.  `Serve` is
fair, that is, clients are assumed to read: one that does not holds the read
lock, which `cache.go:71` does nothing about, and `GetsFinish` and `CommandsFinish`
say nothing of that hazard.  In `Persistence` the sequencer and the dump loop are fair and
nobody else is, as nothing waits for the `UPDATE`s of the handlers.  In
`Bans` whoever waits in a full channel is served in the order of
arrival, hence strong fairness of `SendBan`.  `Listeners` states no liveness, for
the code gives no reason why a client that has stalled should go on.
Nobody is obliged to begin a request.

## 5. What is proved

All proofs are for arbitrary constants, under the assumptions named in the
modules (`ConstantsAssumption`, `ThresholdAssumption`, `ListenersAssumption`,
`BansAssumption`, `ReportsAssumption`, `MediaAssumption`, `PersistenceAssumption`,
`HiveAssumption`, `CatalogueAssumption`).

`PageCacheProofs`

* `TypeCorrect` and `ControlInvariant`.  The type invariant is not inductive on
  its own: that `Return` answers a client needs a client in `cur`, that a stored
  page has an object needs the handler's pointer.  `Control` adds where each
  handler is (`HandlerState`), that it is in a channel at most once and only
  while it waits there (`InReqs`, `OnceInReqs`, `InCmds`, `OnceInCmds`), that
  the sequencer serves a waiting client (`Served1`) and that pages are
  outstanding only while a closure runs (`Settled`).
* `CacheIsCoherent`.  The strengthening is `Coherence`: a thread that does not
  exist has no page (`Unborn`); an object is in the map under one thread, and a
  handler that looked it up was asked for that thread (`OneOwner`); and whoever
  still holds a pointer to the object in the map carries a page of the current
  version, or none (`CarriesCurrent`).  The last is what makes a late write
  harmless: `SetStale` replaces the object before the next version can be
  rendered.

* `PagesServedAreCurrent` (`ServedCurrent`).  `Coherence` is about the map, but the page
  a handler serves may have left it, and other handlers, some of which came
  earlier, still write to its object.  `Serving` adds that every answer on its way
  to an object fits every handler that holds the object (`Answers`), that what
  stands in the object fits each of them but for the halves he will write himself
  (`HeldFits`), and, for the next one to look it up, that what he will find or find
  written over is at least what was acknowledged (`PageFits`).  That last part
  survives a running command, because acknowledging waits for `Return`, when
  `Coherence` holds for every thread again.  "No bytes" is an answer only if the
  thread was deleted after the request came in (`Floors`): a thread deleted earlier
  and acknowledged has no page.

`HiveProofs`

* `IndexAlwaysAgrees` (`IndexAgrees`).  The two views alone are not inductive: of a
  thread that has a label twice `IndexAgrees` says nothing, yet it must hold that such a
  thread is listed only under labels it has, or its deletion would leave it in a list.
  `Core` says so for every thread, and the converse for those without a repeated label;
  `Fresh` says that a number not yet given out has no thread and no labels stuck.
  What `StickyThread` does to a slice while it ranges over it is proved by induction
  over the position of both nested loops.  `Visited` is the invariant of the loop
  over the labels: what is left and what was moved have together each label as often as
  before, and when no label occurs twice nothing panics and nothing visited stays behind.
  `Swapped` is what the two loops leave together: a label that is skipped
  (`hive.go:355`) is not lost, it is only not moved.
* `LabelsAreKept` (`LabelsKept`), the action property, from the same counts.
* `DistinctLabelsNeverPanic` (`OnlyRepeatsPanic`): when no label occurs twice each loop of
  `setSticky` shortens its slice once, and only the label after the one removed is skipped, so
  no index is past the end.
* `BoardIsBounded` (`ThreadsBounded`): when `ThreadCount` is above the limit the new thread
  is itself in `!!_all`, so there always is one to delete, and by `Core` it is a live one.
* `QueuesStayOut` (`QueuesNotPruned`) and `HiveTypeCorrect` (`TypeOK`).  No number
  of threads, queues or labels enters, and lists of tags may repeat a label.
* `QueriesAreExact` (`QueryExact`).  The steps of `Catalogue` are steps of `Hive`, so `Core`
  holds in each of its states, and says of the lists what `Matches` says of the labels.
  What the generators make of the lists is proved by induction over their calls: `Merging`
  says that what was returned and what is left are together the elements of the
  lists, and counts the elements left, so that there is always a newest head
  (`NewestIs`) and nothing is left in the end.  That there is one needs that `Newer`
  orders threads by their places in `Updated`, with those that have none last and equal.
* `QueriesAreOrdered` (`QueryOrdered`): `Merging` keeps every thread returned before every one
  left, and dropping threads leaves a `Part` of a sequence, which has any order that it has.
* `PagesCoverAll` (`PagesCover`): from each page one can turn to the next one (`NextPageLinked`), and
  with `n` results and pages that begin every `k` the page `n \div (k + 1)` reaches past
  the last (`EveryPlaceShown`), which is why counting too few pages does no harm.

`ThresholdProofs`

* `ThresholdIsWindow`: `Threshold` implements `SlidingWindow`.  The invariant
  `History` says that each slot holds the last time written to it, and that
  occurrences within `Duration` are in different slots.  Then the recent
  occurrences inject into the slots that are not free, and there is a free slot
  exactly when there are fewer than `Times` of them.
* `ThresholdNeverExceeded` and `ThresholdType` from the same invariant.

`ListenersProofs`

* `ListenersImplementFeed`: every step of `Listeners` is a step of `Feed` or none.
  The type invariant does not say where a client is, so the strengthening has three parts.  `Placed`:
  a client waits in the channel once, with nothing received, or is in one slice at
  one index, which never changes because sockets are set to nil and not removed; a
  listener whose socket is nil belongs to a client that left.  `Prefix`: what a
  client received is a piece of the log from where it was entered.
  `Current`: in a broadcast at index `i`, those from `i` on lack exactly the last
  post and those before lack nothing.  Hence `WriteTo` delivers the next post and
  nothing else.
* `EverythingDelivered` (`AllDelivered`), `HandlersOutlive` (`HandlerOutlives`)
  and `ListenersType` from the same invariant.

`BansProofs`

* `BansAgree` (`BanAgrees`).  The strengthening `Written` says what is true between
  the halves of `IssueBan`: the row of the one handler between them is the last
  one written for the address, so that its second half makes the memory agree;
  two at once leave the address among the `crossed` until somebody bans it alone.
  Taking the head of the queue into the transaction changes nothing of which row
  is last (`Latest` and its lemmas, which need that a non-empty set of indexes has a
  greatest one).  The proof needs no number of addresses or handlers.
* `DosBansStayBounded` (`DosBansBounded`).  Counting the bans is not inductive: what
  matters is how many may still come.  For each time `T` from now until a new ban would
  end, `Potential` weighs the bans that outlast `T` (`Live`), those about to be written
  that do (`Late`) or do not (`Early`), and the handlers that looked before there was a ban
  (`Asking`).  Every ban made from now on is a late one, so the early ones only become
  fewer: each of them lets the others in again, but one handler less each time.  Hence
  the weight stays within `V * (V + 1)`, twice `1 + 2 + ... + V`.
* `BansTypeCorrect` (`TypeOK`).

`ReportsProofs`

* `ModerationsComplete` (`ModeratedFully`).  `Moderating` follows a handler from the
  form to its end: the ids on the form keep their posts until the next start
  (`Meant`), what was hidden stays hidden, and the ids left to do are all that is
  missing from the affected authors and the hidden posts.  A start clears
  `shown`: the ids of an old form may name other posts (a hazard).
* `ReportsCountedOnce` (`ReportsCounted`), by counting occurrences in a list that
  is appended to; `ReportedEnoughHidden` (`AutoHidden`), both directions; `ReportsType`.

`PersistenceProofs`

* `ThreadsPersist` (`ThreadsAgree`).  The table is written long after the hive, so
  the strengthening follows the row on its way (`Threads`): a live thread is in the
  table, in the queue or the transaction (`Pending`), or is the one the sequencer is at;
  and whoever is pending and not excepted is the thread that has its id in the
  hive, so that a commit cannot write the row of another.  `Named` says that all of
  them were made under the id where they are found.
* `PostsPersist` (`PostsAgree`).  `Owned`: a post that is safe belongs to one thread, and
  its media has a row, which nothing deletes; `PostsKept`: its thread still has its row, so
  neither foreign key refuses it.
* `LocksPersist` (`LocksAgree`).  `LockAt`: without an `UPDATE` outstanding the row, or
  the one in the transaction, has the thread's flag; with one, it is the only one and carries the flag.
  The proof is where the second kind of `crossed` was found: it takes three
  threads and a restart, more than the run makes.
* `IdsKept` (`NotReplaced`).  `IdsFollow`: while a live id is not below `ThreadCount`, a
  lower one is free.  It holds after recovery because rows are counted, by the
  library's theorems on cardinality.
* `PersistenceType` (`TypeOK`), which needs `RowsCounted`: there are no more rows than
  threads were made.

`MediaProofs`

* `MediaServedWhole` (`ServedWhole`).  What makes reading back sound is `FilesKept`: every
  hash somebody knows of, in the library, with a handler, in the queue, the
  transaction or the table, was written to a file, or its file was removed, or it
  found no room.  Which media `clearSpace` picks does not matter.
* `BlockedStaysBlocked` (`BlockHolds`).  `Blocks`: a blocked hash has no file, and neither
  has one whose row has a reason; only a hash the library does not know is written to a file, and
  the library knows these.  That media whose file is removed are in the library needs `Settled`:
  what a handler or a post has is there, or was too large and never had a file, because
  `clearSpace` gives up only with an empty list, that is for the size alone.
* `PostsHaveMedia` (`MediaAgree`) from `RowsFirst`: `InsertImage` and its kin send the row
  before they return, so it is ahead of the post.
* `CacheStaysAccounted` (`CacheAccounted`).  `Bytes` sums over the list, by a recursive
  function whose sums are split at any position (`TotalSplit`).  `clearSpace` removes a piece from the end:
  `EvictionsAre` says that its loop, after any number of rounds, has left a beginning of the list and
  subtracted the sizes of the rest, and that it stops with room or with nothing.
* `MediaTypeCorrect` (`TypeOK`), which needs `Limits`: that the media being probed are
  finitely many and no more than the workers.

Only model-checked: all liveness (`GetsFinish`, `CommandsFinish`, `RequestsFinish` and
`SequencerReturns`), for which the prover would need `ENABLED` and rules for fairness.  Every
other property of a passing run is a theorem.

## 6. Not modelled

* Staff sessions (cookies, OpenPGP), configuration, templates, process start and
  the browser scripts: library calls, constants and presentation.  Handlers see
  only a role, which the models have as constant sets of staff.
* Admin challenges: a random string per user, compared and replaced.
* Of media: decoding, thumbnails and descriptions, which change no state the
  library reads again; `DecRef`, which nothing calls; a file that cannot be
  created, after which the object is listed without a file.
* Of the hive: word filters and the look-up of a user's posts.  What stickiness
  becomes after a restart, with the `UPDATE` of the labels that sticking and recovery
  execute (`hive.go:371`, `db.go:252`).
* Of the spam trap: the random names themselves and the form for a new thread.

Of what is modelled, these details are abstracted: HTML, names of form fields, times of
posts, `constrainPost`'s filters (a post may be refused), which thread is pruned
(in `Persistence`), and which page shows a report queue.

## 7. Findings

Two runs end in a counterexample on purpose; `PROJECT.json` quotes the line of
the repository each of them contradicts.

1. `page_cache_full`: the reply limit stops the sequencer for good
   (`hive.go:145` calls `lockThread` inside the sequencer).
2. `page_cache_spam`: an honest user is banned for filling in the form he was served, when
   the page is rendered again before his post is checked (`threads.go:327`).  Two readers find the page
   stale at the same time; the first gets its page, stores it, is served it and submits its form;
   the second has it rendered meanwhile, which changes the names the server expects although
   nobody has been shown them.
