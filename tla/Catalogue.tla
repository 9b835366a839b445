------------------------------ MODULE Catalogue ------------------------------
(***************************************************************************)
(* Tag queries: what a catalogue page shows of the hive (tags.go 70-312,   *)
(* hive.go 189-202, board.go 234-298).  A query names tags to merge (any   *)
(* of them), tags to filter by (all of them) and tags to exclude.  It runs *)
(* inside the sequencer and changes nothing, so it is an operator over the *)
(* states of Hive: generators that walk the lists of the tags, newest      *)
(* thread first, their two streams interleaved, and one window of it.      *)
(***************************************************************************)
EXTENDS Hive

CONSTANTS
  Queries,        \* records [merge, filter, exclude, admin], the first three
                  \* sequences of labels, admin the right to restricted tags
  ThreadsPerPage, \* settings.Catalog.ThreadsPerPage
  PageRange       \* settings.Catalog.PageRange

ASSUME CatalogueAssumption ==
  /\ Queries \subseteq [merge : Seq(Labels), filter : Seq(Labels),
                        exclude : Seq(Labels), admin : BOOLEAN]
  /\ ThreadsPerPage \in Nat \ {0} /\ PageRange \in Nat \ {0}

VARIABLE
  Updated         \* the threads that have a post, in the order of t.Updated,
                  \* newest first

cvars == <<vars, Updated>>

-----------------------------------------------------------------------------
(* The hive with the times of its threads.                                 *)

\* SelectSeq, as a function of the place one has come to: what is in S.
Kept(s, S) ==
  LET out[i \in 0 .. Len(s)] == IF i = 0 THEN <<>>
                                ELSE IF s[i] \in S THEN Append(out[i - 1], s[i])
                                ELSE out[i - 1]
  IN  out[Len(s)]

\* The report queues are made with a post each.
CInit == Init /\ Updated = Normal[Admin]

\* t.Updated = p.Time in thread.AddPost; a deleted thread is forgotten.
UpdatedBy(posted) ==
  Kept(posted \o Kept(Updated, Ids \ ToSet(posted)), Threads')

\* hive.AddPost of an opening post, which constrainPost may refuse after the
\* thread has been made for it: t.Updated is then the zero time.
OpenThread(ts, accepted) ==
  /\ \E staff \in BOOLEAN : CreateThread(ts, staff)
  /\ Updated' = UpdatedBy(IF accepted THEN <<ThreadCount>> ELSE <<>>)

Reply(t)          == AddPost(t) /\ Updated' = UpdatedBy(<<t>>)
Delete(t)         == DeleteThread(t) /\ Updated' = UpdatedBy(<<>>)
Stick(t, wanted)  == StickyThread(t, wanted) /\ UNCHANGED Updated

CNext ==
  \/ \E ts \in UserTags, accepted \in BOOLEAN : OpenThread(ts, accepted)
  \/ \E t \in Threads : Reply(t) \/ Delete(t)
  \/ \E t \in Threads : \E wanted \in SUBSET ToSet(Tags[t] \o StickyTags[t]) : Stick(t, wanted)

CSpec == CInit /\ [][CNext]_cvars

-----------------------------------------------------------------------------
\* showTagQuery: without the right, terms for "!?_" tags are dropped.
Terms(labels, q) == Kept(labels, IF q.admin THEN Labels ELSE Labels \ {Admin})

\* t.Updated.After(u.Updated)
Newer(t, u) ==
  \E i \in DOMAIN Updated : Updated[i] = t /\ ~Contains(SubSeq(Updated, 1, i), u)

\* Mutant: the first list that has a thread left.
FirstLive(lists) ==
  CHOOSE i \in DOMAIN lists : lists[i] # <<>> /\ \A j \in 1 .. i - 1 : lists[j] = <<>>

\* newestIndex: the first of the lists that no other has a newer head than
NewestIndex(lists) ==
  LET live == {i \in DOMAIN lists : lists[i] # <<>>}
  IN  CHOOSE i \in live : \A j \in live :
        /\ ~Newer(Head(lists[j]), Head(lists[i]))
        /\ j < i => Newer(Head(lists[i]), Head(lists[j]))

\* A call of the closure returned by mergeGenerator: the newest head is
\* returned, and its list goes on.
Call(g) ==
  LET i == NewestIndex(g.lists)
  IN  [lists |-> [g.lists EXCEPT ![i] = Tail(@)], out |-> Append(g.out, Head(g.lists[i]))]

\* The elements of the lists, by their places: as many calls return a thread.
Places(lists) == UNION {{i} \X (1 .. Len(lists[i])) : i \in DOMAIN lists}

\* mergeGenerator: all that its calls return.
MergeGenerator(lists) ==
  LET calls == Cardinality(Places(lists))
      g[n \in 0 .. calls] == IF n = 0 THEN [lists |-> lists, out |-> <<>>] ELSE Call(g[n - 1])
  IN  g[calls].out

\* containsAllTags
InAll(labels) == {t \in Ids : \A l \in ToSet(labels) : Contains(Normal[l], t)}

\* filterGenerator: one of the shortest lists (sort.Sort is not stable),
\* without the threads that another list lacks.
FilterGenerators(filter) ==
  IF filter = <<>> THEN {<<>>}
  ELSE {Kept(Normal[l], InAll(filter)) :
          l \in {m \in ToSet(filter) : \A n \in ToSet(filter) : Len(Normal[m]) <= Len(Normal[n])}}

\* ignorable, which looks at t.Tags
Ignorable(exclude) == {t \in Ids : \E l \in ToSet(Tags[t]) : Contains(exclude, l)}

\* Mutant: the map `found` is not kept.
AllFound(threads, exclude) == Kept(threads, Ids \ Ignorable(exclude))

\* The closure returned by makeResultGenerator: not what was found before.
NotFound(threads, exclude) == Kept(Cleaned(threads), Ids \ Ignorable(exclude))

\* makeResultGenerator: `advance` takes the filtered thread when it is newer
\* than the merged one, the merged one otherwise.
ResultGenerators(q) ==
  LET merge  == Terms(q.merge, q)
      merged == MergeGenerator([i \in DOMAIN merge |-> Normal[merge[i]]])
  IN  {NotFound(MergeGenerator(<<merged, filtered>>), Terms(q.exclude, q)) :
         filtered \in FilterGenerators(Terms(q.filter, q))}

-----------------------------------------------------------------------------
\* t.Hidden is set for the report queues only (hive.go 65).
Shown(q) == IF q.admin THEN Ids ELSE Ids \ Queues

\* tagMap.Query on the threads of a generator: perQuery of them after the
\* first `offset`, the hidden ones counted and left out.
Query(found, offset, perQuery, q) ==
  Kept(SubSeq(found, offset + 1,
              IF offset + perQuery < Len(found) THEN offset + perQuery ELSE Len(found)),
       Shown(q))

\* Mutant: every page asks for the same number of threads.
PageOfOne(found, page, q) == Query(found, page * ThreadsPerPage, ThreadsPerPage, q)

\* hive.TagQuery, the threads that are not stuck: page p asks for p+1 times
\* as many as a page holds.
TagQuery(found, page, q) == Query(found, page * ThreadsPerPage, (page + 1) * ThreadsPerPage, q)

\* pageRange: the pages that page `center` links to, for `count` results
Links(center, count) ==
  LET pages == count \div (ThreadsPerPage + 1)
      start == IF center < PageRange \div 2 THEN 0 ELSE center - PageRange \div 2
      end   == IF start + PageRange > pages THEN pages ELSE start + PageRange
  IN  {start + i : i \in 0 .. end}

Turned(pages, count) == (pages \cup UNION {Links(p, count) : p \in pages}) \cap 0 .. count

\* The pages one comes to from the first one by the links on them, and by no
\* more of them than there are results.
Reached(count) ==
  LET pages[n \in 0 .. count] == IF n = 0 THEN {0} ELSE Turned(pages[n - 1], count)
  IN  pages[count]

-----------------------------------------------------------------------------
\* What a query asks for, said of the labels the threads have.
Matches(t, q) ==
  /\ \/ \E l \in ToSet(Terms(q.merge, q)) : Contains(Tags[t], l)
     \/ Terms(q.filter, q) # <<>> /\ ToSet(Terms(q.filter, q)) \subseteq ToSet(Tags[t])
  /\ \A l \in ToSet(Terms(q.exclude, q)) : ~Contains(Tags[t], l)

(* "the next most recent thread that either includes ALL of the named tags *)
(* in the filtered parameter, OR includes ANY of the named tags in the     *)
(* merged parameter" (tags.go 162): walking the lists finds every live     *)
(* thread whose labels match, once, and no other; a report queue is found  *)
(* for staff only, and a thread that was posted under "!!_all" may be      *)
(* missed (Repeats, in Hive).                                              *)
QueryExact ==
  \A q \in Queries : \A found \in ResultGenerators(q) :
    LET shown == Kept(found, Shown(q))
    IN  /\ IsInjective(shown)
        /\ \A t \in ToSet(shown) : t \in Threads /\ Matches(t, q) /\ (t \in Queues => q.admin)
        /\ \A t \in Threads \ Queues : Matches(t, q) /\ ~Repeats(t) => Contains(shown, t)

InOrder(threads) ==
  \A i, j \in DOMAIN threads : i < j => ~Newer(threads[j], threads[i])

(* Newest first: two generators interleaved by their heads, one of them    *)
(* a merge of several lists and the other the walk of whichever list is    *)
(* shortest, give the threads in the order of their last posts, as long as *)
(* each list named has that order (which UnstickyThread can break).        *)
QueryOrdered ==
  \A q \in Queries :
    (\A l \in ToSet(q.merge \o q.filter) : InOrder(Normal[l])) =>
      \A found \in ResultGenerators(q) : InOrder(found)

(* The pages one can turn to from the first one show all that was found:   *)
(* pageRange divides by ThreadsPerPage + 1 (board.go 281), so there are    *)
(* fewer pages than threads need, and only the growing size of a page      *)
(* (hive.go 193) makes up for it.                                          *)
PagesCover ==
  \A q \in Queries : \A found \in ResultGenerators(q) :
    ToSet(Kept(found, Shown(q)))
      = UNION {ToSet(TagQuery(found, page, q)) : page \in Reached(Len(found))}
=============================================================================
