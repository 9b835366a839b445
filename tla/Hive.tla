--------------------------------- MODULE Hive ---------------------------------
(***************************************************************************)
(* The hive (hive.go) and its index of tags (tags.go): which threads there *)
(* are, under which tags each is listed, in what order, and which of them  *)
(* a new thread pushes off the board.                                      *)
(*                                                                         *)
(* Every operation runs inside the sequencer, so each is one step; what is *)
(* hard here is a long sequence of them.  The same fact is kept twice: a   *)
(* thread has the labels it is listed under, and each tag has two lists of *)
(* threads, one of them for the threads stuck to its top.  StickyThread    *)
(* moves labels between the two slices of a thread while it ranges over    *)
(* them, and the model keeps the backing array to say what that visits.    *)
(***************************************************************************)
EXTENDS Integers, FiniteSets, SequencesExt

CONSTANTS
  All, Admin,   \* the labels "!!_all" and "!?_admin"
  UserTags,     \* what users write in tag_entry: sequences of labels
  NumQueues,    \* report queues made at the start (three in the code)
  Limit,        \* settings.Limit.Threads
  TagsPerThread,\* settings.Limit.TagsPerThread
  MaxThreads    \* bound: threads made in one behaviour

Labels == {All, Admin} \cup UNION {ToSet(ts) : ts \in UserTags}
Queues == 0 .. NumQueues - 1
Ids    == 0 .. MaxThreads - 1

ASSUME HiveAssumption ==
  /\ All # Admin /\ UserTags \subseteq Seq(Labels)
  /\ NumQueues \in Nat /\ Limit \in Nat /\ MaxThreads \in Nat
  /\ NumQueues <= Limit /\ NumQueues <= MaxThreads

VARIABLES
  Threads,      \* the keys of hive.Threads
  ThreadCount,  \* hive.ThreadCount, which gives the next thread its id
  Tags,         \* t.Tags
  StickyTags,   \* t.StickyTags
  Normal,       \* tag.Normal.Threads of each tag, front first
  Sticky,       \* tag.Sticky.Threads
  crashed,      \* an operation has panicked: the process is gone
  unstuck       \* history: queues that were unstuck from "!!_all"

vars == <<Threads, ThreadCount, Tags, StickyTags, Normal, Sticky, crashed, unstuck>>

TypeOK ==
  /\ Threads \subseteq Ids
  /\ ThreadCount \in 0 .. MaxThreads
  /\ Tags \in [Ids -> Seq(Labels)] /\ StickyTags \in [Ids -> Seq(Labels)]
  /\ Normal \in [Labels -> Seq(Ids)] /\ Sticky \in [Labels -> Seq(Ids)]
  /\ crashed \in BOOLEAN /\ unstuck \subseteq Queues

-----------------------------------------------------------------------------
(* threadList: a list with a map of its elements.                          *)

AddThread(l, t) == IF Contains(l, t) THEN l ELSE Cons(t, l)

\* tl.Elems[t], where the list has the thread
Elem(l, t) == CHOOSE i \in DOMAIN l : l[i] = t

RemoveThread(l, t) == IF Contains(l, t) THEN RemoveAt(l, Elem(l, t)) ELSE l

\* Mutant: a thread that is not in the list is put into it.
MoveToFrontOrAdd(l, t) == Cons(t, RemoveThread(l, t))

MoveToFront(l, t) == IF Contains(l, t) THEN Cons(t, RemoveThread(l, t)) ELSE l

\* The lists, with f done to the thread's place in those of the labels ls.
InLists(lists, ls, t, f(_, _)) ==
  [l \in Labels |-> IF l \in ls THEN f(lists[l], t) ELSE lists[l]]

\* createReportQueues: the queues are taken out of "!!_all", which they
\* still name, "to avoid them getting pruned".
Init ==
  /\ Threads = Queues
  /\ ThreadCount = NumQueues
  /\ Tags = [t \in Ids |-> IF t \in Queues THEN <<Admin, All>> ELSE <<>>]
  /\ StickyTags = [t \in Ids |-> <<>>]
  /\ Normal = [l \in Labels |-> IF l = Admin
                 THEN [i \in 1 .. NumQueues |-> NumQueues - i] ELSE <<>>]
  /\ Sticky = [l \in Labels |-> <<>>]
  /\ crashed = FALSE /\ unstuck = {}

-----------------------------------------------------------------------------
\* cleanUserTags, one label after the other
AddLabel(out, l) == IF Contains(out, l) THEN out ELSE Append(out, l)

Cleaned(ts) ==
  LET out[i \in 0 .. Len(ts)] == IF i = 0 THEN <<>> ELSE AddLabel(out[i - 1], ts[i])
  IN  out[Len(ts)]

\* Mutant: a tag goes from hive.tags together with its last thread.
WithoutEmptyTag(lists, labels, t) ==
  LET rest == InLists(lists, ToSet(labels), t, RemoveThread)
  IN  [l \in {m \in Labels : rest[m] # <<>> \/ m \notin ToSet(labels)} |-> rest[l]]

\* Mutant: only the list of the thread's first label is cleared.
WithoutFirst(lists, labels, t) ==
  IF labels = <<>> THEN lists ELSE InLists(lists, {labels[1]}, t, RemoveThread)

\* The lists of a hive from which thread t has been deleted.
Without(lists, labels, t) == InLists(lists, ToSet(labels), t, RemoveThread)

\* Mutant: the limit is compared with the count before it was incremented.
PrunesLate == ThreadCount > Limit

\* h.ThreadCount > uint(settings.Limit.Threads), after it was incremented
Prunes == ThreadCount + 1 > Limit

\* newThreadFromPost: the thread is made, attached to its tags, and then the
\* last one of "!!_all" is deleted when the count is above the limit.  Staff
\* whose role has PostSystemThreads may post under "!?_admin" as well.
CreateThread(ts, staff) ==
  LET new    == ThreadCount
      labels == Append(Cleaned(ts), All)
      lists  == InLists(Normal, ToSet(labels), new, AddThread)
      oldest == Last(lists[All])
  IN /\ ~crashed /\ ThreadCount < MaxThreads
     /\ Cleaned(ts) # <<>> /\ Len(Cleaned(ts)) <= TagsPerThread
     /\ staff \/ ~Contains(ts, Admin)
     /\ ThreadCount' = ThreadCount + 1
     /\ Tags' = [Tags EXCEPT ![new] = labels]
     /\ IF Prunes
        THEN /\ Threads' = (Threads \cup {new}) \ {oldest}
             /\ Normal' = Without(lists, Tags'[oldest], oldest)
             /\ Sticky' = Without(Sticky, StickyTags[oldest], oldest)
        ELSE /\ Threads' = Threads \cup {new}
             /\ Normal' = lists
             /\ UNCHANGED Sticky
     /\ UNCHANGED <<StickyTags, crashed, unstuck>>

\* AddPost: bumped in the lists of the labels the thread has.
AddPost(t) ==
  /\ ~crashed /\ t \in Threads
  /\ Normal' = InLists(Normal, ToSet(Tags[t]), t, MoveToFront)
  /\ UNCHANGED <<Threads, ThreadCount, Tags, StickyTags, Sticky, crashed, unstuck>>

DeleteThread(t) ==
  /\ ~crashed /\ t \in Threads
  /\ Threads' = Threads \ {t}
  /\ Normal' = Without(Normal, Tags[t], t)
  /\ Sticky' = Without(Sticky, StickyTags[t], t)
  /\ UNCHANGED <<ThreadCount, Tags, StickyTags, crashed, unstuck>>

-----------------------------------------------------------------------------
(* StickyThread.  A slice is its backing array and its length; `range`     *)
(* takes the length once, and append(s[:i], s[i+1:]...) shifts the array   *)
(* below it.  s[i+1:] panics when i+1 is beyond the length.                *)

\* Mutant: append(s[:i+1], s[i+2:]...), which drops the label after it.
CutAfter(s, i) ==
  [s EXCEPT !.arr = [j \in DOMAIN @ |-> IF j \in i + 1 .. s.len - 1 THEN @[j + 1] ELSE @[j]],
            !.len = s.len - 1,
            !.moved = Append(@, s.arr[i])]

\* Mutant: so does this, and panics at the last label.
SetAtAfter(s, i, name) ==
  IF ~s.ok \/ s.arr[i] # name THEN s
  ELSE IF i + 1 > s.len THEN [s EXCEPT !.ok = FALSE]
  ELSE CutAfter(s, i)

\* The label at i goes from the slice to the other one.
Cut(s, i) ==
  [s EXCEPT !.arr = [j \in DOMAIN @ |-> IF j \in i .. s.len - 1 THEN @[j + 1] ELSE @[j]],
            !.len = s.len - 1,
            !.moved = Append(@, s.arr[i])]

SetAt(s, i, name) ==
  IF ~s.ok \/ s.arr[i] # name THEN s
  ELSE IF i > s.len THEN [s EXCEPT !.ok = FALSE]
  ELSE Cut(s, i)

\* setSticky and setUnsticky
SetOne(slice, name) ==
  LET s[i \in 0 .. slice.len] == IF i = 0 THEN slice ELSE SetAt(s[i - 1], i, name)
  IN  s[slice.len]

\* One of the two loops of StickyThread: visits the labels of a slice and
\* moves those in `chosen` to the other slice.
Visit(s, i, chosen) ==
  IF s.ok /\ s.arr[i] \in chosen
  THEN SetOne([s EXCEPT !.seen = @ \cup {s.arr[i]}], s.arr[i])
  ELSE s

Whole(labels) ==
  [arr |-> labels, len |-> Len(labels), moved |-> <<>>, seen |-> {}, ok |-> TRUE]

MoveLabels(labels, chosen) ==
  LET s[i \in 0 .. Len(labels)] == IF i = 0 THEN Whole(labels) ELSE Visit(s[i - 1], i, chosen)
  IN  s[Len(labels)]

Left(slice) == SubSeq(slice.arr, 1, slice.len)

\* hive.StickyThread, with the labels the form asks for
StickyThread(t, wanted) ==
  LET up    == MoveLabels(Tags[t], wanted)
      stuck == StickyTags[t] \o up.moved
      down  == MoveLabels(stuck, Labels \ wanted)
  IN /\ ~crashed /\ t \in Threads
     /\ IF up.ok /\ down.ok
        THEN /\ Tags' = [Tags EXCEPT ![t] = Left(up) \o down.moved]
             /\ StickyTags' = [StickyTags EXCEPT ![t] = Left(down)]
             /\ Normal' = InLists(InLists(Normal, up.seen, t, RemoveThread), down.seen, t, AddThread)
             /\ Sticky' = InLists(InLists(Sticky, up.seen, t, AddThread), down.seen, t, RemoveThread)
             /\ unstuck' = unstuck \cup {q \in {t} \cap Queues : All \in down.seen}
             /\ UNCHANGED crashed
        ELSE crashed' = TRUE /\ UNCHANGED <<Tags, StickyTags, Normal, Sticky, unstuck>>
     /\ UNCHANGED <<Threads, ThreadCount>>

-----------------------------------------------------------------------------
Next ==
  \/ \E ts \in UserTags, staff \in BOOLEAN : CreateThread(ts, staff)
  \/ \E t \in Threads : AddPost(t) \/ DeleteThread(t)
  \/ \E t \in Threads : \E wanted \in SUBSET ToSet(Tags[t] \o StickyTags[t]) : StickyThread(t, wanted)

Spec == Init /\ [][Next]_vars

-----------------------------------------------------------------------------
\* cleanUserTags lets "!!_all" through, and a thread posted with it has that
\* label twice.
Repeats(t) == ~IsInjective(Tags[t] \o StickyTags[t])

\* The report queues were taken out of "!!_all" and come back only when that
\* label is stuck and unstuck.
ListedUnder(t, l) ==
  /\ Contains(Normal[l], t) => Contains(Tags[t], l)
  /\ Contains(Tags[t], l) /\ ~(t \in Queues /\ l = All) => Contains(Normal[l], t)
  /\ Contains(Sticky[l], t) <=> Contains(StickyTags[t], l)

(* The two views of the hive agree: a thread is in the lists of exactly    *)
(* the labels it has, once, and no list holds a thread that was deleted    *)
(* (DeleteThread finds the lists by the labels, hive.go 457-467, and the   *)
(* labels are moved while StickyThread ranges over them, 355-371).  Only   *)
(* for threads that a user posted under "!!_all" is this weaker.           *)
IndexAgrees ==
  /\ \A t \in Threads, l \in Labels : ~Repeats(t) => ListedUnder(t, l)
  /\ \A l \in Labels : /\ IsInjective(Normal[l]) /\ IsInjective(Sticky[l])
                       /\ ToSet(Normal[l]) \cup ToSet(Sticky[l]) \subseteq Threads

(* The board never has more threads than the limit (settings.toml 44):     *)
(* pruneThreads always finds a thread in "!!_all" to delete, and the one   *)
(* it finds is a live one.                                                 *)
ThreadsBounded == Cardinality(Threads) <= Limit

(* Sticking and unsticking, done by removing from a slice that is being    *)
(* ranged over, loses no label of a thread and makes no second one.        *)
LabelsKept ==
  [][\A t \in Threads \cap Threads' :
       ToBag(Tags'[t] \o StickyTags'[t]) = ToBag(Tags[t] \o StickyTags[t])]_vars

(* Nor does it reach beyond the end of the slice it shortens, which would  *)
(* be a panic inside the sequencer and the end of the process: only the    *)
(* labels of a thread that has one of them twice can be moved so that it   *)
(* does (hive.go 345-389).                                                 *)
OnlyRepeatsPanic ==
  [][crashed' => \A t \in Threads, wanted \in SUBSET Labels :
                   StickyThread(t, wanted) => Repeats(t)]_vars

(* "Remove queues from !!_all to avoid them getting pruned" (hive.go 61):  *)
(* a queue stays out of that list, although it keeps the label, is posted  *)
(* to and stuck under other tags; only unsticking it from "!!_all" itself  *)
(* puts it where pruneThreads finds it (tags.go 410-413).                  *)
QueuesNotPruned ==
  \A q \in (Queues \cap Threads) \ unstuck : ~Contains(Normal[All], q)
=============================================================================
