--------------------------- MODULE PageCacheProofs ---------------------------
(***************************************************************************)
(* Proofs about the page cache, for any number of threads, handlers and    *)
(* objects, any limit on posts and any capacity of the channels.           *)
(*                                                                         *)
(* CacheCoherent is not inductive: whether a late answer can spoil the map *)
(* depends on what the handlers carry.  Coherence adds that a handler whose *)
(* object is still in the map carries the present version of its thread;   *)
(* Control adds what that rests on, namely who waits in which channel.     *)
(***************************************************************************)
EXTENDS PageCache, TLAPS

PtrSteps == GetSteps \ {"lookup"}

\* A handler in Get has a thread, and has an object exactly from the lookup on.
HandlerState ==
  \A c \in Clients :
     /\ pc[c] \in GetSteps => tid[c] \in Threads
     /\ pc[c] \in PtrSteps <=> bp[c] # None
     /\ pc[c] \in CmdSteps => cmd[c] \in Command

\* The handlers in a channel, and the one being served, wait for an answer.
InReqs == \A i \in 1..Len(reqs) : pc[reqs[i]] = "reply"
OnceInReqs == \A i, j \in 1..Len(reqs) : reqs[i] = reqs[j] => i = j
InCmds == \A i \in 1..Len(cmds) : cmds[i] \in Clients => pc[cmds[i]] = "await"
OnceInCmds == \A i, j \in 1..Len(cmds) : cmds[i] \in Clients /\ cmds[i] = cmds[j] => i = j
Served1 == cur \in Clients => pc[cur] = "await" /\ \A i \in 1..Len(cmds) : cmds[i] # cur

\* The sequencer has pages to replace only within a command.
Settled == spc \notin {"stale", "lock"} => todo = {}

Control == TypeOK /\ HandlerState /\ InReqs /\ OnceInReqs /\ InCmds /\ OnceInCmds /\ Served1 /\ Settled

-----------------------------------------------------------------------------
LEMMA HeadTail ==
  ASSUME NEW S, NEW s \in Seq(S), s # <<>>
  PROVE  /\ Head(s) \in S /\ Head(s) = s[1] /\ 1 \in 1..Len(s)
         /\ Tail(s) \in Seq(S) /\ Len(Tail(s)) = Len(s) - 1
         /\ \A i \in 1..Len(Tail(s)) : Tail(s)[i] = s[i+1] /\ i + 1 \in 1..Len(s)
  OBVIOUS

LEMMA Appended ==
  ASSUME NEW S, NEW s \in Seq(S), NEW x \in S
  PROVE  /\ Append(s, x) \in Seq(S) /\ Len(Append(s, x)) = Len(s) + 1
         /\ \A i \in 1..Len(s) : Append(s, x)[i] = s[i]
         /\ Append(s, x)[Len(s) + 1] = x
  OBVIOUS

LEMMA ThreadUpdates ==
  ASSUME NEW r \in Thread
  PROVE  /\ Edited(r) \in Thread /\ WithPost(r) \in Thread
         /\ WithPost([r EXCEPT !.status = "live"]) \in Thread
         /\ \A b \in BOOLEAN : WithLock(r, b) \in Thread
         /\ Edited([r EXCEPT !.status = "deleted"]) \in Thread
         /\ [r EXCEPT !.status = "live"] \in Thread /\ OpenedOrPruned(r) \in Thread
  <1>1. ASSUME NEW q \in Thread PROVE Edited(q) \in Thread
    BY DEF Thread, Edited
  <1>2. ASSUME NEW q \in Thread PROVE [q EXCEPT !.posts = @ + 1] \in Thread
    BY DEF Thread
  <1>3. /\ [r EXCEPT !.status = "live"] \in Thread
        /\ [r EXCEPT !.status = "deleted"] \in Thread
        /\ \A b \in BOOLEAN : [r EXCEPT !.locked = b] \in Thread
    BY DEF Thread
  <1> QED
    BY <1>1, <1>2, <1>3 DEF WithPost, WithLock, OpenedOrPruned

LEMMA ThreadStatus ==
  ASSUME NEW r \in Thread
  PROVE  /\ Edited(r).status = r.status /\ WithPost(r).status = r.status
         /\ WithPost([r EXCEPT !.status = "live"]).status = "live"
         /\ \A b \in BOOLEAN : WithLock(r, b).status = r.status
         /\ Edited([r EXCEPT !.status = "deleted"]).status = "deleted"
         /\ OpenedOrPruned(r).status \in {"live", "deleted"}
  BY DEF Thread, Edited, WithPost, WithLock, OpenedOrPruned

LEMMA InitControl == Init => Control
  <1> SUFFICES ASSUME Init PROVE Control
    OBVIOUS
  <1> USE ConstantsAssumption DEF Init
  <1>1. TypeOK
    <2>1. HiveType
      BY DEF HiveType, Thread
    <2>2. CacheType
      BY DEF CacheType, BPage, Empty, Page, Blank
    <2>3. SeqType
      <3>1. reqs \in Seq(Clients) /\ cmds \in Seq(Clients \cup {Self})
        OBVIOUS
      <3>2. spc = "select" /\ cur = None /\ on = {} /\ todo = {} /\ notice = FALSE
        OBVIOUS
      <3> QED
        BY <3>1, <3>2 DEF SeqType
    <2>4. GetType
      BY DEF GetType, Page, Blank
    <2>5. PostType
      BY DEF PostType
    <2> QED
      BY <2>1, <2>2, <2>3, <2>4, <2>5 DEF TypeOK
  <1>2. HandlerState
    BY DEF HandlerState, GetSteps, PtrSteps, CmdSteps
  <1>3. InReqs /\ OnceInReqs /\ InCmds /\ OnceInCmds /\ Served1 /\ Settled
    BY DEF InReqs, OnceInReqs, InCmds, OnceInCmds, Served1, Settled
  <1> QED
    BY <1>1, <1>2, <1>3 DEF Control

-----------------------------------------------------------------------------
Channels == InReqs /\ OnceInReqs /\ InCmds /\ OnceInCmds /\ Served1

\* A step of one handler that is not waiting for an answer leaves the
\* channels in order.
LEMMA ChannelsKept ==
  ASSUME SeqType, GetType, Channels, NEW c \in Clients, pc[c] \notin {"reply", "await"},
         NEW x, pc' = [pc EXCEPT ![c] = x], UNCHANGED <<reqs, cmds, cur>>
  PROVE  Channels'
  <1>1. \A i \in 1..Len(reqs) : reqs[i] \in Clients
    BY DEF SeqType
  <1>2. \A d \in Clients : pc[d] \in {"reply", "await"} => pc'[d] = pc[d]
    BY DEF GetType
  <1>3. InReqs' /\ InCmds'
    BY <1>1, <1>2 DEF Channels, InReqs, InCmds
  <1>4. OnceInReqs' /\ OnceInCmds'
    BY DEF Channels, OnceInReqs, OnceInCmds
  <1>5. Served1'
    BY <1>2 DEF Channels, Served1
  <1> QED
    BY <1>3, <1>4, <1>5 DEF Channels

LEMMA ChannelsSame ==
  ASSUME Channels, UNCHANGED <<reqs, cmds, cur, pc>>
  PROVE  Channels'
  BY DEF Channels, InReqs, OnceInReqs, InCmds, OnceInCmds, Served1

\* Every step of a handler in Get.
LEMMA GetControl ==
  ASSUME Control, NEW c \in Clients, GetStep(c) \/ \E t \in Threads : Get(c, t)
  PROVE  Control'
  <1> USE ConstantsAssumption
  <1> USE DEF Control, TypeOK, HiveType, PostType, hiveVars, cacheVars, lockVars, seqVars,
              getVars, postVars, RLock, RUnlock, GetSteps, CmdSteps, PtrSteps
  <1>0. Channels
    BY DEF Channels
  <1>1. CASE \E t \in Threads : Get(c, t)
    <2> PICK t \in Threads : Get(c, t)
      BY <1>1
    <2>1. Channels'
      BY <1>0, ChannelsKept DEF Get
    <2>2. HiveType' /\ CacheType' /\ SeqType' /\ PostType' /\ Settled'
      BY DEF Get, CacheType, SeqType, Settled
    <2>3. GetType'
      BY DEF Get, GetType
    <2>4. HandlerState'
      BY DEF Get, GetType, HandlerState
    <2> QED
      BY <2>1, <2>2, <2>3, <2>4 DEF Channels
  <1>2. CASE LookupMiss(c)
    <2>1. Channels'
      BY <1>0, <1>2, ChannelsKept DEF LookupMiss
    <2>2. HiveType' /\ CacheType' /\ SeqType' /\ PostType' /\ Settled'
      BY <1>2 DEF LookupMiss, CacheType, SeqType, Settled
    <2>3. GetType'
      BY <1>2 DEF LookupMiss, GetType
    <2>4. HandlerState'
      BY <1>2 DEF LookupMiss, GetType, HandlerState
    <2> QED
      BY <2>1, <2>2, <2>3, <2>4 DEF Channels
  <1>3. CASE LookupFresh(c)
    <2>1. Channels'
      BY <1>0, <1>3, ChannelsKept DEF LookupFresh
    <2>2. HiveType' /\ CacheType' /\ SeqType' /\ PostType' /\ Settled'
      BY <1>3 DEF LookupFresh, CacheType, SeqType, Settled
    <2>3. GetType'
      BY <1>3 DEF LookupFresh, GetType, CacheType, HandlerState
    <2>4. HandlerState'
      BY <1>3 DEF LookupFresh, GetType, HandlerState
    <2> QED
      BY <2>1, <2>2, <2>3, <2>4 DEF Channels
  <1>4. CASE LookupStale(c)
    <2>1. Channels'
      BY <1>0, <1>4, ChannelsKept DEF LookupStale
    <2>2. HiveType' /\ CacheType' /\ SeqType' /\ PostType' /\ Settled'
      BY <1>4 DEF LookupStale, CacheType, SeqType, Settled
    <2>3. GetType'
      BY <1>4 DEF LookupStale, GetType, CacheType, HandlerState
    <2>4. HandlerState'
      BY <1>4 DEF LookupStale, GetType, HandlerState
    <2> QED
      BY <2>1, <2>2, <2>3, <2>4 DEF Channels
  <1>5. CASE SendPageRequest(c)
    <2>1. /\ reqs' \in Seq(Clients) /\ Len(reqs') = Len(reqs) + 1
          /\ \A i \in 1..Len(reqs) : reqs'[i] = reqs[i] /\ reqs[i] \in Clients
          /\ reqs'[Len(reqs) + 1] = c
      BY <1>5, Appended DEF SendPageRequest, SeqType
    <2>2. pc[c] = "request" /\ pc'[c] = "reply" /\ \A d \in Clients \ {c} : pc'[d] = pc[d]
      BY <1>5 DEF SendPageRequest, GetType
    <2>3. InReqs' /\ OnceInReqs'
      <3> DEFINE n == Len(reqs)
      <3>1. n \in Nat /\ Len(reqs') = n + 1
        BY <2>1 DEF SeqType
      <3>2. \A i \in 1..n : reqs'[i] = reqs[i] /\ reqs[i] \in Clients /\ pc[reqs[i]] = "reply"
        BY <2>1 DEF InReqs
      <3>3. \A i \in 1..n : reqs'[i] # c /\ pc'[reqs'[i]] = "reply"
        BY <3>2, <2>2
      <3>4. \A i \in 1..(n + 1) : i \in 1..n \/ i = n + 1
        BY <3>1
      <3> HIDE DEF n
      <3>5. InReqs'
        BY <3>1, <3>3, <3>4, <2>1, <2>2 DEF InReqs, n
      <3>6. OnceInReqs'
        <4>1. \A i, j \in 1..n : reqs[i] = reqs[j] => i = j
          BY DEF OnceInReqs, n
        <4>2. reqs'[n + 1] = c
          BY ONLY <2>1 DEF n
        <4>3. \A i, j \in 1..(n + 1) : reqs'[i] = reqs'[j] => i = j
          BY ONLY <3>2, <3>3, <3>4, <4>1, <4>2
        <4> QED
          BY ONLY <3>1, <4>3 DEF OnceInReqs
      <3> QED
        BY <3>5, <3>6
    <2>4. InCmds' /\ OnceInCmds' /\ Served1'
      BY <1>5, <2>2 DEF SendPageRequest, InCmds, OnceInCmds, Served1
    <2>5. HiveType' /\ CacheType' /\ PostType' /\ Settled'
      BY <1>5 DEF SendPageRequest, CacheType, Settled
    <2>6. SeqType'
      BY <1>5, <2>1 DEF SendPageRequest, SeqType
    <2>7. GetType'
      BY <1>5 DEF SendPageRequest, GetType
    <2>8. HandlerState'
      BY <1>5, <2>2 DEF SendPageRequest, GetType, HandlerState
    <2> QED
      BY <2>3, <2>4, <2>5, <2>6, <2>7, <2>8
  <1>6. CASE Relock(c)
    <2>1. Channels'
      BY <1>0, <1>6, ChannelsKept DEF Relock
    <2>2. HiveType' /\ CacheType' /\ SeqType' /\ PostType' /\ Settled'
      BY <1>6 DEF Relock, CacheType, SeqType, Settled
    <2>3. GetType'
      BY <1>6 DEF Relock, GetType
    <2>4. HandlerState'
      BY <1>6 DEF Relock, GetType, HandlerState
    <2> QED
      BY <2>1, <2>2, <2>3, <2>4 DEF Channels
  <1>7. CASE \E h \in Halves : StoreHalf(c, h)
    <2> PICK h \in Halves : StoreHalf(c, h)
      BY <1>7
    <2>1. Channels'
      BY <1>0, ChannelsSame DEF StoreHalf
    <2>2. HiveType' /\ SeqType' /\ PostType' /\ Settled' /\ HandlerState'
      BY DEF StoreHalf, SeqType, Settled, HandlerState
    <2>3. CacheType'
      <3>1. bp[c] \in Objects /\ got[c] \in Page
        BY DEF StoreHalf, HandlerState, GetType
      <3>2. obj[bp[c]] \in BPage
        BY <3>1 DEF CacheType
      <3>3. /\ [obj[bp[c]] EXCEPT !.data = got[c]] \in BPage
            /\ [obj[bp[c]] EXCEPT !.len = got[c]] \in BPage
        BY ONLY <3>1, <3>2 DEF BPage
      <3>4. Write(obj[bp[c]], h, got[c]) \in BPage
        BY ONLY <3>3 DEF Write
      <3> QED
        BY <3>4 DEF StoreHalf, CacheType
    <2>4. GetType'
      BY DEF StoreHalf, GetType
    <2> QED
      BY <2>1, <2>2, <2>3, <2>4 DEF Channels
  <1>8. CASE MarkFresh(c)
    <2>1. Channels'
      BY <1>0, <1>8, ChannelsKept DEF MarkFresh
    <2>2. HiveType' /\ SeqType' /\ PostType' /\ Settled'
      BY <1>8 DEF MarkFresh, SeqType, Settled
    <2>3. CacheType'
      <3>1. bp[c] \in Objects
        BY <1>8 DEF MarkFresh, HandlerState, GetType
      <3>2. obj[bp[c]] \in BPage
        BY <3>1 DEF CacheType
      <3>3. [obj[bp[c]] EXCEPT !.fresh = TRUE] \in BPage
        BY ONLY <3>2 DEF BPage
      <3> QED
        BY <1>8, <3>1, <3>3 DEF MarkFresh, CacheType
    <2>4. GetType'
      BY <1>8 DEF MarkFresh, GetType
    <2>5. HandlerState'
      BY <1>8 DEF MarkFresh, GetType, HandlerState
    <2> QED
      BY <2>1, <2>2, <2>3, <2>4, <2>5 DEF Channels
  <1>9. CASE Serve(c)
    <2>1. Channels'
      BY <1>0, <1>9, ChannelsKept DEF Serve
    <2>2. HiveType' /\ CacheType' /\ SeqType' /\ PostType' /\ Settled'
      BY <1>9 DEF Serve, CacheType, SeqType, Settled
    <2>3. tid[c] \in Threads /\ bp[c] \in Objects
      BY <1>9 DEF Serve, HandlerState, GetType
    <2>4. GetType'
      BY <1>9, <2>3 DEF Serve, GetType, CacheType, BPage, Served, Page, Blank
    <2>5. HandlerState'
      BY <1>9 DEF Serve, GetType, HandlerState
    <2> QED
      BY <2>1, <2>2, <2>4, <2>5 DEF Channels
  <1> QED
    BY <1>1, <1>2, <1>3, <1>4, <1>5, <1>6, <1>7, <1>8, <1>9 DEF GetStep

\* Every step of a handler that sends a closure.
LEMMA CommandControl ==
  ASSUME Control, NEW c \in Clients, Begin(c) \/ CmdStep(c)
  PROVE  Control'
  <1> USE ConstantsAssumption
  <1> USE DEF Control, TypeOK, HiveType, CacheType, hiveVars, cacheVars, lockVars, seqVars,
              getVars, postVars, GetSteps, CmdSteps, PtrSteps
  <1>0. Channels
    BY DEF Channels
  <1>1. ASSUME NEW k \in Kinds, NEW ts \in SUBSET Threads, Issue(c, k, ts)
        PROVE  Control'
    <2>1. Channels'
      BY <1>0, <1>1, ChannelsKept DEF Issue
    <2>2. HiveType' /\ CacheType' /\ SeqType' /\ Settled'
      BY <1>1 DEF Issue, SeqType, Settled
    <2>3. GetType' /\ PostType'
      BY <1>1 DEF Issue, GetType, PostType, Command
    <2>4. HandlerState'
      BY <1>1 DEF Issue, GetType, PostType, HandlerState, Command
    <2> QED
      BY <2>1, <2>2, <2>3, <2>4 DEF Channels
  <1>2. CASE SubmitComment(c)
    <2>1. seen[c].thread \in Threads
      BY <1>2 DEF SubmitComment, GetType, Served
    <2> QED
      BY <1>1, <1>2, <2>1 DEF SubmitComment, Kinds
  <1>3. CASE StaffOrOP(c)
    <2>1. /\ {"lock", "unlock", "delete", "create", "hide"} \subseteq Kinds
          /\ {} \in SUBSET Threads /\ \A t \in Threads : {t} \in SUBSET Threads
      BY DEF Kinds
    <2>2. PICK k \in Kinds, ts \in SUBSET Threads : Issue(c, k, ts)
      BY <1>3, <2>1 DEF StaffOrOP
    <2> QED
      BY <1>1, <2>2
  <1>4. CASE Send(c)
    <2>1. /\ cmds' \in Seq(Clients \cup {Self}) /\ Len(cmds') = Len(cmds) + 1
          /\ \A i \in 1..Len(cmds) : cmds'[i] = cmds[i] /\ cmds[i] \in Clients \cup {Self}
          /\ cmds'[Len(cmds) + 1] = c
      BY <1>4, Appended DEF Send, SeqType
    <2>2. pc[c] = "send" /\ pc'[c] = "await" /\ \A d \in Clients \ {c} : pc'[d] = pc[d]
      BY <1>4 DEF Send, GetType
    <2>3. InCmds' /\ OnceInCmds' /\ Served1'
      <3> DEFINE n == Len(cmds)
      <3>1. n \in Nat /\ Len(cmds') = n + 1
        BY <2>1 DEF SeqType
      <3>2. \A i \in 1..n : cmds'[i] = cmds[i] /\ (cmds[i] \in Clients => pc[cmds[i]] = "await")
        BY <2>1 DEF InCmds
      <3>3. ASSUME NEW i \in 1..n
            PROVE  cmds'[i] # c /\ (cmds'[i] \in Clients => pc'[cmds'[i]] = "await")
        <4>1. cmds'[i] = cmds[i] /\ (cmds[i] \in Clients => pc[cmds[i]] = "await")
          BY <3>2
        <4>2. cmds[i] # c
          BY <4>1, <2>2
        <4> QED
          BY <4>1, <4>2, <2>2
      <3>4. \A i \in 1..(n + 1) : i \in 1..n \/ i = n + 1
        BY <3>1
      <3>5. cur # c
        BY <2>2 DEF Served1
      <3> HIDE DEF n
      <3>6. InCmds'
        BY <3>1, <3>3, <3>4, <2>1, <2>2 DEF InCmds, n
      <3>7. OnceInCmds'
        BY <3>1, <3>2, <3>3, <3>4, <2>1 DEF OnceInCmds, n
      <3>8. Served1'
        BY <1>4, <3>1, <3>2, <3>4, <3>5, <2>1, <2>2 DEF Send, Served1, n
      <3> QED
        BY <3>6, <3>7, <3>8
    <2>4. InReqs' /\ OnceInReqs'
      BY <1>4, <2>2 DEF Send, InReqs, OnceInReqs
    <2>5. HiveType' /\ CacheType' /\ PostType' /\ Settled'
      BY <1>4 DEF Send, PostType, Settled
    <2>6. SeqType'
      BY <1>4, <2>1 DEF Send, SeqType
    <2>7. GetType'
      BY <1>4 DEF Send, GetType
    <2>8. HandlerState'
      BY <1>4, <2>2 DEF Send, GetType, HandlerState
    <2> QED
      BY <2>3, <2>4, <2>5, <2>6, <2>7, <2>8
  <1>5. CASE CheckFields(c)
    <2>1. Channels'
      <3>1. PICK x \in {"send", "idle"} : pc' = [pc EXCEPT ![c] = x]
        BY <1>5 DEF CheckFields
      <3>2. UNCHANGED <<reqs, cmds, cur>> /\ pc[c] = "answered"
        BY <1>5 DEF CheckFields
      <3> QED
        BY <1>0, <3>1, <3>2, ChannelsKept
    <2>2. HiveType' /\ CacheType' /\ SeqType' /\ Settled'
      BY <1>5 DEF CheckFields, SeqType, Settled
    <2>3. GetType'
      BY <1>5 DEF CheckFields, GetType
    <2>4. cmd[c] \in Command
      BY <1>5 DEF CheckFields, HandlerState
    <2>5. PostType'
      BY <1>5, <2>4 DEF CheckFields, PostType, Command, Kinds
    <2>6. HandlerState'
      BY <1>5, <2>4 DEF CheckFields, GetType, PostType, HandlerState, Command, Kinds
    <2> QED
      BY <2>1, <2>2, <2>3, <2>5, <2>6 DEF Channels
  <1>6. CASE Finish(c)
    <2>1. Channels'
      BY <1>0, <1>6, ChannelsKept DEF Finish
    <2>2. HiveType' /\ CacheType' /\ SeqType' /\ Settled'
      BY <1>6 DEF Finish, SeqType, Settled
    <2>3. GetType' /\ PostType'
      BY <1>6 DEF Finish, GetType, PostType
    <2>4. HandlerState'
      BY <1>6 DEF Finish, GetType, PostType, HandlerState
    <2> QED
      BY <2>1, <2>2, <2>3, <2>4 DEF Channels
  <1> QED
    BY <1>2, <1>3, <1>4, <1>5, <1>6 DEF Begin, CmdStep

\* Every step of the sequencer.
LEMMA SequencerControl ==
  ASSUME Control, Sequencer
  PROVE  Control'
  <1> USE ConstantsAssumption
  <1> USE DEF Control, TypeOK, hiveVars, cacheVars, lockVars, seqVars, getVars, postVars
  <1>0. Channels
    BY DEF Channels
  <1>1. CASE AnswerPageRequest
    <2> DEFINE c == Head(reqs)
    <2>1. /\ c \in Clients /\ pc[c] = "reply" /\ c = reqs[1] /\ 1 \in 1..Len(reqs)
          /\ reqs' \in Seq(Clients) /\ Len(reqs') = Len(reqs) - 1 /\ Len(reqs) \in Nat
          /\ \A i \in 1..Len(reqs') : reqs'[i] = reqs[i + 1] /\ i + 1 \in 1..Len(reqs)
      BY <1>1, HeadTail DEF AnswerPageRequest, SeqType, InReqs
    <2>2. pc' = [pc EXCEPT ![c] = "relock"]
      BY <1>1 DEF AnswerPageRequest
    <2>3. tid[c] \in Threads
      BY <2>1 DEF HandlerState, GetSteps
    <2> HIDE DEF c
    <2>4. InReqs' /\ OnceInReqs'
      <3>1. ASSUME NEW i \in 1..Len(reqs')
            PROVE  pc'[reqs'[i]] = "reply"
        <4>1. reqs'[i] # c
          BY <2>1 DEF OnceInReqs
        <4>2. reqs'[i] = reqs[i + 1] /\ i + 1 \in 1..Len(reqs)
          BY <2>1
        <4>3. reqs[i + 1] \in Clients
          BY <4>2 DEF SeqType
        <4>4. pc[reqs[i + 1]] = "reply"
          BY <4>2 DEF InReqs
        <4> QED
          BY <4>1, <4>2, <4>3, <4>4, <2>2 DEF GetType
      <3>2. OnceInReqs'
        BY <2>1 DEF OnceInReqs
      <3> QED
        BY <3>1, <3>2 DEF InReqs
    <2>5. InCmds' /\ OnceInCmds' /\ Served1'
      BY <1>1, <2>1, <2>2 DEF AnswerPageRequest, InCmds, OnceInCmds, Served1, GetType
    <2>6. thread' \in [Threads -> Thread] /\ got' \in [Clients -> Page]
      <3>1. thread[tid[c]] \in Thread
        BY <2>3 DEF HiveType
      <3>2. [thread[tid[c]] EXCEPT !.form = @ + 1] \in Thread
        BY <3>1 DEF Thread
      <3>3. [ver |-> thread[tid[c]].ver, form |-> thread[tid[c]].form + 1] \in Page /\ Blank \in Page
        BY <3>1 DEF Thread, Page, Blank
      <3>4. \/ /\ thread' = [thread EXCEPT ![tid[c]] = [thread[tid[c]] EXCEPT !.form = @ + 1]]
               /\ got' = [got EXCEPT ![c] = [ver |-> thread[tid[c]].ver, form |-> thread[tid[c]].form + 1]]
            \/ thread' = thread /\ got' = [got EXCEPT ![c] = Blank]
        BY <1>1 DEF AnswerPageRequest, c
      <3> QED
        BY <2>3, <3>2, <3>3, <3>4 DEF HiveType, GetType
    <2>7. HiveType' /\ CacheType' /\ PostType' /\ Settled'
      BY <1>1, <2>6 DEF AnswerPageRequest, HiveType, CacheType, PostType, Settled
    <2>8. SeqType'
      BY <1>1, <2>1 DEF AnswerPageRequest, SeqType
    <2>9. GetType'
      BY <1>1, <2>1, <2>2, <2>6 DEF AnswerPageRequest, GetType, GetSteps
    <2>10. HandlerState'
      BY <1>1, <2>1, <2>2 DEF AnswerPageRequest, GetType, HandlerState, GetSteps, PtrSteps, CmdSteps
    <2> QED
      BY <2>4, <2>5, <2>7, <2>8, <2>9, <2>10
  <1>2. CASE TakeCommand
    <2> DEFINE c == Head(cmds)
    <2>1. /\ c \in Clients \cup {Self} /\ c = cmds[1] /\ 1 \in 1..Len(cmds)
          /\ cmds' \in Seq(Clients \cup {Self}) /\ Len(cmds') = Len(cmds) - 1 /\ Len(cmds) \in Nat
          /\ \A i \in 1..Len(cmds') : cmds'[i] = cmds[i + 1] /\ i + 1 \in 1..Len(cmds)
      BY <1>2, HeadTail DEF TakeCommand, SeqType
    <2>2. cur' = c /\ UNCHANGED pc
      BY <1>2 DEF TakeCommand
    <2> HIDE DEF c
    <2>3. InCmds' /\ OnceInCmds'
      <3>1. InCmds'
        BY ONLY <2>1, <2>2, Control DEF Control, InCmds
      <3>2. OnceInCmds'
        BY ONLY <2>1, Control DEF Control, OnceInCmds
      <3> QED
        BY ONLY <3>1, <3>2
    <2>4. Served1'
      BY <2>1, <2>2 DEF InCmds, OnceInCmds, Served1
    <2>5. InReqs' /\ OnceInReqs'
      BY <1>2 DEF TakeCommand, InReqs, OnceInReqs
    <2>6. SeqType' /\ Settled'
      BY <1>2, <2>1, <2>2 DEF TakeCommand, SeqType, Settled
    <2>7. HiveType' /\ CacheType' /\ PostType' /\ GetType' /\ HandlerState'
      BY <1>2 DEF TakeCommand, HiveType, CacheType, PostType, GetType, HandlerState
    <2> QED
      BY <2>3, <2>4, <2>5, <2>6, <2>7
  <1>3. CASE Body
    <2>1. cmd[cur] \in Command /\ cur \in Clients /\ spc = "run"
      BY <1>3 DEF Body, AddPost, CreateThread, CreateEmptyThread, LockThread, HidePost,
                  DeleteThread, ReadFields, Running, Served1, HandlerState, CmdSteps
    <2>2. Channels'
      BY <1>0, <1>3, ChannelsSame
         DEF Body, AddPost, CreateThread, CreateEmptyThread, LockThread, HidePost,
             DeleteThread, ReadFields, Change
    <2>3. CacheType' /\ GetType' /\ HandlerState'
      BY <1>3 DEF Body, AddPost, CreateThread, CreateEmptyThread, LockThread, HidePost,
                  DeleteThread, ReadFields, Change, CacheType, GetType, HandlerState
    <2>4. SeqType' /\ Settled'
      BY <1>3, <2>1 DEF Body, AddPost, CreateThread, CreateEmptyThread, LockThread, HidePost,
                  DeleteThread, ReadFields, Change, SeqType, Settled, Live, Command, Prunable
    <2>5. HiveType'
      <3> USE ThreadUpdates DEF HiveType
      <3>1. CASE AddPost
        <4>1. PICK ts : thread' = [t \in Threads |-> IF t \in ts THEN WithPost(thread[t]) ELSE thread[t]]
          BY <3>1 DEF AddPost, Change
        <4>2. acked' = acked
          BY <3>1 DEF AddPost, Change
        <4> QED
          BY <4>1, <4>2
      <3>2. CASE CreateThread
        <4>1. CASE Change({}, WithPost)
          <5>1. thread' = [t \in Threads |-> thread[t]] /\ acked' = acked
            BY <4>1 DEF Change
          <5> QED
            BY <5>1
        <4>2. CASE \E ts : Change(ts, OpenedOrPruned)
          <5>1. PICK ts : /\ thread' = [t \in Threads |-> IF t \in ts THEN OpenedOrPruned(thread[t]) ELSE thread[t]]
                          /\ acked' = acked
            BY <4>2 DEF Change
          <5> QED
            BY <5>1
        <4> QED
          BY <3>2, <4>1, <4>2 DEF CreateThread
      <3>3. CASE CreateEmptyThread
        <4>1. PICK u \in Threads, ts \in Prunable :
                /\ thread' = [t \in Threads |-> IF t = u THEN [thread[t] EXCEPT !.status = "live"]
                                                ELSE IF t \in ts THEN OpenedOrPruned(thread[t]) ELSE thread[t]]
                /\ acked' = acked
          BY <3>3 DEF CreateEmptyThread
        <4> QED
          BY <4>1
      <3>4. CASE LockThread
        <4>1. (cmd[cur].kind = "lock") \in BOOLEAN
          OBVIOUS
        <4>2. \A t \in Threads : WithLock(thread[t], cmd[cur].kind = "lock") \in Thread
          BY <4>1
        <4> QED
          BY <3>4, <4>2 DEF LockThread, Change
      <3>5. CASE HidePost
        BY <3>5 DEF HidePost, Change
      <3>6. CASE DeleteThread
        BY <3>6 DEF DeleteThread, Change
      <3>7. CASE ReadFields
        BY <3>7 DEF ReadFields
      <3> QED
        BY <1>3, <3>1, <3>2, <3>3, <3>4, <3>5, <3>6, <3>7 DEF Body
    <2>6. PostType'
      <3>1. CASE ReadFields
        <4>1. Live(cmd[cur].on) # {} => (CHOOSE t \in cmd[cur].on : TRUE) \in Threads
          BY <2>1 DEF Live, Command
        <4>2. fields' \in [Clients -> Nat]
          BY <3>1, <4>1 DEF ReadFields, PostType, HiveType, Thread
        <4> QED
          BY <3>1, <4>2 DEF ReadFields, PostType
      <3>2. CASE ~ReadFields
        BY <1>3, <3>2 DEF Body, AddPost, CreateThread, CreateEmptyThread, LockThread, HidePost,
                  DeleteThread, Change, PostType
      <3> QED
        BY <3>1, <3>2
    <2> QED
      BY <2>2, <2>3, <2>4, <2>5, <2>6 DEF Channels
  <1>4. CASE WantLock
    <2>1. Channels'
      BY <1>0, <1>4, ChannelsSame DEF WantLock
    <2> QED
      BY <1>4, <2>1 DEF WantLock, HiveType, CacheType, SeqType, GetType, PostType, HandlerState,
                        Channels, Settled
  <1>5. CASE ReplacePage
    <2>1. Channels'
      BY <1>0, <1>5, ChannelsSame DEF ReplacePage
    <2>2. HiveType' /\ GetType' /\ PostType' /\ HandlerState'
      BY <1>5 DEF ReplacePage, HiveType, GetType, PostType, HandlerState
    <2>3. Unused # {} => New \in Objects
      BY DEF New, Unused
    <2>4. CacheType'
      <3>1. PICK t \in todo : IF thread[t].status = "live" THEN SetStale(t) ELSE Purge(t)
        BY <1>5 DEF ReplacePage
      <3>2. Stale(t) \in BPage /\ t \in Threads
        <4>1. \A h \in BOOLEAN : Empty(h) \in BPage
          BY DEF Empty, BPage, Page, Blank
        <4>2. (t \in HiddenThreads) \in BOOLEAN /\ t \in Threads
          BY DEF SeqType
        <4> QED
          BY <4>1, <4>2 DEF Stale
      <3>3. page' \in [Threads -> Objects \cup {None}] /\ obj' \in [Objects -> BPage]
        BY <2>3, <3>1, <3>2 DEF SetStale, Purge, CacheType
      <3> QED
        BY <1>5, <3>3 DEF ReplacePage, Unlock, CacheType
    <2>5. SeqType'
      BY <1>5 DEF ReplacePage, SeqType, AfterPage
    <2>6. Settled'
      BY <1>5 DEF ReplacePage, Settled, AfterPage
    <2> QED
      BY <2>1, <2>2, <2>4, <2>5, <2>6 DEF Channels
  <1>6. CASE AddLockPost
    <2>1. Channels'
      BY <1>0, <1>6, ChannelsSame DEF AddLockPost
    <2>2. HiveType'
      <3>1. \A t \in Threads : WithPost(thread[t]) \in Thread
        BY ThreadUpdates DEF HiveType
      <3> QED
        BY <1>6, <3>1 DEF AddLockPost, HiveType
    <2>3. SeqType' /\ Settled'
      BY <1>6 DEF AddLockPost, SeqType, Settled, Live
    <2> QED
      BY <1>6, <2>1, <2>2, <2>3 DEF AddLockPost, CacheType, GetType, PostType, HandlerState, Channels
  <1>7. CASE NestedHiveReq
    <2>1. /\ cmds' \in Seq(Clients \cup {Self}) /\ Len(cmds') = Len(cmds) + 1 /\ Len(cmds) \in Nat
          /\ \A i \in 1..Len(cmds) : cmds'[i] = cmds[i]
          /\ cmds'[Len(cmds) + 1] = Self
      BY <1>7, Appended DEF NestedHiveReq, SeqType
    <2>2. InCmds' /\ OnceInCmds' /\ Served1'
      <3>1. UNCHANGED <<pc, cur>>
        BY <1>7 DEF NestedHiveReq
      <3>2. Self \notin Clients
        BY DEF ConstantsAssumption
      <3>3. \A i \in 1..Len(cmds') : i \in 1..Len(cmds) \/ i = Len(cmds) + 1
        BY ONLY <2>1
      <3>4. \A i \in 1..Len(cmds') : cmds'[i] \in Clients => i \in 1..Len(cmds) /\ cmds'[i] = cmds[i]
        BY ONLY <2>1, <3>2, <3>3
      <3>5. InCmds'
        BY ONLY <3>1, <3>4, Control DEF Control, InCmds
      <3>6. OnceInCmds'
        BY ONLY <3>4, Control DEF Control, OnceInCmds
      <3>7. Served1'
        BY ONLY <3>1, <3>4, Control DEF Control, Served1
      <3> QED
        BY ONLY <3>5, <3>6, <3>7
    <2>3. InReqs' /\ OnceInReqs'
      BY <1>7 DEF NestedHiveReq, InReqs, OnceInReqs
    <2>4. SeqType' /\ Settled'
      BY <1>7, <2>1 DEF NestedHiveReq, SeqType, Settled
    <2> QED
      BY <1>7, <2>2, <2>3, <2>4 DEF NestedHiveReq, HiveType, CacheType, GetType, PostType, HandlerState
  <1>8. CASE Return
    <2>1. InReqs' /\ OnceInReqs'
      <3>1. \A i \in 1..Len(reqs) : reqs[i] \in Clients
        BY DEF SeqType
      <3>2. \A c \in Clients : pc[c] = "reply" => pc'[c] = "reply"
        BY <1>8 DEF Return, Served1, GetType
      <3> QED
        BY <1>8, <3>1, <3>2 DEF Return, InReqs, OnceInReqs
    <2>2. InCmds' /\ OnceInCmds' /\ Served1'
      BY <1>8 DEF Return, InCmds, OnceInCmds, Served1, GetType
    <2>3. HiveType'
      BY <1>8 DEF Return, HiveType, Thread
    <2>4. SeqType' /\ Settled'
      BY <1>8 DEF Return, SeqType, Settled
    <2>5. GetType'
      BY <1>8 DEF Return, GetType, CmdSteps
    <2>6. HandlerState'
      BY <1>8 DEF Return, GetType, HandlerState, Served1, GetSteps, PtrSteps, CmdSteps
    <2> QED
      BY <1>8, <2>1, <2>2, <2>3, <2>4, <2>5, <2>6 DEF Return, CacheType, PostType
  <1> QED
    BY <1>1, <1>2, <1>3, <1>4, <1>5, <1>6, <1>7, <1>8 DEF Sequencer

LEMMA ControlStep == Control /\ [Next]_vars => Control'
  <1> SUFFICES ASSUME Control, [Next]_vars PROVE Control'
    OBVIOUS
  <1>1. CASE UNCHANGED vars
    BY <1>1 DEF vars, hiveVars, cacheVars, lockVars, seqVars, getVars, postVars, Control, TypeOK,
                HiveType, CacheType, SeqType, GetType, PostType, HandlerState, InReqs, OnceInReqs,
                InCmds, OnceInCmds, Served1, Settled
  <1>2. CASE Next
    BY <1>1, <1>2, GetControl, CommandControl, SequencerControl DEF Next, Quiet
  <1> QED
    BY <1>1, <1>2

THEOREM ControlInvariant == Spec => []Control
  BY InitControl, ControlStep, PTL DEF Spec

\* Every variable keeps to its type.
THEOREM TypeCorrect == Spec => []TypeOK
  <1>1. Control => TypeOK
    BY DEF Control
  <1> QED
    BY <1>1, ControlInvariant, PTL

-----------------------------------------------------------------------------
\* An id that has not been given out has no posts, and no command works on it.
Unborn ==
  /\ \A t \in Threads : thread[t].status = "unborn" => thread[t].posts = 0
  /\ \A t \in on : thread[t].status # "unborn"

\* An object is the page of one thread, and who holds it was asked for that one.
OneOwner ==
  /\ \A t, u \in Threads : page[t] # None /\ page[t] = page[u] => t = u
  /\ \A c \in Clients, t \in Threads : bp[c] # None /\ page[t] = bp[c] => tid[c] = t

\* A handler about to write to an object that is still in the map writes the
\* thread as it is; so is what it has written.
CarriesCurrent ==
  \A c \in Clients :
     pc[c] \in {"relock", "store"} /\ ~Changing(tid[c]) /\ page[tid[c]] = bp[c] =>
       /\ got[c].ver = thread[tid[c]].ver
       /\ pc[c] = "store" /\ "data" \notin half[c] => obj[bp[c]].data.ver = thread[tid[c]].ver
       /\ pc[c] = "store" /\ "len" \notin half[c] => obj[bp[c]].len.ver = thread[tid[c]].ver

Coherence == Unborn /\ OneOwner /\ CacheCoherent /\ CarriesCurrent

LEMMA InitCoherence == Init => Coherence
  <1> SUFFICES ASSUME Init PROVE Coherence
    OBVIOUS
  <1> USE ConstantsAssumption DEF Init
  <1>1. Unborn /\ CacheCoherent /\ CarriesCurrent
    BY DEF Unborn, CacheCoherent, CarriesCurrent, Empty, Changing
  <1>2. OneOwner
    BY DEF OneOwner
  <1> QED
    BY <1>1, <1>2 DEF Coherence

\* Steps that touch neither the threads nor the cache, nor what Get carries.
LEMMA CoherenceKept ==
  ASSUME Coherence, UNCHANGED <<thread, page, obj, todo, bp, tid, got, half>>, on' \subseteq on,
         \A c \in Clients : pc'[c] \in {"relock", "store"} => pc'[c] = pc[c]
  PROVE  Coherence'
  BY DEF Coherence, Unborn, OneOwner, CacheCoherent, CarriesCurrent, Changing

\* What a thread without a page may become, or remain.
Quiescent(r, s) ==
  /\ s.ver = r.ver /\ s.posts = r.posts
  /\ s.status = r.status \/ (r.status = "unborn" /\ s.status = "live")

\* A closure that changes the threads ts and has their pages to replace.
LEMMA CoherenceChange ==
  ASSUME Coherence, todo = {}, NEW ts \in SUBSET Threads, on' = ts, todo' = ts,
         \A t \in Threads \ ts : thread'[t] = thread[t] \/ Quiescent(thread[t], thread'[t]),
         \A t \in ts : thread'[t].status # "unborn",
         UNCHANGED <<page, obj, bp, tid, got, half, pc>>, GetType, HandlerState
  PROVE  Coherence'
  <1>1. \A c \in Clients : pc[c] \in {"relock", "store"} => tid[c] \in Threads
    BY DEF HandlerState, GetSteps
  <1>2. Unborn' /\ OneOwner'
    BY DEF Coherence, Unborn, OneOwner, Quiescent
  <1>3. CacheCoherent'
    BY DEF Coherence, CacheCoherent, Changing, Unborn, Quiescent
  <1>4. CarriesCurrent'
    BY <1>1 DEF Coherence, CarriesCurrent, Changing, Quiescent
  <1> QED
    BY <1>2, <1>3, <1>4 DEF Coherence

LEMMA GetCoherence ==
  ASSUME Control, Coherence, NEW c \in Clients, GetStep(c) \/ \E t \in Threads : Get(c, t)
  PROVE  Coherence'
  <1> USE ConstantsAssumption
  <1> USE DEF Control, TypeOK, HiveType, CacheType, GetType, hiveVars, cacheVars, seqVars, Changing
  <1>a. /\ pc[c] \in GetSteps => tid[c] \in Threads
        /\ pc[c] \in PtrSteps <=> bp[c] # None
    BY DEF HandlerState
  <1> USE DEF GetSteps, PtrSteps
  <1>1. CASE \E t \in Threads : Get(c, t)
    <2> PICK t \in Threads : Get(c, t)
      BY <1>1
    <2>1. Unborn' /\ CacheCoherent'
      BY DEF Get, Coherence, Unborn, CacheCoherent
    <2>2. OneOwner'
      BY <1>a DEF Get, Coherence, OneOwner
    <2>3. CarriesCurrent'
      BY DEF Get, Coherence, CarriesCurrent
    <2> QED
      BY <2>1, <2>2, <2>3 DEF Coherence
  <1>2. CASE LookupMiss(c)
    <2>1. Unborn' /\ CacheCoherent'
      BY <1>2 DEF LookupMiss, Coherence, Unborn, CacheCoherent
    <2>2. OneOwner'
      BY <1>2, <1>a DEF LookupMiss, Coherence, OneOwner
    <2>3. CarriesCurrent'
      BY <1>2 DEF LookupMiss, Coherence, CarriesCurrent
    <2> QED
      BY <2>1, <2>2, <2>3 DEF Coherence
  <1>3. CASE LookupFresh(c) \/ LookupStale(c)
    <2>1. /\ UNCHANGED <<thread, acked, page, obj, on, todo, tid, got, half>>
          /\ bp' = [bp EXCEPT ![c] = page[tid[c]]]
          /\ tid[c] \in Threads
          /\ \E x \in {"serve", "request"} : pc' = [pc EXCEPT ![c] = x]
      BY <1>3, <1>a DEF LookupFresh, LookupStale, getVars
    <2>2. Unborn' /\ CacheCoherent'
      BY <2>1 DEF Coherence, Unborn, CacheCoherent
    <2>3. OneOwner'
      BY <2>1 DEF Coherence, OneOwner
    <2>4. CarriesCurrent'
      BY <2>1 DEF Coherence, CarriesCurrent
    <2> QED
      BY <2>2, <2>3, <2>4 DEF Coherence
  <1>4. CASE SendPageRequest(c)
    BY <1>4, CoherenceKept DEF SendPageRequest, getVars
  <1>5. CASE Relock(c)
    <2>1. Unborn' /\ CacheCoherent' /\ OneOwner'
      BY <1>5 DEF Relock, Coherence, Unborn, CacheCoherent, OneOwner
    <2>2. CarriesCurrent'
      BY <1>5 DEF Relock, Coherence, CarriesCurrent, Halves
    <2> QED
      BY <2>1, <2>2 DEF Coherence
  <1>6. CASE \E h \in Halves : StoreHalf(c, h)
    <2> PICK h \in Halves : StoreHalf(c, h)
      BY <1>6
    <2> DEFINE o == bp[c]
    <2>1. o \in Objects /\ tid[c] \in Threads /\ pc[c] = "store"
      BY <1>a DEF StoreHalf
    <2>2. /\ \A q \in Objects \ {o} : obj'[q] = obj[q]
          /\ obj'[o].fresh = obj[o].fresh
          /\ obj'[o].data = IF h = "data" THEN got[c] ELSE obj[o].data
          /\ obj'[o].len = IF h = "data" THEN obj[o].len ELSE got[c]
      BY <2>1 DEF StoreHalf, Write, BPage
    <2>3. /\ UNCHANGED <<thread, page, on, todo, tid, bp, got, pc>>
          /\ half' = [half EXCEPT ![c] = half[c] \ {h}]
      BY DEF StoreHalf
    <2>4. ASSUME NEW t \in Threads, t \notin todo, page[t] = o
          PROVE  tid[c] = t /\ got[c].ver = thread[t].ver
      BY <2>1, <2>4 DEF Coherence, OneOwner, CarriesCurrent
    <2> HIDE DEF o
    <2>5. CacheCoherent'
      BY <2>1, <2>2, <2>3, <2>4 DEF Coherence, CacheCoherent
    <2>6. Unborn' /\ OneOwner'
      BY <2>3 DEF Coherence, Unborn, OneOwner
    <2>7. CarriesCurrent'
      <3> SUFFICES ASSUME NEW d \in Clients, pc[d] \in {"relock", "store"}, tid[d] \notin todo,
                          page[tid[d]] = bp[d]
                   PROVE  /\ got[d].ver = thread[tid[d]].ver
                          /\ pc[d] = "store" /\ "data" \notin half'[d] => obj'[bp[d]].data.ver = thread[tid[d]].ver
                          /\ pc[d] = "store" /\ "len" \notin half'[d] => obj'[bp[d]].len.ver = thread[tid[d]].ver
        BY <2>3 DEF CarriesCurrent
      <3>1. tid[d] \in Threads /\ bp[d] \in Objects
        BY DEF HandlerState
      <3>2. /\ got[d].ver = thread[tid[d]].ver
            /\ pc[d] = "store" /\ "data" \notin half[d] => obj[bp[d]].data.ver = thread[tid[d]].ver
            /\ pc[d] = "store" /\ "len" \notin half[d] => obj[bp[d]].len.ver = thread[tid[d]].ver
        BY DEF Coherence, CarriesCurrent
      <3>3. CASE bp[d] # o
        <4>1. d # c
          BY <3>3 DEF o
        <4> QED
          BY <3>1, <3>2, <3>3, <4>1, <2>2, <2>3
      <3>4. CASE bp[d] = o
        <4>1. got[c].ver = thread[tid[d]].ver
          BY <2>4, <3>1, <3>4
        <4>2. "data" \notin half'[d] => h = "data" \/ "data" \notin half[d]
          BY <2>3
        <4>3. "len" \notin half'[d] => h # "data" \/ "len" \notin half[d]
          BY <2>3 DEF Halves
        <4> QED
          BY <3>2, <3>4, <4>1, <4>2, <4>3, <2>2
      <3> QED
        BY <3>3, <3>4
    <2> QED
      BY <2>5, <2>6, <2>7 DEF Coherence
  <1>7. CASE MarkFresh(c)
    <2> DEFINE o == bp[c]
    <2>1. o \in Objects /\ tid[c] \in Threads /\ pc[c] = "store" /\ half[c] = {}
      BY <1>7, <1>a DEF MarkFresh
    <2>2. /\ \A q \in Objects \ {o} : obj'[q] = obj[q]
          /\ obj'[o].data = obj[o].data /\ obj'[o].len = obj[o].len
      BY <1>7, <2>1 DEF MarkFresh, BPage
    <2>3. /\ UNCHANGED <<thread, page, on, todo, tid, bp, got, half>>
          /\ pc' = [pc EXCEPT ![c] = "serve"]
      BY <1>7 DEF MarkFresh, getVars
    <2>4. ASSUME NEW t \in Threads, t \notin todo, page[t] = o
          PROVE  obj[o].data.ver = thread[t].ver /\ obj[o].len.ver = thread[t].ver
      BY <2>1, <2>4 DEF Coherence, OneOwner, CarriesCurrent
    <2> HIDE DEF o
    <2>5. CacheCoherent'
      BY <2>1, <2>2, <2>3, <2>4 DEF Coherence, CacheCoherent
    <2>6. Unborn' /\ OneOwner'
      BY <2>3 DEF Coherence, Unborn, OneOwner
    <2>7. \A d \in Clients : pc[d] \in {"relock", "store"} => bp[d] \in Objects
      BY DEF HandlerState
    <2>8. CarriesCurrent'
      BY <2>2, <2>3, <2>7 DEF Coherence, CarriesCurrent
    <2> QED
      BY <2>5, <2>6, <2>8 DEF Coherence
  <1>8. CASE Serve(c)
    <2>1. Unborn' /\ CacheCoherent'
      BY <1>8 DEF Serve, Coherence, Unborn, CacheCoherent
    <2>2. OneOwner'
      BY <1>8 DEF Serve, Coherence, OneOwner
    <2>3. CarriesCurrent'
      BY <1>8 DEF Serve, Coherence, CarriesCurrent
    <2> QED
      BY <2>1, <2>2, <2>3 DEF Coherence
  <1> QED
    BY <1>1, <1>2, <1>3, <1>4, <1>5, <1>6, <1>7, <1>8 DEF GetStep

LEMMA CommandCoherence ==
  ASSUME Control, Coherence, NEW c \in Clients, Begin(c) \/ CmdStep(c)
  PROVE  Coherence'
  <1>1. /\ UNCHANGED <<thread, page, obj, on, todo, bp, tid, got, half>>
        /\ \E x \in {"send", "await", "idle"} : pc' = [pc EXCEPT ![c] = x]
    BY DEF Begin, CmdStep, SubmitComment, StaffOrOP, Issue, Send, CheckFields, Finish,
           hiveVars, cacheVars, seqVars, getVars
  <1> QED
    BY <1>1, CoherenceKept DEF Control, TypeOK, GetType

LEMMA BodyCoherence ==
  ASSUME Control, Coherence, Body
  PROVE  Coherence'
  <1> USE ConstantsAssumption
  <1> USE DEF Control, TypeOK, HiveType, hiveVars, cacheVars, seqVars, getVars
  <1>1. /\ todo = {} /\ cur \in Clients /\ cmd[cur] \in Command
        /\ UNCHANGED <<page, obj, bp, tid, got, half, pc>>
    BY DEF Body, AddPost, CreateThread, CreateEmptyThread, LockThread, HidePost, DeleteThread,
           ReadFields, Change, Running, Settled, Served1, HandlerState, CmdSteps
  <1>2. Live(cmd[cur].on) \in SUBSET Threads
    BY <1>1 DEF Live, Command
  <1>3. ASSUME NEW ts \in SUBSET Threads, on' = ts, todo' = ts,
               \A t \in Threads \ ts : thread'[t] = thread[t] \/ Quiescent(thread[t], thread'[t]),
               \A t \in ts : thread'[t].status # "unborn"
        PROVE  Coherence'
    BY <1>1, <1>3, CoherenceChange
  <1>4. CASE AddPost
    <2>1. PICK ts \in SUBSET Threads :
            /\ ts \subseteq Live(cmd[cur].on) /\ on' = ts /\ todo' = ts
            /\ thread' = [t \in Threads |-> IF t \in ts THEN WithPost(thread[t]) ELSE thread[t]]
      <3>1. CASE Change({}, WithPost)
        BY <3>1 DEF Change
      <3>2. CASE Change({t \in Live(cmd[cur].on) : thread[t].locked => cur \in Staff}, WithPost)
        BY <1>2, <3>2 DEF Change
      <3> QED
        BY <1>4, <3>1, <3>2 DEF AddPost
    <2>2. \A t \in ts : thread'[t].status = thread[t].status /\ thread[t].status = "live"
      BY <2>1 DEF WithPost, Edited, Live, Thread
    <2> QED
      BY <1>3, <2>1, <2>2
  <1>5. CASE CreateThread
    <2>1. CASE Change({}, WithPost)
      <3>1. on' = {} /\ todo' = {} /\ thread' = [t \in Threads |-> thread[t]]
        BY <2>1 DEF Change
      <3> QED
        BY <1>3, <3>1
    <2>2. CASE \E ts \in SUBSET Threads : Change(ts, OpenedOrPruned)
      <3>1. PICK ts \in SUBSET Threads :
              /\ on' = ts /\ todo' = ts
              /\ thread' = [t \in Threads |-> IF t \in ts THEN OpenedOrPruned(thread[t]) ELSE thread[t]]
        BY <2>2 DEF Change
      <3>2. \A t \in Threads : OpenedOrPruned(thread[t]).status # "unborn"
        BY ThreadStatus
      <3> QED
        BY <1>3, <3>1, <3>2
    <2>3. \A t \in Threads, ts \in Prunable : {t} \cup ts \in SUBSET Threads
      BY DEF Prunable, Live
    <2> QED
      BY <1>5, <2>1, <2>2, <2>3 DEF CreateThread
  <1>6. CASE CreateEmptyThread
    <2>1. PICK u \in Threads, ts \in Prunable :
            /\ thread[u].status = "unborn" /\ on' = ts /\ todo' = ts
            /\ thread' = [t \in Threads |-> IF t = u THEN [thread[t] EXCEPT !.status = "live"]
                                            ELSE IF t \in ts THEN OpenedOrPruned(thread[t]) ELSE thread[t]]
      BY <1>6 DEF CreateEmptyThread
    <2>2. ts \in SUBSET Threads /\ u \notin ts
      BY <2>1 DEF Prunable, Live
    <2>3. Quiescent(thread[u], thread'[u])
      BY <2>1 DEF Quiescent, Thread
    <2>4. \A t \in Threads : OpenedOrPruned(thread[t]).status # "unborn"
      BY ThreadStatus
    <2>5. /\ \A t \in Threads \ ts : thread'[t] = thread[t] \/ Quiescent(thread[t], thread'[t])
          /\ \A t \in ts : thread'[t].status # "unborn"
      BY <2>1, <2>2, <2>3, <2>4
    <2> QED
      BY <1>3, <2>1, <2>2, <2>5
  <1>7. CASE LockThread \/ HidePost \/ DeleteThread
    <2> DEFINE ts == Live(cmd[cur].on)
    <2>1. on' = ts /\ todo' = ts /\ \A t \in Threads \ ts : thread'[t] = thread[t]
      BY <1>7 DEF LockThread, HidePost, DeleteThread, Change
    <2>2. \A t \in ts : t \in Threads /\ thread[t] \in Thread /\ thread[t].status = "live"
      BY <1>2 DEF Live
    <2>3. (cmd[cur].kind = "lock") \in BOOLEAN
      OBVIOUS
    <2> HIDE DEF ts
    <2>4. \A t \in ts : thread'[t].status # "unborn"
      <3> SUFFICES ASSUME NEW t \in ts PROVE thread'[t].status # "unborn"
        OBVIOUS
      <3>1. \/ thread'[t] = WithLock(thread[t], cmd[cur].kind = "lock")
            \/ thread'[t] = Edited(thread[t])
            \/ thread'[t] = Edited([thread[t] EXCEPT !.status = "deleted"])
        BY <1>7, <2>2 DEF LockThread, HidePost, DeleteThread, Change, ts
      <3>2. thread[t] \in Thread /\ thread[t].status = "live"
        BY <2>2
      <3>3. WithLock(thread[t], cmd[cur].kind = "lock").status = thread[t].status
        BY <2>3, <3>2, ThreadStatus
      <3>4. /\ Edited(thread[t]).status = thread[t].status
            /\ Edited([thread[t] EXCEPT !.status = "deleted"]).status = "deleted"
        BY <3>2, ThreadStatus
      <3> QED
        BY <3>1, <3>2, <3>3, <3>4
    <2>5. ts \in SUBSET Threads
      BY <1>2 DEF ts
    <2> QED
      BY <1>3, <2>1, <2>4, <2>5
  <1>8. CASE ReadFields
    BY <1>1, <1>8, CoherenceKept DEF ReadFields
  <1> QED
    BY <1>4, <1>5, <1>6, <1>7, <1>8 DEF Body

LEMMA SequencerCoherence ==
  ASSUME Control, Coherence, Sequencer
  PROVE  Coherence'
  <1> USE ConstantsAssumption
  <1> USE DEF Control, TypeOK, HiveType, hiveVars, cacheVars, seqVars, getVars, Changing
  <1>1. CASE AnswerPageRequest
    <2> DEFINE c == Head(reqs)
    <2>1. c \in Clients /\ pc[c] = "reply" /\ todo = {}
      <3>1. reqs \in Seq(Clients) /\ reqs # <<>> /\ spc = "select"
        BY <1>1 DEF AnswerPageRequest, SeqType
      <3>2. c \in Clients /\ c = reqs[1] /\ 1 \in 1..Len(reqs)
        BY <3>1, HeadTail
      <3> QED
        BY <3>1, <3>2 DEF InReqs, Settled
    <2>2. tid[c] \in Threads /\ bp[c] \in Objects
      BY <2>1 DEF HandlerState, GetSteps, PtrSteps, GetType
    <2>3. /\ UNCHANGED <<page, obj, on, todo, tid, bp, half>>
          /\ pc' = [pc EXCEPT ![c] = "relock"]
      BY <1>1 DEF AnswerPageRequest
    <2>a. /\ \A d \in Clients \ {c} : got'[d] = got[d]
          /\ thread[tid[c]].status = "live" => got'[c].ver = thread[tid[c]].ver
      BY <1>1, <2>1 DEF AnswerPageRequest, GetType
    <2>b. \A t \in Threads : /\ thread'[t].status = thread[t].status /\ thread'[t].ver = thread[t].ver
                            /\ thread'[t].posts = thread[t].posts
      <3>1. thread' = [thread EXCEPT ![tid[c]] = [thread[tid[c]] EXCEPT !.form = @ + 1]] \/ thread' = thread
        BY <1>1 DEF AnswerPageRequest
      <3> QED
        BY <2>2, <3>1 DEF Thread
    <2> HIDE DEF c
    <2>4. Unborn' /\ OneOwner' /\ CacheCoherent'
      <3>1. Unborn'
        BY <2>3, <2>b DEF Coherence, Unborn, SeqType
      <3>2. OneOwner'
        BY <2>3 DEF Coherence, OneOwner
      <3>3. CacheCoherent'
        BY <2>3, <2>b DEF Coherence, CacheCoherent
      <3> QED
        BY <3>1, <3>2, <3>3
    <2>5. page[tid[c]] = bp[c] => got'[c].ver = thread[tid[c]].ver
      BY <2>1, <2>2, <2>a DEF Coherence, CacheCoherent
    <2>6. \A d \in Clients : pc[d] \in {"relock", "store"} => tid[d] \in Threads
      BY DEF HandlerState, GetSteps
    <2>7. CarriesCurrent'
      BY <2>1, <2>2, <2>3, <2>5, <2>6, <2>a, <2>b DEF Coherence, CarriesCurrent, GetType
    <2> QED
      BY <2>4, <2>7 DEF Coherence
  <1>2. CASE TakeCommand \/ WantLock \/ NestedHiveReq
    BY <1>2, CoherenceKept DEF TakeCommand, WantLock, NestedHiveReq
  <1>3. CASE Body
    BY <1>3, BodyCoherence
  <1>4. CASE ReplacePage
    <2>1. PICK t \in todo : /\ IF thread[t].status = "live" THEN SetStale(t) ELSE Purge(t)
                            /\ todo' = todo \ {t}
      BY <1>4 DEF ReplacePage
    <2>2. t \in Threads /\ UNCHANGED <<thread, on, bp, tid, got, half, pc>>
      BY <1>4 DEF ReplacePage, SeqType
    <2>3. CASE thread[t].status = "live"
      <3>1. New \in Unused
        BY <2>1, <2>3 DEF SetStale, New
      <3> DEFINE o == New
      <3>2. /\ o \in Objects /\ \A u \in Threads : page[u] # o
            /\ \A c \in Clients : bp[c] # o
        BY <3>1 DEF Unused
      <3>3. /\ page' = [page EXCEPT ![t] = o]
            /\ obj' = [obj EXCEPT ![o] = Stale(t)]
        BY <2>1, <2>3 DEF SetStale
      <3> HIDE DEF o
      <3>4. Unborn' /\ OneOwner'
        BY <2>2, <3>2, <3>3 DEF Coherence, Unborn, OneOwner, CacheType
      <3>5. CacheCoherent'
        BY <2>1, <2>2, <2>3, <3>2, <3>3 DEF Coherence, CacheCoherent, CacheType, Stale, Empty
      <3>6. \A c \in Clients : pc[c] \in {"relock", "store"} => tid[c] \in Threads /\ bp[c] \in Objects
        BY DEF HandlerState, GetSteps, PtrSteps, GetType
      <3>7. CarriesCurrent'
        BY <2>1, <2>2, <3>2, <3>3, <3>6 DEF Coherence, CarriesCurrent, CacheType
      <3> QED
        BY <3>4, <3>5, <3>7 DEF Coherence
    <2>4. CASE thread[t].status # "live"
      <3>1. page' = [page EXCEPT ![t] = None] /\ obj' = obj
        BY <2>1, <2>4 DEF Purge
      <3>2. Unborn' /\ OneOwner'
        BY <2>2, <3>1 DEF Coherence, Unborn, OneOwner, CacheType
      <3>3. CacheCoherent'
        BY <2>1, <2>2, <2>4, <3>1 DEF Coherence, CacheCoherent, CacheType
      <3>4. \A c \in Clients : pc[c] \in {"relock", "store"} => tid[c] \in Threads /\ bp[c] \in Objects
        BY DEF HandlerState, GetSteps, PtrSteps, GetType
      <3>5. CarriesCurrent'
        BY <2>1, <2>2, <3>1, <3>4 DEF Coherence, CarriesCurrent, CacheType
      <3> QED
        BY <3>2, <3>3, <3>5 DEF Coherence
    <2> QED
      BY <2>3, <2>4
  <1>5. CASE AddLockPost
    <2>1. todo = {} /\ Live(on) \in SUBSET Threads /\ Live(on) \subseteq on
      BY <1>5 DEF AddLockPost, Settled, SeqType, Live
    <2>2. \A t \in Threads : thread'[t] = IF t \in Live(on) THEN WithPost(thread[t]) ELSE thread[t]
      BY <1>5 DEF AddLockPost
    <2>3. \A t \in Live(on) : thread'[t].status # "unborn"
      <3>1. \A t \in Threads : WithPost(thread[t]).status = thread[t].status
        BY ThreadStatus
      <3> QED
        BY <2>1, <2>2, <3>1 DEF Coherence, Unborn
    <2> QED
      BY <1>5, <2>1, <2>2, <2>3, CoherenceChange DEF AddLockPost
  <1>6. CASE Return
    BY <1>6, CoherenceKept DEF Return, GetType
  <1> QED
    BY <1>1, <1>2, <1>3, <1>4, <1>5, <1>6 DEF Sequencer

LEMMA CoherenceStep == Control /\ Coherence /\ [Next]_vars => Coherence'
  <1> SUFFICES ASSUME Control, Coherence, [Next]_vars PROVE Coherence'
    OBVIOUS
  <1>1. CASE UNCHANGED vars
    BY <1>1, CoherenceKept DEF vars, hiveVars, cacheVars, seqVars, getVars
  <1>2. CASE Next
    BY <1>1, <1>2, GetCoherence, CommandCoherence, SequencerCoherence DEF Next, Quiet
  <1> QED
    BY <1>1, <1>2

\* Whatever the order in which handlers and sequencer run, a fresh page in the
\* cache is the thread as it is.
THEOREM CacheIsCoherent == Spec => []CacheCoherent
  <1>1. Init => Control /\ Coherence
    BY InitControl, InitCoherence
  <1>2. Control /\ Coherence /\ [Next]_vars => (Control /\ Coherence)'
    BY ControlStep, CoherenceStep
  <1>3. Control /\ Coherence => CacheCoherent
    BY DEF Coherence
  <1> QED
    BY <1>1, <1>2, <1>3, PTL DEF Spec

-----------------------------------------------------------------------------
(* What is served.                                                         *)
(*                                                                         *)
(* The page cache serves nobody less than what had been acknowledged when  *)
(* his request came in.  CacheCoherent is about the map; ServedCurrent is  *)
(* about pages that may have left it: a handler keeps its object while     *)
(* others, of which some came earlier, still write to it.  Answers adds    *)
(* that nobody who holds an answer for an object can spoil it for another  *)
(* who looked it up, and PageFits that this was so already when it was     *)
(* looked up.                                                              *)

\* A page that answers a request for a thread, now r, made when version f of it
\* was acknowledged.
Fits(r, f, p) ==
  \/ p.ver >= f
  \/ p = Blank /\ r.status = "deleted" /\ f < r.ver

\* What handlers were told of is in the thread; a running command goes beyond it.
Acknowledged ==
  /\ \A t \in Threads : acked[t] <= thread[t].ver
  /\ \A t \in Threads : t \in todo => acked[t] < thread[t].ver
  /\ \A t \in Threads : page[t] # None => thread[t].status # "unborn"

\* A thread that is gone while a handler waits for its page went after the
\* request came in.
Floors ==
  \A c \in Clients :
     /\ pc[c] \in GetSteps => floor[c] <= acked[tid[c]]
     /\ pc[c] \in PtrSteps => /\ thread[tid[c]].status # "unborn"
                              /\ thread[tid[c]].status = "deleted" => floor[c] < thread[tid[c]].ver

SameThread == \A c, d \in Clients : bp[c] # None /\ bp[d] = bp[c] => tid[d] = tid[c]

Answered(d) == pc[d] \in {"relock", "store"}

\* An answer on its way to an object fits everybody who holds the object.
Answers ==
  \A c, d \in Clients :
     pc[c] \in PtrSteps /\ Answered(d) /\ bp[d] = bp[c] => Fits(thread[tid[c]], floor[c], got[d])

\* The halves of his object that a handler will not write again himself.
HasData(c) == pc[c] = "serve" \/ (pc[c] = "store" /\ "data" \notin half[c])
HasLen(c)  == pc[c] = "serve" \/ (pc[c] = "store" /\ "len" \notin half[c])

HeldFits ==
  \A c \in Clients :
     /\ HasData(c) => Fits(thread[tid[c]], floor[c], obj[bp[c]].data)
     /\ HasLen(c) => Fits(thread[tid[c]], floor[c], obj[bp[c]].len)

\* What the next handler to look a page up will find, or find written over.
PageFits ==
  \A t \in Threads : page[t] # None =>
     /\ obj[page[t]].fresh => obj[page[t]].data.ver >= acked[t] /\ obj[page[t]].len.ver >= acked[t]
     /\ \A d \in Clients : Answered(d) /\ bp[d] = page[t] =>
          /\ got[d].ver >= acked[t]
          /\ HasData(d) => obj[page[t]].data.ver >= acked[t]
          /\ HasLen(d) => obj[page[t]].len.ver >= acked[t]

Serving == Acknowledged /\ Floors /\ SameThread /\ Answers /\ HeldFits /\ PageFits /\ ServedCurrent

-----------------------------------------------------------------------------
\* What a step may do to a thread: only forward, and a deletion is a new version.
Forward(r, s) ==
  /\ s.ver >= r.ver
  /\ r.status = "deleted" => s.status = "deleted"
  /\ r.status # "unborn" => s.status # "unborn"
  /\ s.status = "deleted" => r.status = "deleted" \/ s.ver > r.ver

LEMMA FitsLater ==
  ASSUME NEW r \in Thread, NEW s \in Thread, Forward(r, s), NEW f \in Nat, NEW p \in Page,
         Fits(r, f, p)
  PROVE  Fits(s, f, p)
  BY DEF Fits, Forward, Thread, Page

LEMMA ForwardUpdates ==
  ASSUME NEW r \in Thread
  PROVE  /\ Forward(r, r)
         /\ Forward(r, Edited(r)) /\ Edited(r).ver > r.ver
         /\ Forward(r, WithPost(r)) /\ WithPost(r).ver > r.ver
         /\ \A b \in BOOLEAN : Forward(r, WithLock(r, b)) /\ WithLock(r, b).ver > r.ver
         /\ LET q == WithPost([r EXCEPT !.status = "live"])
            IN  r.status = "unborn" => Forward(r, q) /\ q.ver > r.ver
         /\ LET q == Edited([r EXCEPT !.status = "deleted"])
            IN  Forward(r, q) /\ q.ver > r.ver
         /\ Forward(r, OpenedOrPruned(r)) /\ OpenedOrPruned(r).ver > r.ver
  <1>1. Forward(r, r)
    BY DEF Forward, Thread
  <1>2. /\ Forward(r, Edited(r)) /\ Edited(r).ver > r.ver
        /\ Forward(r, WithPost(r)) /\ WithPost(r).ver > r.ver
    BY DEF Forward, Thread, Edited, WithPost
  <1>3. \A b \in BOOLEAN : Forward(r, WithLock(r, b)) /\ WithLock(r, b).ver > r.ver
    BY DEF Forward, Thread, Edited, WithLock
  <1>4. LET q == WithPost([r EXCEPT !.status = "live"])
        IN  r.status = "unborn" => Forward(r, q) /\ q.ver > r.ver
    BY DEF Forward, Thread, Edited, WithPost
  <1>5. LET q == Edited([r EXCEPT !.status = "deleted"])
        IN  Forward(r, q) /\ q.ver > r.ver
    BY DEF Forward, Thread, Edited
  <1>6. Forward(r, OpenedOrPruned(r)) /\ OpenedOrPruned(r).ver > r.ver
    BY <1>4, <1>5 DEF OpenedOrPruned
  <1> QED
    BY <1>1, <1>2, <1>3, <1>4, <1>5, <1>6

\* What is known of a handler from the step it is at.
LEMMA Handlers ==
  ASSUME Control, NEW c \in Clients
  PROVE  /\ pc[c] \in GetSteps => tid[c] \in Threads /\ thread[tid[c]] \in Thread
         /\ pc[c] \in PtrSteps => /\ pc[c] \in GetSteps /\ bp[c] \in Objects
                                  /\ obj[bp[c]].data \in Page /\ obj[bp[c]].len \in Page
         /\ Answered(c) \/ HasData(c) \/ HasLen(c) => pc[c] \in PtrSteps
         /\ floor[c] \in Nat /\ got[c] \in Page
         /\ bp[c] # None <=> pc[c] \in PtrSteps
  <1> USE ConstantsAssumption
  <1>1. /\ pc[c] \in GetSteps => tid[c] \in Threads /\ thread[tid[c]] \in Thread
        /\ floor[c] \in Nat /\ got[c] \in Page
        /\ bp[c] # None <=> pc[c] \in PtrSteps
    BY DEF Control, TypeOK, HiveType, GetType, HandlerState
  <1>2. Answered(c) \/ HasData(c) \/ HasLen(c) => pc[c] \in PtrSteps
    BY DEF Answered, HasData, HasLen, PtrSteps, GetSteps
  <1>3. pc[c] \in PtrSteps => pc[c] \in GetSteps /\ bp[c] \in Objects
    BY <1>1 DEF Control, TypeOK, GetType, PtrSteps
  <1>4. pc[c] \in PtrSteps => obj[bp[c]].data \in Page /\ obj[bp[c]].len \in Page
    BY <1>3 DEF Control, TypeOK, CacheType, BPage
  <1> QED
    BY <1>1, <1>2, <1>3, <1>4

LEMMA InitServing == Init => Serving
  <1> SUFFICES ASSUME Init PROVE Serving
    OBVIOUS
  <1> USE ConstantsAssumption DEF Init
  <1>1. Acknowledged
    BY DEF Acknowledged
  <1>2. Floors /\ SameThread /\ Answers /\ HeldFits
    BY DEF Floors, SameThread, Answers, HeldFits, Answered, HasData, HasLen, GetSteps, PtrSteps
  <1>3. PageFits
    BY DEF PageFits, Empty, Answered
  <1>4. ServedCurrent
    BY DEF ServedCurrent
  <1> QED
    BY <1>1, <1>2, <1>3, <1>4 DEF Serving

-----------------------------------------------------------------------------
\* A handler stays where it is, or its step is none of those that matter here.
SameStep(c) ==
  \/ pc'[c] = pc[c]
  \/ pc[c] \notin GetSteps /\ pc'[c] \notin GetSteps
  \/ pc[c] = "request" /\ pc'[c] = "reply"

\* What was shown to somebody stays good enough, whatever becomes of the thread.
LEMMA SeenKept ==
  ASSUME Control, Control', ServedCurrent, seen' = seen,
         \A t \in Threads : Forward(thread[t], thread'[t])
  PROVE  ServedCurrent'
  <1> SUFFICES ASSUME NEW c \in Clients, seen[c] # None
               PROVE  /\ Fits(thread'[seen[c].thread], seen[c].floor, seen[c].data)
                      /\ Fits(thread'[seen[c].thread], seen[c].floor, seen[c].len)
    BY DEF ServedCurrent, NotOlder, Fits
  <1>1. seen[c] \in Served
    BY DEF Control, TypeOK, GetType
  <1>2. /\ seen[c].thread \in Threads /\ seen[c].floor \in Nat
        /\ seen[c].data \in Page /\ seen[c].len \in Page
    BY <1>1 DEF Served
  <1>3. thread[seen[c].thread] \in Thread /\ thread'[seen[c].thread] \in Thread
    BY <1>2 DEF Control, TypeOK, HiveType
  <1>4. /\ Fits(thread[seen[c].thread], seen[c].floor, seen[c].data)
        /\ Fits(thread[seen[c].thread], seen[c].floor, seen[c].len)
    BY DEF ServedCurrent, NotOlder, Fits
  <1> QED
    BY <1>2, <1>3, <1>4, FitsLater

\* Steps that leave the cache and what Get carries alone.
LEMMA ServingKept ==
  ASSUME Control, Control', Serving,
         UNCHANGED <<acked, page, obj, tid, bp, got, half, floor, seen>>,
         \A c \in Clients : SameStep(c),
         \A t \in Threads : Forward(thread[t], thread'[t]),
         \A t \in Threads : t \in todo' => t \in todo \/ thread'[t].ver > thread[t].ver
  PROVE  Serving'
  <1>0. \A t \in Threads : /\ thread[t] \in Thread /\ thread'[t] \in Thread /\ acked[t] \in Nat
                           /\ thread[t].ver \in Nat /\ thread'[t].ver \in Nat
    BY DEF Control, TypeOK, HiveType, Thread
  <1>1. Acknowledged'
    BY <1>0 DEF Serving, Acknowledged, Forward
  <1>2. \A c \in Clients : /\ pc'[c] \in GetSteps <=> pc[c] \in GetSteps
                           /\ pc'[c] \in PtrSteps <=> pc[c] \in PtrSteps
                           /\ Answered(c)' <=> Answered(c)
                           /\ HasData(c)' <=> HasData(c)
                           /\ HasLen(c)' <=> HasLen(c)
    BY DEF SameStep, GetSteps, PtrSteps, Answered, HasData, HasLen
  <1>3. Floors'
    <2> SUFFICES ASSUME NEW c \in Clients, pc[c] \in GetSteps
                 PROVE  /\ floor[c] <= acked[tid[c]]
                        /\ pc[c] \in PtrSteps =>
                             /\ thread'[tid[c]].status # "unborn"
                             /\ thread'[tid[c]].status = "deleted" => floor[c] < thread'[tid[c]].ver
      BY <1>2 DEF Floors, PtrSteps
    <2>1. tid[c] \in Threads /\ floor[c] \in Nat
      BY Handlers
    <2>2. /\ floor[c] <= acked[tid[c]] /\ acked[tid[c]] <= thread[tid[c]].ver
          /\ Forward(thread[tid[c]], thread'[tid[c]])
          /\ pc[c] \in PtrSteps =>
               /\ thread[tid[c]].status # "unborn"
               /\ thread[tid[c]].status = "deleted" => floor[c] < thread[tid[c]].ver
      BY <2>1 DEF Serving, Floors, Acknowledged
    <2> QED
      BY <1>0, <2>1, <2>2 DEF Forward
  <1>4. SameThread'
    BY DEF Serving, SameThread
  <1>5. Answers'
    <2> SUFFICES ASSUME NEW c \in Clients, NEW d \in Clients,
                        pc[c] \in PtrSteps, Answered(d), bp[d] = bp[c]
                 PROVE  Fits(thread'[tid[c]], floor[c], got[d])
      BY <1>2 DEF Answers
    <2>1. tid[c] \in Threads /\ floor[c] \in Nat /\ got[d] \in Page
      BY Handlers
    <2>2. Fits(thread[tid[c]], floor[c], got[d])
      BY DEF Serving, Answers
    <2> QED
      BY <1>0, <2>1, <2>2, FitsLater
  <1>6. HeldFits'
    <2> SUFFICES ASSUME NEW c \in Clients
                 PROVE  /\ HasData(c) => Fits(thread'[tid[c]], floor[c], obj[bp[c]].data)
                        /\ HasLen(c) => Fits(thread'[tid[c]], floor[c], obj[bp[c]].len)
      BY <1>2 DEF HeldFits
    <2>1. HasData(c) \/ HasLen(c) => /\ tid[c] \in Threads /\ floor[c] \in Nat
                                     /\ obj[bp[c]].data \in Page /\ obj[bp[c]].len \in Page
      BY Handlers
    <2>2. /\ HasData(c) => Fits(thread[tid[c]], floor[c], obj[bp[c]].data)
          /\ HasLen(c) => Fits(thread[tid[c]], floor[c], obj[bp[c]].len)
      BY DEF Serving, HeldFits
    <2> QED
      BY <1>0, <2>1, <2>2, FitsLater
  <1>7. PageFits'
    BY <1>2 DEF Serving, PageFits
  <1>8. ServedCurrent'
    BY SeenKept DEF Serving
  <1> QED
    BY <1>1, <1>3, <1>4, <1>5, <1>6, <1>7, <1>8 DEF Serving

\* A handler that begins a request, or that is done with its object.
LEMMA ServingDetached ==
  ASSUME Control, Serving, NEW c \in Clients,
         UNCHANGED <<thread, acked, page, obj, todo, half>>,
         pc'[c] \in {"lookup", "idle"}, bp'[c] = None,
         pc'[c] = "lookup" => floor'[c] <= acked[tid'[c]],
         \A d \in Clients \ {c} : /\ pc'[d] = pc[d] /\ tid'[d] = tid[d] /\ bp'[d] = bp[d]
                                  /\ got'[d] = got[d] /\ floor'[d] = floor[d]
  PROVE  Acknowledged' /\ Floors' /\ SameThread' /\ Answers' /\ HeldFits' /\ PageFits'
  <1>0. /\ pc'[c] \notin PtrSteps /\ ~Answered(c)' /\ ~HasData(c)' /\ ~HasLen(c)'
        /\ \A d \in Clients \ {c} : /\ Answered(d)' <=> Answered(d)
                                    /\ HasData(d)' <=> HasData(d)
                                    /\ HasLen(d)' <=> HasLen(d)
    BY DEF PtrSteps, GetSteps, Answered, HasData, HasLen
  <1>1. Acknowledged'
    BY DEF Serving, Acknowledged
  <1>2. Floors'
    BY <1>0 DEF Serving, Floors, GetSteps
  <1>3. SameThread'
    BY DEF Serving, SameThread
  <1>4. Answers'
    BY <1>0 DEF Serving, Answers
  <1>5. HeldFits'
    BY <1>0 DEF Serving, HeldFits
  <1>6. PageFits'
    BY <1>0 DEF Serving, PageFits
  <1> QED
    BY <1>1, <1>2, <1>3, <1>4, <1>5, <1>6

\* A handler that has found the page of its thread in the map.
LEMMA ServingLookup ==
  ASSUME Control, Coherence, Serving, NEW c \in Clients, LookupFresh(c) \/ LookupStale(c)
  PROVE  Serving'
  <1> DEFINE t == tid[c]
             o == page[t]
  <1>1. /\ UNCHANGED <<thread, acked, page, obj, todo, tid, got, half, floor, seen>>
        /\ bp'[c] = o /\ o # None /\ pc[c] = "lookup" /\ pc'[c] \in {"serve", "request"}
        /\ pc'[c] = "serve" => obj[o].fresh
        /\ \A d \in Clients \ {c} : bp'[d] = bp[d] /\ pc'[d] = pc[d]
    BY DEF LookupFresh, LookupStale, hiveVars, cacheVars, seqVars, getVars, Control, TypeOK, GetType
  <1>2. t \in Threads /\ floor[c] \in Nat /\ floor[c] <= acked[t] /\ pc[c] \in GetSteps
    BY <1>1, Handlers DEF GetSteps, Serving, Floors
  <1>3. acked[t] \in Nat /\ thread[t].ver \in Nat
    BY <1>2 DEF Control, TypeOK, HiveType, Thread
  <1> HIDE DEF t, o
  <1>4. /\ pc'[c] \in PtrSteps /\ ~Answered(c)' /\ (HasData(c)' \/ HasLen(c)' => pc'[c] = "serve")
        /\ ~Answered(c)
        /\ \A d \in Clients \ {c} : /\ Answered(d)' <=> Answered(d)
                                    /\ HasData(d)' <=> HasData(d)
                                    /\ HasLen(d)' <=> HasLen(d)
    BY <1>1 DEF PtrSteps, GetSteps, Answered, HasData, HasLen
  <1>5. Acknowledged'
    BY <1>1 DEF Serving, Acknowledged
  <1>6. Floors'
    <2>1. thread[t].status # "unborn"
      BY <1>1, <1>2 DEF Serving, Acknowledged, o
    <2>2. thread[t].status = "deleted" => floor[c] < thread[t].ver
      <3>1. thread[t].status = "deleted" => t \in todo
        BY <1>1, <1>2 DEF Coherence, CacheCoherent, Changing, o
      <3> QED
        BY <1>2, <1>3, <3>1 DEF Serving, Acknowledged
    <2> QED
      BY <1>1, <1>2, <2>1, <2>2 DEF Serving, Floors, GetSteps, t
  <1>7. SameThread'
    <2>1. \A d \in Clients : bp[d] = o => tid[d] = t
      BY <1>1, <1>2 DEF Coherence, OneOwner, o
    <2> QED
      BY <1>1, <2>1 DEF Serving, SameThread, t
  <1>8. Answers'
    <2>1. \A d \in Clients : Answered(d) /\ bp[d] = o => got[d].ver >= acked[t] /\ got[d].ver \in Nat
      BY <1>1, <1>2, Handlers DEF Serving, PageFits, o, Page
    <2>2. \A d \in Clients : Answered(d) /\ bp[d] = o => Fits(thread[t], floor[c], got[d])
      BY <1>2, <1>3, <2>1 DEF Fits
    <2> QED
      BY <1>1, <1>4, <2>2 DEF Serving, Answers, t
  <1>9. HeldFits'
    <2>1. pc'[c] = "serve" => /\ Fits(thread[t], floor[c], obj[o].data)
                              /\ Fits(thread[t], floor[c], obj[o].len)
      <3>1. o \in Objects
        BY <1>1, <1>2 DEF Control, TypeOK, CacheType, o
      <3>2. obj[o].data.ver \in Nat /\ obj[o].len.ver \in Nat
        BY <3>1 DEF Control, TypeOK, CacheType, BPage, Page
      <3>3. obj[o].fresh => obj[o].data.ver >= acked[t] /\ obj[o].len.ver >= acked[t]
        BY <1>1, <1>2 DEF Serving, PageFits, o
      <3> QED
        BY <1>1, <1>2, <1>3, <3>2, <3>3 DEF Fits
    <2> QED
      BY <1>1, <1>4, <2>1 DEF Serving, HeldFits, t
  <1>10. PageFits'
    BY <1>1, <1>4 DEF Serving, PageFits
  <1>11. ServedCurrent'
    BY <1>1 DEF Serving, ServedCurrent, NotOlder
  <1> QED
    BY <1>5, <1>6, <1>7, <1>8, <1>9, <1>10, <1>11 DEF Serving

\* A half written over with an answer: the answer fits all who hold the object.
LEMMA ServingStore ==
  ASSUME Control, Serving, NEW c \in Clients, NEW h \in Halves, StoreHalf(c, h)
  PROVE  Serving'
  <1> DEFINE o == bp[c]
  <1>1. /\ UNCHANGED <<thread, acked, page, todo, pc, tid, bp, got, floor, seen>>
        /\ pc[c] = "store" /\ Answered(c) /\ pc[c] \in PtrSteps
        /\ half' = [half EXCEPT ![c] = half[c] \ {h}]
    BY DEF StoreHalf, hiveVars, seqVars, Answered, PtrSteps, GetSteps
  <1>2. o \in Objects /\ got[c] \in Page
    BY <1>1, Handlers
  <1>3. /\ \A q \in Objects \ {o} : obj'[q] = obj[q]
        /\ obj'[o].fresh = obj[o].fresh
        /\ h = "data" => obj'[o].data = got[c] /\ obj'[o].len = obj[o].len
        /\ h = "len" => obj'[o].len = got[c] /\ obj'[o].data = obj[o].data
    BY <1>2 DEF StoreHalf, Write, Control, TypeOK, CacheType, BPage
  <1> HIDE DEF o
  <1>4. /\ \A d \in Clients : Answered(d)' <=> Answered(d)
        /\ \A d \in Clients : HasData(d)' => HasData(d) \/ (d = c /\ h = "data")
        /\ \A d \in Clients : HasLen(d)' => HasLen(d) \/ (d = c /\ h = "len")
    BY <1>1 DEF Answered, HasData, HasLen, Control, TypeOK, GetType, Halves
  <1>5. h = "data" \/ h = "len"
    BY DEF Halves
  <1>6. Acknowledged' /\ Floors' /\ SameThread' /\ Answers'
    BY <1>1, <1>4 DEF Serving, Acknowledged, Floors, SameThread, Answers
  <1>7. HeldFits'
    <2> SUFFICES ASSUME NEW d \in Clients
                 PROVE  /\ HasData(d)' => Fits(thread[tid[d]], floor[d], obj'[bp[d]].data)
                        /\ HasLen(d)' => Fits(thread[tid[d]], floor[d], obj'[bp[d]].len)
      BY <1>1 DEF HeldFits
    <2>1. HasData(d)' \/ HasLen(d)' => pc[d] \in PtrSteps /\ bp[d] \in Objects
      BY <1>1, <1>4, Handlers
    <2>2. pc[d] \in PtrSteps /\ bp[d] = o => Fits(thread[tid[d]], floor[d], got[c])
      BY <1>1 DEF Serving, Answers, o
    <2>3. /\ HasData(d) => Fits(thread[tid[d]], floor[d], obj[bp[d]].data)
          /\ HasLen(d) => Fits(thread[tid[d]], floor[d], obj[bp[d]].len)
      BY DEF Serving, HeldFits
    <2>4. CASE bp[d] # o
      BY <1>3, <1>4, <2>1, <2>3, <2>4 DEF o
    <2>5. CASE bp[d] = o
      BY <1>3, <1>4, <1>5, <2>1, <2>2, <2>3, <2>5
    <2> QED
      BY <2>4, <2>5
  <1>8. PageFits'
    <2> SUFFICES ASSUME NEW t \in Threads, page[t] # None
                 PROVE  /\ obj'[page[t]].fresh => /\ obj'[page[t]].data.ver >= acked[t]
                                                 /\ obj'[page[t]].len.ver >= acked[t]
                        /\ \A d \in Clients : Answered(d) /\ bp[d] = page[t] =>
                             /\ got[d].ver >= acked[t]
                             /\ HasData(d)' => obj'[page[t]].data.ver >= acked[t]
                             /\ HasLen(d)' => obj'[page[t]].len.ver >= acked[t]
      BY <1>1, <1>4 DEF PageFits
    <2>1. page[t] \in Objects
      BY DEF Control, TypeOK, CacheType
    <2>2. /\ obj[page[t]].fresh => /\ obj[page[t]].data.ver >= acked[t]
                                  /\ obj[page[t]].len.ver >= acked[t]
          /\ \A d \in Clients : Answered(d) /\ bp[d] = page[t] =>
               /\ got[d].ver >= acked[t]
               /\ HasData(d) => obj[page[t]].data.ver >= acked[t]
               /\ HasLen(d) => obj[page[t]].len.ver >= acked[t]
      BY DEF Serving, PageFits
    <2>3. CASE page[t] # o
      BY <1>3, <1>4, <2>1, <2>2, <2>3 DEF o
    <2>4. CASE page[t] = o
      <3>1. got[c].ver >= acked[t]
        BY <1>1, <2>2, <2>4 DEF o
      <3> QED
        BY <1>3, <1>4, <1>5, <2>2, <2>4, <3>1
    <2> QED
      BY <2>3, <2>4
  <1>9. ServedCurrent'
    BY <1>1 DEF Serving, ServedCurrent, NotOlder
  <1> QED
    BY <1>6, <1>7, <1>8, <1>9 DEF Serving

LEMMA ServingFresh ==
  ASSUME Control, Serving, NEW c \in Clients, MarkFresh(c)
  PROVE  Serving'
  <1> DEFINE o == bp[c]
  <1>1. /\ UNCHANGED <<thread, acked, page, todo, tid, bp, got, half, floor, seen>>
        /\ pc[c] = "store" /\ half[c] = {} /\ pc[c] \in PtrSteps /\ pc'[c] = "serve"
        /\ \A d \in Clients \ {c} : pc'[d] = pc[d]
    BY DEF MarkFresh, hiveVars, seqVars, getVars, PtrSteps, GetSteps, Control, TypeOK, GetType
  <1>2. o \in Objects
    BY <1>1, Handlers
  <1>3. /\ \A q \in Objects \ {o} : obj'[q] = obj[q]
        /\ obj'[o].data = obj[o].data /\ obj'[o].len = obj[o].len
    BY <1>2 DEF MarkFresh, Control, TypeOK, CacheType, BPage
  <1> HIDE DEF o
  <1>4. /\ HasData(c) /\ HasLen(c) /\ Answered(c) /\ ~Answered(c)'
        /\ pc'[c] \in PtrSteps /\ pc'[c] \in GetSteps
        /\ \A d \in Clients : Answered(d)' => Answered(d)
        /\ \A d \in Clients : /\ HasData(d)' <=> HasData(d)
                              /\ HasLen(d)' <=> HasLen(d)
    BY <1>1 DEF Answered, HasData, HasLen, PtrSteps, GetSteps
  <1>5. Acknowledged' /\ SameThread'
    BY <1>1 DEF Serving, Acknowledged, SameThread
  <1>6. Floors'
    BY <1>1, <1>4 DEF Serving, Floors, PtrSteps
  <1>7. Answers'
    BY <1>1, <1>4 DEF Serving, Answers
  <1>8. HeldFits'
    <2> SUFFICES ASSUME NEW d \in Clients
                 PROVE  /\ HasData(d)' => Fits(thread[tid[d]], floor[d], obj'[bp[d]].data)
                        /\ HasLen(d)' => Fits(thread[tid[d]], floor[d], obj'[bp[d]].len)
      BY <1>1 DEF HeldFits
    <2>1. HasData(d) \/ HasLen(d) => bp[d] \in Objects
      BY Handlers
    <2>2. HasData(d) \/ HasLen(d) =>
            obj'[bp[d]].data = obj[bp[d]].data /\ obj'[bp[d]].len = obj[bp[d]].len
      BY <1>3, <2>1
    <2> QED
      BY <1>4, <2>2 DEF Serving, HeldFits
  <1>9. PageFits'
    <2> SUFFICES ASSUME NEW t \in Threads, page[t] # None
                 PROVE  /\ obj'[page[t]].fresh => /\ obj'[page[t]].data.ver >= acked[t]
                                                 /\ obj'[page[t]].len.ver >= acked[t]
                        /\ \A d \in Clients : Answered(d)' /\ bp[d] = page[t] =>
                             /\ got[d].ver >= acked[t]
                             /\ HasData(d)' => obj'[page[t]].data.ver >= acked[t]
                             /\ HasLen(d)' => obj'[page[t]].len.ver >= acked[t]
      BY <1>1 DEF PageFits
    <2>1. page[t] \in Objects
      BY DEF Control, TypeOK, CacheType
    <2>2. /\ obj[page[t]].fresh => /\ obj[page[t]].data.ver >= acked[t]
                                  /\ obj[page[t]].len.ver >= acked[t]
          /\ \A d \in Clients : Answered(d) /\ bp[d] = page[t] =>
               /\ got[d].ver >= acked[t]
               /\ HasData(d) => obj[page[t]].data.ver >= acked[t]
               /\ HasLen(d) => obj[page[t]].len.ver >= acked[t]
      BY DEF Serving, PageFits
    <2>3. page[t] = o => obj[o].data.ver >= acked[t] /\ obj[o].len.ver >= acked[t]
      BY <1>4, <2>2 DEF o
    <2>4. obj'[page[t]].data = obj[page[t]].data /\ obj'[page[t]].len = obj[page[t]].len
      BY <1>3, <2>1
    <2>5. page[t] # o => obj'[page[t]].fresh = obj[page[t]].fresh
      BY <1>3, <2>1
    <2>6. obj'[page[t]].fresh => /\ obj'[page[t]].data.ver >= acked[t]
                                 /\ obj'[page[t]].len.ver >= acked[t]
      BY <2>2, <2>3, <2>4, <2>5
    <2>7. ASSUME NEW d \in Clients, Answered(d)', bp[d] = page[t]
          PROVE  /\ got[d].ver >= acked[t]
                 /\ HasData(d)' => obj'[page[t]].data.ver >= acked[t]
                 /\ HasLen(d)' => obj'[page[t]].len.ver >= acked[t]
      <3>1. Answered(d) /\ (HasData(d)' => HasData(d)) /\ (HasLen(d)' => HasLen(d))
        BY <1>4, <2>7
      <3> QED
        BY <2>2, <2>4, <2>7, <3>1
    <2> QED
      BY <2>6, <2>7
  <1>10. ServedCurrent'
    BY <1>1 DEF Serving, ServedCurrent, NotOlder
  <1> QED
    BY <1>5, <1>6, <1>7, <1>8, <1>9, <1>10 DEF Serving

LEMMA ServingRelock ==
  ASSUME Control, Serving, NEW c \in Clients, Relock(c)
  PROVE  Serving'
  <1>1. /\ UNCHANGED <<thread, acked, page, obj, todo, tid, bp, got, floor, seen>>
        /\ pc[c] = "relock" /\ pc'[c] = "store" /\ half'[c] = {"data", "len"}
        /\ \A d \in Clients \ {c} : pc'[d] = pc[d] /\ half'[d] = half[d]
    BY DEF Relock, hiveVars, cacheVars, seqVars, Halves, Control, TypeOK, GetType
  <1>2. /\ \A d \in Clients : Answered(d)' <=> Answered(d)
        /\ \A d \in Clients : HasData(d)' => HasData(d)
        /\ \A d \in Clients : HasLen(d)' => HasLen(d)
        /\ \A d \in Clients : /\ pc'[d] \in GetSteps <=> pc[d] \in GetSteps
                              /\ pc'[d] \in PtrSteps <=> pc[d] \in PtrSteps
    BY <1>1 DEF Answered, HasData, HasLen, PtrSteps, GetSteps
  <1>3. Acknowledged' /\ SameThread'
    BY <1>1 DEF Serving, Acknowledged, SameThread
  <1>4. Floors'
    <2> SUFFICES ASSUME NEW d \in Clients
                 PROVE  /\ pc[d] \in GetSteps => floor[d] <= acked[tid[d]]
                        /\ pc[d] \in PtrSteps =>
                             /\ thread[tid[d]].status # "unborn"
                             /\ thread[tid[d]].status = "deleted" => floor[d] < thread[tid[d]].ver
      BY <1>1, <1>2 DEF Floors
    <2> QED
      BY DEF Serving, Floors
  <1>5. Answers'
    <2> SUFFICES ASSUME NEW d \in Clients, NEW e \in Clients,
                        pc[d] \in PtrSteps, Answered(e), bp[e] = bp[d]
                 PROVE  Fits(thread[tid[d]], floor[d], got[e])
      BY <1>1, <1>2 DEF Answers
    <2> QED
      BY DEF Serving, Answers
  <1>6. HeldFits'
    BY <1>1, <1>2 DEF Serving, HeldFits
  <1>7. PageFits'
    BY <1>1, <1>2 DEF Serving, PageFits
  <1>8. ServedCurrent'
    BY <1>1 DEF Serving, ServedCurrent, NotOlder
  <1> QED
    BY <1>3, <1>4, <1>5, <1>6, <1>7, <1>8 DEF Serving

\* Every step of a handler in Get.
LEMMA GetServing ==
  ASSUME Control, Control', Coherence, Serving, NEW c \in Clients,
         GetStep(c) \/ \E t \in Threads : Get(c, t)
  PROVE  Serving'
  <1> USE DEF hiveVars, cacheVars, seqVars, getVars
  <1>a. \A t \in Threads : Forward(thread[t], thread[t])
    BY ForwardUpdates DEF Control, TypeOK, HiveType
  <1>1. CASE \E t \in Threads : Get(c, t)
    <2> PICK t \in Threads : Get(c, t)
      BY <1>1
    <2>1. /\ UNCHANGED <<thread, acked, page, obj, todo, half, bp, got>>
          /\ pc[c] = "idle" /\ pc'[c] = "lookup" /\ tid'[c] = t /\ floor'[c] = acked[t]
          /\ seen' = [seen EXCEPT ![c] = None]
          /\ \A d \in Clients \ {c} : pc'[d] = pc[d] /\ tid'[d] = tid[d] /\ floor'[d] = floor[d]
      BY DEF Get, Control, TypeOK, GetType
    <2>2. bp[c] = None /\ acked[t] \in Nat
      BY <2>1, Handlers DEF PtrSteps, GetSteps, Control, TypeOK, HiveType
    <2>3. Acknowledged' /\ Floors' /\ SameThread' /\ Answers' /\ HeldFits' /\ PageFits'
      BY <2>1, <2>2, ServingDetached
    <2>4. ServedCurrent'
      BY <2>1 DEF Serving, ServedCurrent, NotOlder, Control, TypeOK, GetType
    <2> QED
      BY <2>3, <2>4 DEF Serving
  <1>2. CASE LookupMiss(c)
    <2>1. /\ UNCHANGED <<thread, acked, page, obj, todo, half, bp, got, seen>>
          /\ pc[c] = "lookup" /\ pc'[c] = "idle"
          /\ \A d \in Clients \ {c} : pc'[d] = pc[d] /\ tid'[d] = tid[d] /\ floor'[d] = floor[d]
      BY <1>2 DEF LookupMiss, Control, TypeOK, GetType
    <2>2. bp[c] = None
      BY <2>1, Handlers DEF PtrSteps, GetSteps
    <2>3. Acknowledged' /\ Floors' /\ SameThread' /\ Answers' /\ HeldFits' /\ PageFits'
      BY <2>1, <2>2, ServingDetached
    <2>4. ServedCurrent'
      BY <2>1 DEF Serving, ServedCurrent, NotOlder
    <2> QED
      BY <2>3, <2>4 DEF Serving
  <1>3. CASE LookupFresh(c) \/ LookupStale(c)
    BY <1>3, ServingLookup
  <1>4. CASE SendPageRequest(c)
    <2>1. /\ UNCHANGED <<thread, acked, page, obj, todo, tid, bp, got, half, floor, seen>>
          /\ \A d \in Clients : SameStep(d)
      BY <1>4 DEF SendPageRequest, SameStep, Control, TypeOK, GetType
    <2> QED
      BY <1>a, <2>1, ServingKept
  <1>5. CASE Relock(c)
    BY <1>5, ServingRelock
  <1>6. CASE \E h \in Halves : StoreHalf(c, h)
    BY <1>6, ServingStore
  <1>7. CASE MarkFresh(c)
    BY <1>7, ServingFresh
  <1>8. CASE Serve(c)
    <2>1. /\ UNCHANGED <<thread, acked, page, obj, todo, half>>
          /\ pc[c] = "serve" /\ pc'[c] = "idle" /\ bp'[c] = None
          /\ \A d \in Clients \ {c} : /\ pc'[d] = pc[d] /\ tid'[d] = tid[d] /\ floor'[d] = floor[d]
                                      /\ bp'[d] = bp[d] /\ got'[d] = got[d]
      BY <1>8 DEF Serve, Control, TypeOK, GetType
    <2>2. Acknowledged' /\ Floors' /\ SameThread' /\ Answers' /\ HeldFits' /\ PageFits'
      BY <2>1, ServingDetached
    <2>3. /\ seen'[c] = [thread |-> tid[c], floor |-> floor[c],
                         data |-> obj[bp[c]].data, len |-> obj[bp[c]].len]
          /\ \A d \in Clients \ {c} : seen'[d] = seen[d]
      BY <1>8 DEF Serve, Control, TypeOK, GetType
    <2>4. /\ Fits(thread[tid[c]], floor[c], obj[bp[c]].data)
          /\ Fits(thread[tid[c]], floor[c], obj[bp[c]].len)
      BY <2>1 DEF Serving, HeldFits, HasData, HasLen
    <2>5. ServedCurrent'
      <3> SUFFICES ASSUME NEW d \in Clients, seen'[d] # None
                   PROVE  /\ Fits(thread'[seen'[d].thread], seen'[d].floor, seen'[d].data)
                          /\ Fits(thread'[seen'[d].thread], seen'[d].floor, seen'[d].len)
        BY DEF ServedCurrent, NotOlder, Fits
      <3>1. CASE d = c
        BY <2>1, <2>3, <2>4, <3>1
      <3>2. CASE d # c
        BY <2>1, <2>3, <3>2 DEF Serving, ServedCurrent, NotOlder, Fits
      <3> QED
        BY <3>1, <3>2
    <2> QED
      BY <2>2, <2>5 DEF Serving
  <1> QED
    BY <1>1, <1>2, <1>3, <1>4, <1>5, <1>6, <1>7, <1>8 DEF GetStep

-----------------------------------------------------------------------------
\* The sequencer renders the page a handler waits for.
LEMMA ServingAnswer ==
  ASSUME Control, Control', Coherence, Serving, AnswerPageRequest
  PROVE  Serving'
  <1>0. Head(reqs) \in Clients /\ pc[Head(reqs)] = "reply" /\ todo = {}
    <2>1. reqs \in Seq(Clients) /\ reqs # <<>> /\ spc = "select"
      BY DEF AnswerPageRequest, Control, TypeOK, SeqType
    <2>2. Head(reqs) \in Clients /\ Head(reqs) = reqs[1] /\ 1 \in 1..Len(reqs)
      BY <2>1, HeadTail
    <2> QED
      BY <2>1, <2>2 DEF Control, InReqs, Settled
  <1>1. PICK c \in Clients : c = Head(reqs) /\ pc[c] = "reply" /\ todo = {}
    BY <1>0
  <1> DEFINE t == tid[c]
  <1>2. pc[c] \in PtrSteps /\ pc[c] \in GetSteps /\ t \in Threads /\ bp[c] \in Objects /\ bp[c] # None
    BY <1>1, Handlers DEF PtrSteps, GetSteps
  <1>3. /\ UNCHANGED <<acked, page, obj, todo, tid, bp, half, floor, seen>>
        /\ pc'[c] = "relock"
        /\ \A d \in Clients \ {c} : pc'[d] = pc[d] /\ got'[d] = got[d]
        /\ IF thread[t].status = "live" THEN got'[c].ver = thread[t].ver ELSE got'[c] = Blank
    BY <1>1 DEF AnswerPageRequest, cacheVars, seqVars, Control, TypeOK, GetType
  <1>4. \A u \in Threads : /\ thread'[u].ver = thread[u].ver /\ thread'[u].status = thread[u].status
                           /\ thread[u].ver \in Nat /\ acked[u] \in Nat
                           /\ thread[u].status \in {"unborn", "live", "deleted"}
    <2>1. thread' = [thread EXCEPT ![t] = [thread[t] EXCEPT !.form = @ + 1]] \/ thread' = thread
      BY <1>1 DEF AnswerPageRequest
    <2> QED
      BY <1>2, <2>1 DEF Control, TypeOK, HiveType, Thread
  <1>5. \A u \in Threads : Forward(thread[u], thread'[u])
    BY <1>4 DEF Forward
  <1> HIDE DEF t
  <1>6. /\ ~HasData(c)' /\ ~HasLen(c)'
        /\ \A d \in Clients \ {c} : Answered(d)' <=> Answered(d)
        /\ \A d \in Clients : HasData(d)' => HasData(d)
        /\ \A d \in Clients : HasLen(d)' => HasLen(d)
    <2>1. ~HasData(c)' /\ ~HasLen(c)'
      BY <1>3 DEF HasData, HasLen
    <2>2. ASSUME NEW d \in Clients, d # c
          PROVE  /\ Answered(d)' <=> Answered(d)
                 /\ HasData(d)' <=> HasData(d)
                 /\ HasLen(d)' <=> HasLen(d)
      <3>1. pc'[d] = pc[d] /\ half'[d] = half[d]
        BY <1>3, <2>2
      <3> QED
        BY <3>1 DEF Answered, HasData, HasLen
    <2> QED
      BY <2>1, <2>2
  <1>a. \A d \in Clients : /\ pc'[d] \in GetSteps <=> pc[d] \in GetSteps
                           /\ pc'[d] \in PtrSteps <=> pc[d] \in PtrSteps
    BY <1>1, <1>3 DEF GetSteps, PtrSteps
  <1>7. Acknowledged'
    BY <1>3, <1>4 DEF Serving, Acknowledged
  <1>8. Floors'
    <2>1. \A d \in Clients : pc[d] \in PtrSteps => pc[d] \in GetSteps /\ tid[d] \in Threads
      BY Handlers
    <2> QED
      BY <1>3, <1>4, <1>a, <2>1 DEF Serving, Floors
  <1>9. SameThread'
    BY <1>3 DEF Serving, SameThread
  <1>10. Answers'
    <2> SUFFICES ASSUME NEW e \in Clients, NEW d \in Clients,
                        pc[e] \in PtrSteps, Answered(d)', bp[d] = bp[e]
                 PROVE  Fits(thread'[tid[e]], floor[e], got'[d])
      BY <1>3, <1>a DEF Answers
    <2>1. tid[e] \in Threads /\ floor[e] \in Nat /\ pc[e] \in GetSteps
      BY Handlers
    <2>2. CASE d # c
      <3>1. Fits(thread[tid[e]], floor[e], got[d]) /\ got'[d] = got[d]
        BY <1>3, <1>6, <2>2 DEF Serving, Answers
      <3> QED
        BY <1>4, <2>1, <3>1 DEF Fits
    <2>3. CASE d = c
      <3>1. tid[e] = t
        BY <1>1, <1>2, <2>3 DEF Serving, SameThread, t
      <3>2. floor[e] <= acked[t] /\ acked[t] <= thread[t].ver
        BY <1>2, <2>1, <3>1 DEF Serving, Floors, Acknowledged
      <3>3. CASE thread[t].status = "live"
        BY <1>2, <1>3, <1>4, <2>1, <2>3, <3>1, <3>2, <3>3 DEF Fits
      <3>4. CASE thread[t].status # "live"
        <4>1. thread[t].status = "deleted" /\ floor[e] < thread[t].ver
          BY <1>2, <1>4, <3>1, <3>4 DEF Serving, Floors
        <4> QED
          BY <1>2, <1>3, <1>4, <2>3, <3>1, <3>4, <4>1 DEF Fits
      <3> QED
        BY <3>3, <3>4
    <2> QED
      BY <2>2, <2>3
  <1>11. HeldFits'
    <2> SUFFICES ASSUME NEW d \in Clients
                 PROVE  /\ HasData(d)' => Fits(thread'[tid[d]], floor[d], obj[bp[d]].data)
                        /\ HasLen(d)' => Fits(thread'[tid[d]], floor[d], obj[bp[d]].len)
      BY <1>3 DEF HeldFits
    <2>1. /\ HasData(d)' => HasData(d)
          /\ HasLen(d)' => HasLen(d)
      BY <1>6
    <2>2. HasData(d) \/ HasLen(d) => tid[d] \in Threads
      BY Handlers
    <2> QED
      BY <1>4, <2>1, <2>2 DEF Serving, HeldFits, Fits
  <1>12. PageFits'
    <2> SUFFICES ASSUME NEW u \in Threads, page[u] # None
                 PROVE  /\ obj[page[u]].fresh => /\ obj[page[u]].data.ver >= acked[u]
                                                /\ obj[page[u]].len.ver >= acked[u]
                        /\ \A d \in Clients : Answered(d)' /\ bp[d] = page[u] =>
                             /\ got'[d].ver >= acked[u]
                             /\ HasData(d)' => obj[page[u]].data.ver >= acked[u]
                             /\ HasLen(d)' => obj[page[u]].len.ver >= acked[u]
      BY <1>3 DEF PageFits
    <2>1. page[u] = bp[c] => got'[c].ver >= acked[u]
      <3> SUFFICES ASSUME page[u] = bp[c] PROVE got'[c].ver >= acked[u]
        OBVIOUS
      <3>1. u = t
        BY <1>1, <1>2 DEF Coherence, OneOwner, t
      <3>2. thread[t].status = "live"
        BY <1>1, <1>2, <3>1 DEF Coherence, CacheCoherent, Changing
      <3> QED
        BY <1>2, <1>3, <1>4, <3>1, <3>2 DEF Serving, Acknowledged
    <2>2. /\ obj[page[u]].fresh => /\ obj[page[u]].data.ver >= acked[u]
                                  /\ obj[page[u]].len.ver >= acked[u]
          /\ \A d \in Clients : Answered(d) /\ bp[d] = page[u] =>
               /\ got[d].ver >= acked[u]
               /\ HasData(d) => obj[page[u]].data.ver >= acked[u]
               /\ HasLen(d) => obj[page[u]].len.ver >= acked[u]
      BY DEF Serving, PageFits
    <2>3. ASSUME NEW d \in Clients, Answered(d)', bp[d] = page[u]
          PROVE  /\ got'[d].ver >= acked[u]
                 /\ HasData(d)' => obj[page[u]].data.ver >= acked[u]
                 /\ HasLen(d)' => obj[page[u]].len.ver >= acked[u]
      <3>1. CASE d = c
        BY <1>6, <2>1, <2>3, <3>1
      <3>2. CASE d # c
        <4>1. /\ Answered(d) /\ got'[d] = got[d]
              /\ HasData(d)' => HasData(d)
              /\ HasLen(d)' => HasLen(d)
          BY <1>3, <1>6, <2>3, <3>2
        <4> QED
          BY <2>2, <2>3, <4>1
      <3> QED
        BY <3>1, <3>2
    <2> QED
      BY <2>2, <2>3
  <1>13. ServedCurrent'
    BY <1>3, <1>5, SeenKept DEF Serving
  <1> QED
    BY <1>7, <1>8, <1>9, <1>10, <1>11, <1>12, <1>13 DEF Serving

\* The sequencer installs a new page, or takes one away.
LEMMA ServingReplace ==
  ASSUME Control, Serving, ReplacePage
  PROVE  Serving'
  <1>1. PICK t \in todo : /\ IF thread[t].status = "live" THEN SetStale(t) ELSE Purge(t)
                          /\ todo' = todo \ {t}
    BY DEF ReplacePage
  <1>2. t \in Threads /\ UNCHANGED <<thread, acked, pc, tid, bp, got, half, floor, seen>>
    BY DEF ReplacePage, hiveVars, getVars, Control, TypeOK, SeqType
  <1>3. PICK o \in Objects \cup {None} :
          /\ page' = [page EXCEPT ![t] = o]
          /\ o # None => /\ thread[t].status = "live" /\ ~obj'[o].fresh
                         /\ \A u \in Threads : page[u] # o
                         /\ \A c \in Clients : bp[c] # o
          /\ \A q \in Objects \ {o} : obj'[q] = obj[q]
    <2>1. CASE thread[t].status = "live"
      <3>1. New \in Unused
        BY <1>1, <2>1 DEF SetStale, New
      <3>2. /\ New \in Objects /\ \A u \in Threads : page[u] # New
            /\ \A c \in Clients : bp[c] # New
        BY <3>1 DEF Unused
      <3>3. /\ page' = [page EXCEPT ![t] = New]
            /\ obj' = [obj EXCEPT ![New] = Stale(t)]
        BY <1>1, <2>1 DEF SetStale
      <3> QED
        BY <2>1, <3>2, <3>3 DEF Stale, Empty, Control, TypeOK, CacheType
    <2>2. CASE thread[t].status # "live"
      BY <1>1, <2>2 DEF Purge
    <2> QED
      BY <2>1, <2>2
  <1>4. \A u \in Threads : /\ page'[u] = IF u = t THEN o ELSE page[u]
                           /\ page[u] \in Objects \cup {None}
    BY <1>2, <1>3 DEF Control, TypeOK, CacheType
  <1>5. \A c \in Clients : /\ Answered(c)' <=> Answered(c)
                           /\ HasData(c)' <=> HasData(c)
                           /\ HasLen(c)' <=> HasLen(c)
    BY <1>2 DEF Answered, HasData, HasLen
  <1>6. Acknowledged'
    BY <1>1, <1>2, <1>3, <1>4 DEF Serving, Acknowledged
  <1>7. Floors' /\ SameThread'
    BY <1>2 DEF Serving, Floors, SameThread
  <1>8. Answers'
    BY <1>2, <1>5 DEF Serving, Answers
  <1>9. HeldFits'
    <2>1. \A c \in Clients : HasData(c) \/ HasLen(c) => bp[c] \in Objects \ {o}
      BY <1>3, Handlers, ConstantsAssumption
    <2> QED
      BY <1>2, <1>3, <1>5, <2>1 DEF Serving, HeldFits
  <1>10. PageFits'
    <2> SUFFICES ASSUME NEW u \in Threads, page'[u] # None
                 PROVE  /\ obj'[page'[u]].fresh => /\ obj'[page'[u]].data.ver >= acked[u]
                                                  /\ obj'[page'[u]].len.ver >= acked[u]
                        /\ \A d \in Clients : Answered(d)' /\ bp[d] = page'[u] =>
                             /\ got[d].ver >= acked[u]
                             /\ HasData(d)' => obj'[page'[u]].data.ver >= acked[u]
                             /\ HasLen(d)' => obj'[page'[u]].len.ver >= acked[u]
      BY <1>2 DEF PageFits
    <2>1. CASE u = t
      <3>1. page'[u] = o /\ o # None
        BY <1>4, <2>1
      <3> QED
        BY <1>3, <3>1
    <2>2. CASE u # t
      <3>1. page'[u] = page[u] /\ page[u] \in Objects \ {o}
        BY <1>3, <1>4, <2>2
      <3>2. obj'[page[u]] = obj[page[u]]
        BY <1>3, <3>1
      <3> QED
        BY <1>5, <3>1, <3>2 DEF Serving, PageFits
    <2> QED
      BY <2>1, <2>2
  <1>11. ServedCurrent'
    BY <1>2 DEF Serving, ServedCurrent, NotOlder
  <1> QED
    BY <1>6, <1>7, <1>8, <1>9, <1>10, <1>11 DEF Serving

\* A handler is told that its closure is done: now everybody may rely on it.
LEMMA ServingReturn ==
  ASSUME Control, Coherence, Serving, Return
  PROVE  Serving'
  <1>1. /\ UNCHANGED <<thread, page, obj, todo, tid, bp, got, half, floor, seen>>
        /\ todo = {}
    BY DEF Return, cacheVars, getVars, Control, Settled
  <1>2. \A t \in Threads : /\ acked'[t] = IF t \in on THEN thread[t].ver ELSE acked[t]
                           /\ acked[t] \in Nat /\ thread[t].ver \in Nat
    BY DEF Return, Control, TypeOK, HiveType, Thread
  <1>3. \A c \in Clients : SameStep(c)
    BY DEF Return, SameStep, Control, Served1, TypeOK, GetType, GetSteps
  <1>4. \A c \in Clients : /\ pc'[c] \in GetSteps <=> pc[c] \in GetSteps
                           /\ pc'[c] \in PtrSteps <=> pc[c] \in PtrSteps
                           /\ Answered(c)' <=> Answered(c)
                           /\ HasData(c)' <=> HasData(c)
                           /\ HasLen(c)' <=> HasLen(c)
    BY <1>1, <1>3 DEF SameStep, GetSteps, PtrSteps, Answered, HasData, HasLen
  <1>5. \A t \in Threads : acked[t] <= acked'[t] /\ acked'[t] <= thread[t].ver
    BY <1>2 DEF Serving, Acknowledged
  <1>6. Acknowledged'
    BY <1>1, <1>5 DEF Serving, Acknowledged
  <1>7. Floors'
    <2> SUFFICES ASSUME NEW c \in Clients
                 PROVE  /\ pc[c] \in GetSteps => floor[c] <= acked'[tid[c]]
                        /\ pc[c] \in PtrSteps =>
                             /\ thread[tid[c]].status # "unborn"
                             /\ thread[tid[c]].status = "deleted" => floor[c] < thread[tid[c]].ver
      BY <1>1, <1>4 DEF Floors
    <2>1. pc[c] \in GetSteps => tid[c] \in Threads /\ floor[c] \in Nat
      BY Handlers
    <2> QED
      BY <1>2, <1>5, <2>1 DEF Serving, Floors
  <1>8. SameThread' /\ Answers'
    BY <1>1, <1>4 DEF Serving, SameThread, Answers
  <1>9. HeldFits'
    BY <1>1, <1>4 DEF Serving, HeldFits
  <1>10. PageFits'
    <2> SUFFICES ASSUME NEW t \in Threads, page[t] # None
                 PROVE  /\ obj[page[t]].fresh => /\ obj[page[t]].data.ver >= acked'[t]
                                                /\ obj[page[t]].len.ver >= acked'[t]
                        /\ \A d \in Clients : Answered(d) /\ bp[d] = page[t] =>
                             /\ got[d].ver >= acked'[t]
                             /\ HasData(d) => obj[page[t]].data.ver >= acked'[t]
                             /\ HasLen(d) => obj[page[t]].len.ver >= acked'[t]
      BY <1>1, <1>4 DEF PageFits
    <2>1. /\ obj[page[t]].fresh => /\ obj[page[t]].data.ver = thread[t].ver
                                  /\ obj[page[t]].len.ver = thread[t].ver
      BY <1>1 DEF Coherence, CacheCoherent, Changing
    <2>2. ASSUME NEW d \in Clients, Answered(d), bp[d] = page[t]
          PROVE  /\ got[d].ver = thread[t].ver
                 /\ HasData(d) => obj[page[t]].data.ver = thread[t].ver
                 /\ HasLen(d) => obj[page[t]].len.ver = thread[t].ver
      <3>1. tid[d] = t
        BY <2>2 DEF Coherence, OneOwner
      <3> QED
        BY <1>1, <2>2, <3>1 DEF Coherence, CarriesCurrent, Changing, Answered, HasData, HasLen
    <2> QED
      BY <1>2, <1>5, <2>1, <2>2
  <1>11. ServedCurrent'
    BY <1>1 DEF Serving, ServedCurrent, NotOlder
  <1> QED
    BY <1>6, <1>7, <1>8, <1>9, <1>10, <1>11 DEF Serving

\* A closure changes the threads it is about, each to a new version.
LEMMA ServingChange ==
  ASSUME Control, Control', Serving, todo = {}, todo' = on' \/ todo' = {},
         UNCHANGED <<acked, page, obj, pc, tid, bp, got, half, floor, seen>>,
         \A t \in Threads : /\ Forward(thread[t], thread'[t])
                            /\ t \in on' => thread'[t].ver > thread[t].ver
  PROVE  Serving'
  BY ServingKept DEF SameStep

LEMMA BodyServing ==
  ASSUME Control, Control', Serving, Body
  PROVE  Serving'
  <1> USE DEF Control, TypeOK, HiveType, hiveVars, cacheVars, seqVars, getVars
  <1>0. \A t \in Threads : thread[t] \in Thread /\ Forward(thread[t], thread[t])
    BY ForwardUpdates
  <1>1. UNCHANGED <<acked, page, obj, bp, tid, got, half, floor, seen, pc>>
    BY DEF Body, AddPost, CreateThread, CreateEmptyThread, LockThread, HidePost, DeleteThread,
           ReadFields, Change
  <1>2. todo = {}
    BY DEF Body, AddPost, CreateThread, CreateEmptyThread, LockThread, HidePost, DeleteThread,
           ReadFields, Running, Settled
  <1>3. CASE AddPost \/ HidePost
    <2>1. PICK ts \in SUBSET Threads :
            /\ on' = ts /\ todo' = ts
            /\ \/ thread' = [t \in Threads |-> IF t \in ts THEN WithPost(thread[t]) ELSE thread[t]]
               \/ thread' = [t \in Threads |-> IF t \in ts THEN Edited(thread[t]) ELSE thread[t]]
      <3>1. on' \in SUBSET Threads
        BY DEF SeqType
      <3> QED
        BY <1>3, <3>1 DEF AddPost, HidePost, Change
    <2>2. ASSUME NEW t \in Threads
          PROVE  Forward(thread[t], thread'[t]) /\ (t \in on' => thread'[t].ver > thread[t].ver)
      <3>1. \/ t \notin ts /\ thread'[t] = thread[t]
            \/ thread'[t] = WithPost(thread[t]) \/ thread'[t] = Edited(thread[t])
        BY <2>1
      <3> QED
        BY <1>0, <2>1, <3>1, ForwardUpdates
    <2> QED
      BY <1>1, <1>2, <2>1, <2>2, ServingChange
  <1>4. CASE CreateThread
    <2>1. CASE Change({}, WithPost)
      <3>1. on' = {} /\ todo' = {} /\ \A t \in Threads : thread'[t] = thread[t]
        BY <2>1 DEF Change
      <3> QED
        BY <1>0, <1>1, <1>2, <3>1, ServingChange
    <2>2. CASE \E ts : Change(ts, OpenedOrPruned)
      <3>1. PICK ts :
              /\ on' = ts /\ todo' = ts
              /\ thread' = [t \in Threads |-> IF t \in ts THEN OpenedOrPruned(thread[t]) ELSE thread[t]]
        BY <2>2 DEF Change
      <3>2. \A t \in Threads : /\ Forward(thread[t], thread'[t])
                               /\ t \in on' => thread'[t].ver > thread[t].ver
        BY <1>0, <3>1, ForwardUpdates
      <3> QED
        BY <1>1, <1>2, <3>1, <3>2, ServingChange
    <2> QED
      BY <1>4, <2>1, <2>2 DEF CreateThread
  <1>5. CASE CreateEmptyThread
    <2>1. PICK u \in Threads, ts \in Prunable :
            /\ thread[u].status = "unborn" /\ on' = ts /\ todo' = ts
            /\ thread' = [t \in Threads |-> IF t = u THEN [thread[t] EXCEPT !.status = "live"]
                                            ELSE IF t \in ts THEN OpenedOrPruned(thread[t]) ELSE thread[t]]
      BY <1>5 DEF CreateEmptyThread
    <2>2. u \notin ts
      BY <2>1 DEF Prunable, Live
    <2>3. Forward(thread[u], thread'[u])
      BY <1>0, <2>1 DEF Forward, Thread
    <2>4. \A t \in Threads : /\ Forward(thread[t], thread'[t])
                             /\ t \in on' => thread'[t].ver > thread[t].ver
      BY <1>0, <2>1, <2>2, <2>3, ForwardUpdates
    <2> QED
      BY <1>1, <1>2, <2>1, <2>4, ServingChange
  <1>6. CASE LockThread \/ DeleteThread
    <2> DEFINE ts == Live(cmd[cur].on)
    <2>1. /\ on' = ts /\ todo' = ts
          /\ \A t \in Threads : \/ t \notin ts /\ thread'[t] = thread[t]
                                \/ thread'[t] = WithLock(thread[t], cmd[cur].kind = "lock")
                                \/ thread'[t] = Edited([thread[t] EXCEPT !.status = "deleted"])
      BY <1>6 DEF LockThread, DeleteThread, Change
    <2>2. (cmd[cur].kind = "lock") \in BOOLEAN
      OBVIOUS
    <2> HIDE DEF ts
    <2>3. ASSUME NEW t \in Threads
          PROVE  Forward(thread[t], thread'[t]) /\ (t \in on' => thread'[t].ver > thread[t].ver)
      <3>1. CASE thread'[t] = WithLock(thread[t], cmd[cur].kind = "lock")
        BY <1>0, <2>2, <3>1, ForwardUpdates
      <3>2. CASE thread'[t] = Edited([thread[t] EXCEPT !.status = "deleted"])
        BY <1>0, <3>2, ForwardUpdates
      <3> QED
        BY <1>0, <2>1, <3>1, <3>2
    <2> QED
      BY <1>1, <1>2, <2>1, <2>3, ServingChange
  <1>7. CASE ReadFields
    <2>1. UNCHANGED <<thread, todo>>
      BY <1>7 DEF ReadFields
    <2> QED
      BY <1>0, <1>1, <1>2, <2>1, ServingKept DEF SameStep
  <1> QED
    BY <1>3, <1>4, <1>5, <1>6, <1>7 DEF Body

LEMMA SequencerServing ==
  ASSUME Control, Control', Coherence, Serving, Sequencer
  PROVE  Serving'
  <1>0. \A t \in Threads : thread[t] \in Thread /\ Forward(thread[t], thread[t])
    BY ForwardUpdates DEF Control, TypeOK, HiveType
  <1>1. CASE TakeCommand \/ WantLock \/ NestedHiveReq
    <2>1. UNCHANGED <<thread, acked, page, obj, todo, pc, tid, bp, got, half, floor, seen>>
      BY <1>1 DEF TakeCommand, WantLock, NestedHiveReq, hiveVars, cacheVars, getVars
    <2> QED
      BY <1>0, <2>1, ServingKept DEF SameStep
  <1>2. CASE AddLockPost
    <2>1. /\ UNCHANGED <<acked, page, obj, pc, tid, bp, got, half, floor, seen>>
          /\ todo' = on' /\ todo = {}
          /\ \A t \in Threads : thread'[t] = IF t \in on' THEN WithPost(thread[t]) ELSE thread[t]
      BY <1>2 DEF AddLockPost, cacheVars, getVars, Control, Settled
    <2>2. \A t \in Threads : /\ Forward(thread[t], thread'[t])
                             /\ t \in on' => thread'[t].ver > thread[t].ver
      BY <1>0, <2>1, ForwardUpdates
    <2> QED
      BY <2>1, <2>2, ServingChange
  <1> QED
    BY <1>1, <1>2, ServingAnswer, BodyServing, ServingReplace, ServingReturn DEF Sequencer

LEMMA CommandServing ==
  ASSUME Control, Control', Serving, NEW c \in Clients, Begin(c) \/ CmdStep(c)
  PROVE  Serving'
  <1>1. /\ UNCHANGED <<thread, acked, page, obj, todo, bp, tid, got, half, floor, seen>>
        /\ pc[c] \in {"idle", "send", "answered"}
        /\ \E x \in {"send", "await", "idle"} : pc' = [pc EXCEPT ![c] = x]
    BY DEF Begin, CmdStep, SubmitComment, StaffOrOP, Issue, Send, CheckFields, Finish,
           hiveVars, cacheVars, seqVars, getVars
  <1>2. \A d \in Clients : SameStep(d)
    BY <1>1 DEF SameStep, GetSteps, Control, TypeOK, GetType
  <1>3. \A t \in Threads : Forward(thread[t], thread[t])
    BY ForwardUpdates DEF Control, TypeOK, HiveType
  <1> QED
    BY <1>1, <1>2, <1>3, ServingKept

LEMMA ServingStep == Control /\ Coherence /\ Serving /\ [Next]_vars => Serving'
  <1> SUFFICES ASSUME Control, Coherence, Serving, [Next]_vars PROVE Serving'
    OBVIOUS
  <1>1. Control'
    BY ControlStep
  <1>2. CASE UNCHANGED vars
    <2>1. /\ UNCHANGED <<thread, acked, page, obj, todo, tid, bp, got, half, floor, seen, pc>>
          /\ \A t \in Threads : Forward(thread[t], thread[t])
      BY <1>2, ForwardUpdates DEF vars, hiveVars, cacheVars, seqVars, getVars,
                                  Control, TypeOK, HiveType
    <2> QED
      BY <1>1, <2>1, ServingKept DEF SameStep
  <1>3. CASE Next
    BY <1>1, <1>2, <1>3, GetServing, CommandServing, SequencerServing DEF Next, Quiet
  <1> QED
    BY <1>2, <1>3

\* A page that is served is never older than what any handler had been told was
\* done when the request came in, and is missing only for a thread deleted since.
THEOREM PagesServedAreCurrent == Spec => []ServedCurrent
  <1>1. Init => Control /\ Coherence /\ Serving
    BY InitControl, InitCoherence, InitServing
  <1>2. Control /\ Coherence /\ Serving /\ [Next]_vars => (Control /\ Coherence /\ Serving)'
    BY ControlStep, CoherenceStep, ServingStep
  <1>3. Control /\ Coherence /\ Serving => ServedCurrent
    BY DEF Serving
  <1> QED
    BY <1>1, <1>2, <1>3, PTL DEF Spec
=============================================================================
