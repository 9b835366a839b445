------------------------------ MODULE Listeners ------------------------------
(***************************************************************************)
(* The websockets of a thread's readers: threadUpdater (board.go) hands a  *)
(* socket to the sequencer and waits on a channel, Done; the sequencer     *)
(* enters it among the listeners of its thread and writes every new post   *)
(* to all of them (broadcastPost of threads.go), one after the other,      *)
(* before it does anything else.  A socket that fails is set to nil in the *)
(* slice and its handler told through Done.                                *)
(*                                                                         *)
(* A client is one connection.  It may stop reading, which makes the write *)
(* to it wait, or leave, after which a write may fail or not yet.          *)
(***************************************************************************)
EXTENDS Integers, FiniteSets, SequencesExt

CONSTANTS
  Clients,         \* connections
  Threads,         \* ids of threads, all of them there at first
  None,            \* no thread, no subscription
  RegQueueSize,    \* capacity of regListener (100 in the code)
  MaxPosts         \* bound: posts

ASSUME ListenersAssumption ==
  /\ RegQueueSize \in Nat \ {0} /\ MaxPosts \in Nat
  /\ None \notin Threads /\ None \notin [thread : Threads, from : Nat]

VARIABLES
  alive,        \* the keys of hive.Threads
  listeners,   \* t.Listeners: the client of each, and whether Sock is not nil
  regListener,  \* the channel
  Done,         \* the channel of each registration: empty, or full and closed
  pc,           \* where the handler of each client is
  target,       \* the thread it asks for
  client,       \* the client: here, stalled or gone
  cur,          \* the thread whose post is being broadcast
  i,            \* where broadcastPost is in the slice
  log,          \* history: the posts of each thread
  sub,          \* history: the thread each client was entered for, and when
  received      \* what each client has received

netVars == <<pc, target, client>>
seqVars == <<cur, i>>
vars == <<alive, listeners, regListener, Done, netVars, seqVars, log, sub, received>>

Numbers == 1 .. MaxPosts
Posted  == UNION {ToSet(log[t]) : t \in Threads}

TypeOK ==
  /\ alive \subseteq Threads
  /\ listeners \in [Threads -> Seq([client : Clients, sock : BOOLEAN])]
  /\ regListener \in Seq(Clients) /\ Len(regListener) <= RegQueueSize
  /\ Done \in [Clients -> {"empty", "closed"}]
  /\ pc \in [Clients -> {"none", "register", "wait", "done"}]
  /\ target \in [Clients -> Threads \cup {None}]
  /\ client \in [Clients -> {"here", "stalled", "gone"}]
  /\ cur \in alive \cup {None} /\ i \in Nat
  /\ cur # None => i \in 1 .. Len(listeners[cur]) + 1
  /\ log \in [Threads -> Seq(Numbers)]
  /\ sub \in [Clients -> [thread : Threads, from : Nat] \cup {None}]
  /\ received \in [Clients -> Seq(Numbers)]

Init ==
  /\ alive = Threads
  /\ listeners = [t \in Threads |-> <<>>] /\ regListener = <<>>
  /\ Done = [c \in Clients |-> "empty"]
  /\ pc = [c \in Clients |-> "none"] /\ target = [c \in Clients |-> None]
  /\ client = [c \in Clients |-> "here"]
  /\ cur = None /\ i = 0
  /\ log = [t \in Threads |-> <<>>]
  /\ sub = [c \in Clients |-> None] /\ received = [c \in Clients |-> <<>>]

-----------------------------------------------------------------------------
(* threadUpdater                                                           *)

Connect(c) ==
  /\ pc[c] = "none"
  /\ \E t \in Threads : target' = [target EXCEPT ![c] = t]
  /\ pc' = [pc EXCEPT ![c] = "register"]
  /\ UNCHANGED <<alive, listeners, regListener, Done, client, seqVars, log, sub, received>>

\* Mutant: the handler does not wait for Done.
RegisterOnly(c) ==
  /\ pc[c] = "register" /\ Len(regListener) < RegQueueSize
  /\ regListener' = Append(regListener, c)
  /\ pc' = [pc EXCEPT ![c] = "done"]
  /\ UNCHANGED <<alive, listeners, Done, target, client, seqVars, log, sub, received>>

\* Mutant: the registration is sent however many there are.
RegisterUnbounded(c) ==
  /\ pc[c] = "register"
  /\ regListener' = Append(regListener, c)
  /\ pc' = [pc EXCEPT ![c] = "wait"]
  /\ UNCHANGED <<alive, listeners, Done, target, client, seqVars, log, sub, received>>

\* regListener <- reg
Register(c) ==
  /\ pc[c] = "register" /\ Len(regListener) < RegQueueSize
  /\ regListener' = Append(regListener, c)
  /\ pc' = [pc EXCEPT ![c] = "wait"]
  /\ UNCHANGED <<alive, listeners, Done, target, client, seqVars, log, sub, received>>

\* <-reg.Done; the websocket is closed when the handler returns.
Return(c) ==
  /\ pc[c] = "wait" /\ Done[c] = "closed"
  /\ pc' = [pc EXCEPT ![c] = "done"]
  /\ UNCHANGED <<alive, listeners, regListener, Done, target, client, seqVars, log, sub, received>>

Stall(c) ==
  /\ pc[c] # "none" /\ client[c] = "here"
  /\ client' = [client EXCEPT ![c] = "stalled"]
  /\ UNCHANGED <<alive, listeners, regListener, Done, pc, target, seqVars, log, sub, received>>

Resume(c) ==
  /\ client[c] = "stalled"
  /\ client' = [client EXCEPT ![c] = "here"]
  /\ UNCHANGED <<alive, listeners, regListener, Done, pc, target, seqVars, log, sub, received>>

Leave(c) ==
  /\ pc[c] # "none" /\ client[c] # "gone"
  /\ client' = [client EXCEPT ![c] = "gone"]
  /\ UNCHANGED <<alive, listeners, regListener, Done, pc, target, seqVars, log, sub, received>>

-----------------------------------------------------------------------------
(* The sequencer, which does one thing at a time                           *)

Idle == cur = None

\* A registration for a thread that is not there is dropped without a word.
AddThreadListener ==
  /\ Idle /\ regListener # <<>>
  /\ LET c == Head(regListener)  t == target[c] IN
       IF t \in alive
       THEN /\ listeners' = [listeners EXCEPT ![t] = Append(@, [client |-> c, sock |-> TRUE])]
            /\ sub' = [sub EXCEPT ![c] = [thread |-> t, from |-> Len(log[t])]]
       ELSE UNCHANGED <<listeners, sub>>
  /\ regListener' = Tail(regListener)
  /\ UNCHANGED <<alive, Done, netVars, seqVars, log, received>>

\* thread.AddPost, up to the loop of broadcastPost.
AddPost(t) ==
  /\ Idle /\ t \in alive /\ Cardinality(Posted) < MaxPosts
  /\ log' = [log EXCEPT ![t] = Append(@, Cardinality(Posted) + 1)]
  /\ cur' = t /\ i' = 1
  /\ UNCHANGED <<alive, listeners, regListener, Done, netVars, sub, received>>

\* The listeners go with the thread, and nobody tells their handlers.
DeleteThread(t) ==
  /\ Idle /\ t \in alive
  /\ alive' = alive \ {t}
  /\ listeners' = [listeners EXCEPT ![t] = <<>>]
  /\ UNCHANGED <<regListener, Done, netVars, seqVars, log, sub, received>>

InLoop == cur # None /\ i <= Len(listeners[cur])

SkipNil ==
  /\ InLoop /\ ~listeners[cur][i].sock
  /\ i' = i + 1
  /\ UNCHANGED <<alive, listeners, regListener, Done, netVars, cur, log, sub, received>>

\* io.WriteString(ws, msg): what is written to a client that has left is lost.
WriteTo ==
  /\ InLoop /\ listeners[cur][i].sock
  /\ LET c == listeners[cur][i].client IN
       /\ client[c] # "stalled"
       /\ received' = IF client[c] = "here"
                      THEN [received EXCEPT ![c] = Append(@, Last(log[cur]))] ELSE received
  /\ i' = i + 1
  /\ UNCHANGED <<alive, listeners, regListener, Done, netVars, cur, log, sub>>

\* Mutant: the listener is taken out of the slice that is being ranged over.
WriteFailsRemove ==
  /\ InLoop /\ listeners[cur][i].sock
  /\ LET c == listeners[cur][i].client IN
       /\ client[c] = "gone" /\ Done[c] = "empty"
       /\ listeners' = [listeners EXCEPT ![cur] = RemoveAt(@, i)]
       /\ Done' = [Done EXCEPT ![c] = "closed"]
  /\ i' = i + 1
  /\ UNCHANGED <<alive, regListener, netVars, cur, log, sub, received>>

\* Mutant: the first failure ends the loop.
WriteFailsStop ==
  /\ InLoop /\ listeners[cur][i].sock
  /\ LET c == listeners[cur][i].client IN
       /\ client[c] = "gone" /\ Done[c] = "empty"
       /\ listeners' = [listeners EXCEPT ![cur][i].sock = FALSE]
       /\ Done' = [Done EXCEPT ![c] = "closed"]
  /\ i' = Len(listeners[cur]) + 1
  /\ UNCHANGED <<alive, regListener, netVars, cur, log, sub, received>>

\* The socket is closed and set to nil, Done sent to and closed.
WriteFails ==
  /\ InLoop /\ listeners[cur][i].sock
  /\ LET c == listeners[cur][i].client IN
       /\ client[c] = "gone" /\ Done[c] = "empty"
       /\ listeners' = [listeners EXCEPT ![cur][i].sock = FALSE]
       /\ Done' = [Done EXCEPT ![c] = "closed"]
  /\ i' = i + 1
  /\ UNCHANGED <<alive, regListener, netVars, cur, log, sub, received>>

LoopEnds ==
  /\ cur # None /\ i > Len(listeners[cur])
  /\ cur' = None /\ i' = 0
  /\ UNCHANGED <<alive, listeners, regListener, Done, netVars, log, sub, received>>

-----------------------------------------------------------------------------
Broadcast == SkipNil \/ WriteTo \/ WriteFails \/ LoopEnds

Next ==
  \/ \E c \in Clients : \/ Connect(c) \/ Register(c) \/ Return(c)
                        \/ Stall(c) \/ Resume(c) \/ Leave(c)
  \/ \E t \in Threads : AddPost(t) \/ DeleteThread(t)
  \/ AddThreadListener \/ Broadcast

Spec == Init /\ [][Next]_vars

-----------------------------------------------------------------------------
(* A client receives the posts of its thread since it was entered, without *)
(* a gap, a repetition or a change of order (threads.go 288-308).          *)
FeedOf == INSTANCE Feed WITH Posts <- Numbers, log <- log, sub <- sub, received <- received
FeedSpec == FeedOf!Spec

(* When a broadcast is over, everybody in the slice who is still there has *)
(* received every post since he was entered, whoever failed before him.    *)
AllDelivered ==
  Idle => \A c \in Clients :
    sub[c] # None /\ sub[c].thread \in alive /\ client[c] # "gone" =>
      received[c] = SubSeq(log[sub[c].thread], sub[c].from + 1, Len(log[sub[c].thread]))

(* "the handler blocks on a channel waiting for notification that the      *)
(* thread is no longer broadcasting" (board.go 218-221): no post is        *)
(* written to a socket whose handler has returned, and none is told twice, *)
(* which would stop the sequencer.                                         *)
HandlerOutlives ==
  \A t \in Threads : \A k \in DOMAIN listeners[t] :
    LET c == listeners[t][k].client IN
      /\ listeners[t][k].sock => pc[c] = "wait" /\ Done[c] = "empty"
      /\ ~listeners[t][k].sock => Done[c] = "closed"
=============================================================================
