--------------------------- MODULE ListenersProofs ---------------------------
(***************************************************************************)
(* Listeners implements Feed, for any clients, threads and capacity of the *)
(* channel of registrations.                                               *)
(*                                                                         *)
(* What makes it so is that a client is in one place only: waiting in the  *)
(* channel, or in one slice at one index, which never changes because      *)
(* sockets are set to nil and not removed (Placed).  Hence broadcastPost   *)
(* gives each of them the last post once, and those before the index i are *)
(* one post ahead of those from it on (Current).                           *)
(***************************************************************************)
EXTENDS Listeners, FiniteSetTheorems, TLAPS

Slice(t) == 1 .. Len(listeners[t])

\* A registration in the channel: its handler waits, and it is there once.
Queued ==
  /\ \A k \in 1 .. Len(regListener) :
       pc[regListener[k]] = "wait" /\ Done[regListener[k]] = "empty" /\ sub[regListener[k]] = None
  /\ \A k, m \in 1 .. Len(regListener) : regListener[k] = regListener[m] => k = m

Unregistered ==
  \A c \in Clients :
    /\ pc[c] \in {"none", "register"} => sub[c] = None /\ Done[c] = "empty"
    /\ pc[c] # "none" => target[c] \in Threads

\* A listener belongs to the thread of its slice, and has failed only if its
\* client has left.
Entered ==
  \A t \in Threads : \A k \in Slice(t) :
    LET l == listeners[t][k] IN
      /\ sub[l.client] # None /\ sub[l.client].thread = t
      /\ ~l.sock => client[l.client] = "gone"

EnteredOnce ==
  \A t \in Threads : \A k, m \in Slice(t) :
    listeners[t][k].client = listeners[t][m].client => k = m

StillThere ==
  \A c \in Clients : sub[c] # None /\ sub[c].thread \in alive =>
    \E k \in Slice(sub[c].thread) : listeners[sub[c].thread][k].client = c

Placed == Queued /\ Unregistered /\ Entered /\ EnteredOnce /\ StillThere /\ HandlerOutlives

\* What a client has is a part of the log that begins where it was entered.
Prefix ==
  \A c \in Clients :
    /\ sub[c] = None => received[c] = <<>>
    /\ sub[c] # None =>
         /\ sub[c].from + Len(received[c]) <= Len(log[sub[c].thread])
         /\ \A j \in 1 .. Len(received[c]) : received[c][j] = log[sub[c].thread][sub[c].from + j]

\* Those the present broadcast has not come to lack one post.
Current ==
  \A t \in Threads : \A k \in Slice(t) :
    LET c == listeners[t][k].client IN
      client[c] # "gone" =>
        sub[c].from + Len(received[c]) = IF cur = t /\ k >= i THEN Len(log[t]) - 1 ELSE Len(log[t])

Inv == TypeOK /\ Placed /\ Prefix /\ Current

-----------------------------------------------------------------------------
LEMMA HeadTail ==
  ASSUME NEW S, NEW s \in Seq(S), s # <<>>
  PROVE  /\ Head(s) \in S /\ Head(s) = s[1] /\ 1 \in 1 .. Len(s)
         /\ Tail(s) \in Seq(S) /\ Len(Tail(s)) = Len(s) - 1
         /\ \A k \in 1 .. Len(Tail(s)) : Tail(s)[k] = s[k + 1] /\ k + 1 \in 1 .. Len(s)
  OBVIOUS

LEMMA Appended ==
  ASSUME NEW S, NEW s \in Seq(S), NEW x \in S
  PROVE  /\ Append(s, x) \in Seq(S) /\ Len(Append(s, x)) = Len(s) + 1
         /\ \A k \in 1 .. Len(s) : Append(s, x)[k] = s[k]
         /\ Append(s, x)[Len(s) + 1] = x
  OBVIOUS

LEMMA Types ==
  ASSUME TypeOK
  PROVE  /\ \A t \in Threads : listeners[t] \in Seq([client : Clients, sock : BOOLEAN])
         /\ \A t \in Threads : \A k \in Slice(t) :
              listeners[t][k] \in [client : Clients, sock : BOOLEAN]
         /\ \A t \in Threads : log[t] \in Seq(Numbers)
         /\ \A c \in Clients : received[c] \in Seq(Numbers)
         /\ \A c \in Clients : sub[c] # None => sub[c].thread \in Threads /\ sub[c].from \in Nat
         /\ cur # None => cur \in alive /\ cur \in Threads
         /\ None \notin alive
<1>1. \A t \in Threads : listeners[t] \in Seq([client : Clients, sock : BOOLEAN])
  BY DEF TypeOK
<1>2. ASSUME NEW t \in Threads, NEW k \in Slice(t)
      PROVE  listeners[t][k] \in [client : Clients, sock : BOOLEAN]
  <2> DEFINE L == [client : Clients, sock : BOOLEAN]
  <2>1. listeners[t] \in Seq(L) /\ k \in 1 .. Len(listeners[t])
    BY <1>1 DEF Slice
  <2> HIDE DEF L
  <2>2. listeners[t][k] \in L
    BY <2>1
  <2> QED
    BY <2>2 DEF L
<1>3. \A c \in Clients : sub[c] # None => sub[c].thread \in Threads /\ sub[c].from \in Nat
  BY DEF TypeOK
<1>4. (cur # None => cur \in alive /\ cur \in Threads) /\ None \notin alive
  BY ListenersAssumption DEF TypeOK
<1>5. (\A t \in Threads : log[t] \in Seq(Numbers)) /\ \A c \in Clients : received[c] \in Seq(Numbers)
  BY DEF TypeOK
<1> QED
  BY <1>1, <1>2, <1>3, <1>4, <1>5

LEMMA InitInv == Init => Inv
<1> SUFFICES ASSUME Init PROVE Inv
  OBVIOUS
<1>1. TypeOK
  BY ListenersAssumption DEF Init, TypeOK
<1>2. Placed
  BY DEF Init, Placed, Queued, Unregistered, Entered, EnteredOnce, StillThere, HandlerOutlives, Slice
<1>3. Prefix /\ Current
  BY DEF Init, Prefix, Current, Slice
<1> QED
  BY <1>1, <1>2, <1>3 DEF Inv

-----------------------------------------------------------------------------
(* The handlers and their clients                                          *)

LEMMA ConnectInv == ASSUME Inv, NEW c \in Clients, Connect(c) PROVE Inv'
<1> USE DEF Connect, seqVars
<1>1. TypeOK'
  BY DEF Inv, TypeOK
<1>2. Placed'
  BY DEF Inv, TypeOK, Placed, Queued, Unregistered, Entered, EnteredOnce, StillThere, HandlerOutlives, Slice
<1>3. Prefix' /\ Current'
  BY DEF Inv, Prefix, Current, Slice, seqVars
<1> QED
  BY <1>1, <1>2, <1>3 DEF Inv

LEMMA RegisterInv == ASSUME Inv, NEW c \in Clients, Register(c) PROVE Inv'
<1> USE DEF Register, seqVars
<1>1. /\ regListener' \in Seq(Clients) /\ Len(regListener') = Len(regListener) + 1
      /\ \A k \in 1 .. Len(regListener) : regListener'[k] = regListener[k] /\ regListener[k] \in Clients
      /\ regListener'[Len(regListener) + 1] = c
  BY Appended DEF Inv, TypeOK
<1>2. TypeOK'
  BY <1>1, ListenersAssumption DEF Inv, TypeOK
<1>3. Queued' /\ Unregistered'
  BY <1>1 DEF Inv, TypeOK, Placed, Queued, Unregistered
<1>4. Entered' /\ EnteredOnce' /\ StillThere' 
  BY DEF Inv, Placed, Entered, EnteredOnce, StillThere, Slice
<1>5. HandlerOutlives'
  BY DEF Inv, TypeOK, Placed, HandlerOutlives
<1>6. Prefix' /\ Current'
  BY DEF Inv, Prefix, Current, Slice, seqVars
<1> QED
  BY <1>2, <1>3, <1>4, <1>5, <1>6 DEF Inv, Placed

LEMMA ReturnInv == ASSUME Inv, NEW c \in Clients, Return(c) PROVE Inv'
<1> USE DEF Return, seqVars
<1>1. TypeOK'
  BY DEF Inv, TypeOK
<1>2. Queued' /\ Unregistered' /\ Entered' /\ EnteredOnce' /\ StillThere'
  BY DEF Inv, TypeOK, Placed, Queued, Unregistered, Entered, EnteredOnce, StillThere, Slice
<1>3. HandlerOutlives'
  BY DEF Inv, TypeOK, Placed, HandlerOutlives
<1>4. Prefix' /\ Current'
  BY DEF Inv, Prefix, Current, Slice, seqVars
<1> QED
  BY <1>1, <1>2, <1>3, <1>4 DEF Inv, Placed

LEMMA ClientInv ==
  ASSUME Inv, NEW c \in Clients, Stall(c) \/ Resume(c) \/ Leave(c)
  PROVE  Inv'
<1>1. /\ \A d \in Clients : client[d] = "gone" => client'[d] = "gone"
      /\ client' \in [Clients -> {"here", "stalled", "gone"}]
  BY DEF Inv, TypeOK, Stall, Resume, Leave
<1>2. UNCHANGED <<alive, listeners, regListener, Done, pc, target, seqVars, log, sub, received>>
  BY DEF Stall, Resume, Leave
<1>3. TypeOK'
  BY <1>1, <1>2 DEF Inv, TypeOK, seqVars
<1>4. Placed'
  <2>1. Queued' /\ Unregistered' /\ EnteredOnce' /\ StillThere' /\ HandlerOutlives'
    BY <1>2 DEF Inv, Placed, Queued, Unregistered, EnteredOnce, StillThere, HandlerOutlives, Slice
  <2>2. Entered'
    <3> SUFFICES ASSUME NEW t \in Threads, NEW k \in Slice(t)
                 PROVE  LET l == listeners[t][k] IN
                          /\ sub[l.client] # None /\ sub[l.client].thread = t
                          /\ ~l.sock => client'[l.client] = "gone"
      BY <1>2 DEF Entered, Slice
    <3>1. listeners[t][k].client \in Clients
      BY Types DEF Inv
    <3> QED
      BY <1>1, <3>1 DEF Inv, Placed, Entered
  <2> QED
    BY <2>1, <2>2 DEF Placed
<1>5. Prefix'
  BY <1>2 DEF Inv, Prefix
<1>6. Current'
  BY <1>1, <1>2, Types DEF Inv, Current, Slice, seqVars
<1> QED
  BY <1>3, <1>4, <1>5, <1>6 DEF Inv

-----------------------------------------------------------------------------
(* The sequencer                                                           *)

\* What is left in the channel when the first registration is taken.
LEMMA TakeFirst ==
  ASSUME Inv, regListener # <<>>, regListener' = Tail(regListener)
  PROVE  /\ Head(regListener) \in Clients
         /\ pc[Head(regListener)] = "wait" /\ Done[Head(regListener)] = "empty"
         /\ sub[Head(regListener)] = None
         /\ regListener' \in Seq(Clients) /\ Len(regListener') <= RegQueueSize
         /\ \A k \in 1 .. Len(regListener') :
              LET d == regListener'[k] IN
                /\ d \in Clients /\ d # Head(regListener)
                /\ pc[d] = "wait" /\ Done[d] = "empty" /\ sub[d] = None
         /\ \A k, m \in 1 .. Len(regListener') : regListener'[k] = regListener'[m] => k = m
<1> DEFINE s == regListener
           r == regListener'
<1>1. /\ s \in Seq(Clients) /\ s # <<>> /\ Len(s) \in Nat /\ Len(s) <= RegQueueSize
      /\ RegQueueSize \in Nat
  BY ListenersAssumption DEF Inv, TypeOK
<1>2. /\ Head(s) \in Clients /\ Head(s) = s[1] /\ 1 \in 1 .. Len(s)
      /\ r \in Seq(Clients) /\ Len(r) = Len(s) - 1
      /\ \A k \in 1 .. Len(r) : r[k] = s[k + 1] /\ k + 1 \in 1 .. Len(s)
  BY <1>1, HeadTail
<1>3. /\ \A k \in 1 .. Len(s) : pc[s[k]] = "wait" /\ Done[s[k]] = "empty" /\ sub[s[k]] = None
      /\ \A k, m \in 1 .. Len(s) : s[k] = s[m] => k = m
      /\ \A k \in 1 .. Len(s) : s[k] \in Clients
  BY <1>1 DEF Inv, Placed, Queued
<1> HIDE DEF s, r
<1>4. ASSUME NEW k \in 1 .. Len(r)
      PROVE  /\ r[k] \in Clients /\ r[k] # Head(s)
             /\ pc[r[k]] = "wait" /\ Done[r[k]] = "empty" /\ sub[r[k]] = None
             /\ \A m \in 1 .. Len(r) : r[k] = r[m] => k = m
  <2>1. k \in Int /\ k + 1 # 1 /\ k + 1 \in 1 .. Len(s) /\ r[k] = s[k + 1]
    BY <1>1, <1>2
  <2>2. \A m \in 1 .. Len(r) : m \in Int /\ m + 1 \in 1 .. Len(s) /\ r[m] = s[m + 1]
    BY <1>1, <1>2
  <2> QED
    BY <1>2, <1>3, <2>1, <2>2
<1> QED
  BY <1>1, <1>2, <1>3, <1>4 DEF s, r

\* A registration for a thread that is there.
LEMMA EnterInv ==
  ASSUME Inv, AddThreadListener, target[Head(regListener)] \in alive
  PROVE  Inv'
<1>a. PICK c \in Clients : c = Head(regListener)
  BY TakeFirst DEF AddThreadListener
<1>b. PICK t \in Threads : t = target[c] /\ t \in alive
  BY <1>a DEF Inv, TypeOK
<1> DEFINE n == Len(listeners[t])
<1>1. /\ c \in Clients
      /\ regListener' \in Seq(Clients) /\ Len(regListener') <= RegQueueSize
      /\ \A k \in 1 .. Len(regListener') :
           LET d == regListener'[k] IN
             d \in Clients /\ d # c /\ pc[d] = "wait" /\ Done[d] = "empty" /\ sub[d] = None
      /\ \A k, m \in 1 .. Len(regListener') : regListener'[k] = regListener'[m] => k = m
  BY <1>a, TakeFirst DEF AddThreadListener
<1>2. /\ pc[c] = "wait" /\ Done[c] = "empty" /\ sub[c] = None /\ t \in alive /\ t \in Threads
      /\ received[c] = <<>>
  BY <1>a, <1>b, TakeFirst DEF AddThreadListener, Inv, Prefix
<1>3. /\ listeners' = [listeners EXCEPT ![t] = Append(@, [client |-> c, sock |-> TRUE])]
      /\ sub' = [sub EXCEPT ![c] = [thread |-> t, from |-> Len(log[t])]]
      /\ UNCHANGED <<alive, Done, pc, target, client, cur, i, log, received>>
      /\ cur = None
  BY <1>a, <1>b DEF AddThreadListener, netVars, seqVars, Idle
<1>4. /\ \A u \in Threads : u # t => listeners'[u] = listeners[u]
      /\ listeners'[t] \in Seq([client : Clients, sock : BOOLEAN])
      /\ n \in Nat /\ Len(listeners'[t]) = n + 1
      /\ \A k \in 1 .. n : listeners'[t][k] = listeners[t][k]
      /\ listeners'[t][n + 1] = [client |-> c, sock |-> TRUE]
  <2>1. listeners'[t] = Append(listeners[t], [client |-> c, sock |-> TRUE])
    BY <1>3 DEF Inv, TypeOK
  <2>2. [client |-> c, sock |-> TRUE] \in [client : Clients, sock : BOOLEAN]
    BY <1>1
  <2>3. listeners[t] \in Seq([client : Clients, sock : BOOLEAN])
    BY <1>2, Types DEF Inv
  <2> QED
    BY <1>2, <1>3, <2>1, <2>2, <2>3, Appended DEF Inv, TypeOK
<1>5. /\ \A d \in Clients : d # c => sub'[d] = sub[d]
      /\ sub'[c] # None /\ sub'[c].thread = t /\ sub'[c].from = Len(log[t])
      /\ sub'[c] \in [thread : Threads, from : Nat]
  <2>1. Len(log[t]) \in Nat
    BY <1>2, Types DEF Inv
  <2> QED
    BY <1>1, <1>2, <1>3, <2>1, ListenersAssumption DEF Inv, TypeOK
<1>6. \A u \in Threads : \A k \in Slice(u) : listeners[u][k].client \in Clients /\ listeners[u][k].client # c
  BY <1>2, Types DEF Inv, Placed, Entered
<1> HIDE DEF n
<1>7. TypeOK'
  <2>1. listeners' \in [Threads -> Seq([client : Clients, sock : BOOLEAN])]
    BY <1>2, <1>3, <1>4 DEF Inv, TypeOK
  <2>2. sub' \in [Clients -> [thread : Threads, from : Nat] \cup {None}]
    BY <1>1, <1>3, <1>5 DEF Inv, TypeOK
  <2>3. cur' = None
    BY <1>3
  <2> QED
    BY <1>1, <1>3, <2>1, <2>2, <2>3 DEF Inv, TypeOK
<1>8. Queued'
  BY <1>1, <1>3, <1>5 DEF Queued
<1>9. Unregistered'
  BY <1>2, <1>3, <1>5 DEF Inv, Placed, Unregistered
<1>10. /\ Slice(t)' = 1 .. n + 1 /\ Slice(t) = 1 .. n
       /\ \A u \in Threads : u # t => Slice(u)' = Slice(u)
       /\ \A k \in 1 .. n + 1 : k \in 1 .. n \/ k = n + 1
  BY <1>4 DEF Slice, n
<1>11. Entered'
  <2> SUFFICES ASSUME NEW u \in Threads, NEW k \in Slice(u)'
               PROVE  LET l == listeners'[u][k] IN
                        /\ sub'[l.client] # None /\ sub'[l.client].thread = u
                        /\ ~l.sock => client'[l.client] = "gone"
    BY DEF Entered
  <2>1. CASE u = t /\ k = n + 1
    BY <1>4, <1>5, <2>1
  <2>2. CASE k \in Slice(u) /\ listeners'[u][k] = listeners[u][k]
    <3> DEFINE d == listeners[u][k].client
    <3>1. d \in Clients /\ d # c /\ sub'[d] = sub[d]
      BY <1>5, <1>6, <2>2
    <3> HIDE DEF d
    <3>2. sub[d] # None /\ sub[d].thread = u /\ (~listeners[u][k].sock => client[d] = "gone")
      BY <2>2 DEF Inv, Placed, Entered, d
    <3> QED
      BY <1>3, <2>2, <3>1, <3>2 DEF d
  <2> QED
    BY <1>4, <1>10, <2>1, <2>2
<1>12. EnteredOnce'
  <2> SUFFICES ASSUME NEW u \in Threads, NEW k \in Slice(u)', NEW m \in Slice(u)',
                      listeners'[u][k].client = listeners'[u][m].client
               PROVE  k = m
    BY DEF EnteredOnce
  <2>1. CASE u = t
    <3>1. ASSUME NEW j \in 1 .. n
          PROVE  listeners'[t][j] = listeners[t][j] /\ listeners[t][j].client # c /\ j \in Slice(t)
      BY <1>2, <1>4, <1>6 DEF Slice, n
    <3>2. k \in 1 .. n + 1 /\ m \in 1 .. n + 1
      BY <1>10, <2>1
    <3>3. CASE k \in 1 .. n /\ m \in 1 .. n
      BY <1>2, <2>1, <3>1, <3>3 DEF Inv, Placed, EnteredOnce
    <3>4. CASE k = n + 1 \/ m = n + 1
      BY <1>4, <1>10, <2>1, <3>1, <3>2, <3>4
    <3> QED
      BY <1>10, <3>2, <3>3, <3>4
  <2>2. CASE u # t
    BY <1>4, <2>2 DEF Inv, Placed, EnteredOnce, Slice
  <2> QED
    BY <2>1, <2>2
<1>13. StillThere'
  <2> SUFFICES ASSUME NEW d \in Clients, sub'[d] # None, sub'[d].thread \in alive'
               PROVE  \E k \in 1 .. Len(listeners'[sub'[d].thread]) :
                        listeners'[sub'[d].thread][k].client = d
    BY DEF StillThere, Slice
  <2>1. CASE d = c
    <3>1. n + 1 \in 1 .. Len(listeners'[t]) /\ listeners'[t][n + 1].client = c
      BY <1>4
    <3> QED
      BY <1>5, <2>1, <3>1
  <2>2. CASE d # c
    <3>1. PICK k \in Slice(sub[d].thread) : listeners[sub[d].thread][k].client = d
      BY <1>3, <1>5, <2>2 DEF Inv, Placed, StillThere
    <3>2. sub[d].thread \in Threads /\ sub'[d] = sub[d]
      BY <1>5, <2>2, Types DEF Inv
    <3>3. k \in 1 .. Len(listeners'[sub[d].thread]) /\ listeners'[sub[d].thread][k] = listeners[sub[d].thread][k]
      BY <1>4, <3>2 DEF Slice, n
    <3> QED
      BY <3>1, <3>2, <3>3
  <2> QED
    BY <2>1, <2>2
<1>14. HandlerOutlives'
  <2> SUFFICES ASSUME NEW u \in Threads, NEW k \in DOMAIN listeners'[u]
               PROVE  LET d == listeners'[u][k].client IN
                        /\ listeners'[u][k].sock => pc'[d] = "wait" /\ Done'[d] = "empty"
                        /\ ~listeners'[u][k].sock => Done'[d] = "closed"
    BY DEF HandlerOutlives
  <2>1. CASE u = t /\ k = n + 1
    BY <1>2, <1>3, <1>4, <2>1
  <2>2. CASE k \in DOMAIN listeners[u] /\ listeners'[u][k] = listeners[u][k]
    BY <1>3, <2>2 DEF Inv, Placed, HandlerOutlives
  <2>3. CASE u = t /\ k # n + 1
    <3>1. DOMAIN listeners'[t] = 1 .. n + 1 /\ DOMAIN listeners[t] = 1 .. n
      BY <1>2, <1>4, Types DEF n, Inv
    <3> QED
      BY <1>4, <2>2, <2>3, <3>1
  <2> QED
    BY <1>4, <2>1, <2>2, <2>3
<1>15. Prefix'
  BY <1>2, <1>3, <1>5, Types DEF Inv, Prefix
<1>16. Current'
  <2> SUFFICES ASSUME NEW u \in Threads, NEW k \in Slice(u)', client'[listeners'[u][k].client] # "gone"
               PROVE  LET d == listeners'[u][k].client IN
                        sub'[d].from + Len(received'[d]) = Len(log'[u])
    BY <1>2, <1>3, ListenersAssumption DEF Current
  <2>1. CASE u = t /\ k = n + 1
    BY <1>2, <1>3, <1>4, <1>5, <2>1, Types DEF Inv
  <2>2. CASE k \in Slice(u) /\ listeners'[u][k] = listeners[u][k]
    <3> DEFINE d == listeners[u][k].client
    <3>1. d \in Clients /\ d # c /\ sub'[d] = sub[d]
      BY <1>5, <1>6, <2>2
    <3>2. cur # u
      BY <1>3, ListenersAssumption
    <3> HIDE DEF d
    <3>3. client[d] # "gone" => sub[d].from + Len(received[d]) = Len(log[u])
      BY <2>2, <3>2 DEF Inv, Current, d
    <3> QED
      BY <1>3, <2>2, <3>1, <3>3 DEF d
  <2> QED
    BY <1>4, <1>10, <2>1, <2>2
<1> QED
  BY <1>7, <1>8, <1>9, <1>11, <1>12, <1>13, <1>14, <1>15, <1>16 DEF Inv, Placed

\* A registration for one that is not.
LEMMA DropInv ==
  ASSUME Inv, AddThreadListener, target[Head(regListener)] \notin alive
  PROVE  Inv'
<1>1. /\ regListener' \in Seq(Clients) /\ Len(regListener') <= RegQueueSize
      /\ \A k \in 1 .. Len(regListener') :
           LET d == regListener'[k] IN pc[d] = "wait" /\ Done[d] = "empty" /\ sub[d] = None
      /\ \A k, m \in 1 .. Len(regListener') : regListener'[k] = regListener'[m] => k = m
  BY TakeFirst DEF AddThreadListener
<1>2. UNCHANGED <<alive, listeners, Done, pc, target, client, cur, i, log, sub, received>>
  BY DEF AddThreadListener, netVars, seqVars
<1>3. TypeOK'
  BY <1>1, <1>2 DEF Inv, TypeOK
<1>4. Queued'
  BY <1>1, <1>2 DEF Queued
<1>5. Unregistered' /\ Entered' /\ EnteredOnce' /\ StillThere' /\ HandlerOutlives'
  BY <1>2 DEF Inv, Placed, Unregistered, Entered, EnteredOnce, StillThere, HandlerOutlives, Slice
<1>6. Prefix' /\ Current'
  BY <1>2 DEF Inv, Prefix, Current, Slice
<1> QED
  BY <1>3, <1>4, <1>5, <1>6 DEF Inv, Placed

\* Numbers of posts run out before they are given twice.
LEMMA PostedCount == TypeOK => Cardinality(Posted) \in Nat
<1> SUFFICES ASSUME TypeOK PROVE Cardinality(Posted) \in Nat
  OBVIOUS
<1>1. Posted \subseteq Numbers
  <2>1. ASSUME NEW t \in Threads, NEW k \in DOMAIN log[t] PROVE log[t][k] \in Numbers
    BY Types
  <2> QED
    BY <2>1 DEF Posted, ToSet
<1>2. IsFiniteSet(Numbers)
  BY ListenersAssumption, FS_Interval DEF Numbers
<1> QED
  BY <1>1, <1>2, FS_Subset, FS_CardinalityType

LEMMA AddPostInv == ASSUME Inv, NEW t \in Threads, AddPost(t) PROVE Inv'
<1> DEFINE p == Cardinality(Posted) + 1
           n == Len(log[t])
<1>1. /\ log[t] \in Seq(Numbers) /\ n \in Nat /\ p \in Numbers
      /\ log' = [log EXCEPT ![t] = Append(@, p)]
  BY PostedCount, Types, ListenersAssumption DEF Inv, AddPost, Numbers
<1> HIDE DEF p
<1>2. /\ log'[t] \in Seq(Numbers) /\ Len(log'[t]) = n + 1
      /\ \A j \in 1 .. n : log'[t][j] = log[t][j]
      /\ \A u \in Threads : u # t => log'[u] = log[u]
  BY <1>1, Appended DEF Inv, TypeOK
<1>3. /\ cur = None /\ cur' = t /\ i' = 1 /\ t \in alive
      /\ UNCHANGED <<alive, listeners, regListener, Done, pc, target, client, sub, received>>
  BY DEF AddPost, Idle, netVars
<1> HIDE DEF n
<1>4. TypeOK'
  <2>1. log' \in [Threads -> Seq(Numbers)]
    BY <1>1, <1>2 DEF Inv, TypeOK
  <2>2. 1 \in 1 .. Len(listeners[t]) + 1
    BY Types DEF Inv
  <2> QED
    BY <1>3, <2>1, <2>2 DEF Inv, TypeOK
<1>5. Placed'
  BY <1>3 DEF Inv, Placed, Queued, Unregistered, Entered, EnteredOnce, StillThere, HandlerOutlives, Slice
<1>6. Prefix'
  <2> SUFFICES ASSUME NEW c \in Clients, sub[c] # None
               PROVE  /\ sub[c].from + Len(received[c]) <= Len(log'[sub[c].thread])
                      /\ \A j \in 1 .. Len(received[c]) :
                           received[c][j] = log'[sub[c].thread][sub[c].from + j]
    BY <1>3 DEF Inv, Prefix
  <2>1. /\ sub[c].thread \in Threads /\ sub[c].from \in Nat /\ Len(received[c]) \in Nat
        /\ sub[c].from + Len(received[c]) <= Len(log[sub[c].thread])
        /\ \A j \in 1 .. Len(received[c]) : received[c][j] = log[sub[c].thread][sub[c].from + j]
    BY Types DEF Inv, Prefix
  <2>2. CASE sub[c].thread # t
    BY <1>2, <2>1, <2>2
  <2>3. CASE sub[c].thread = t
    <3>1. \A j \in 1 .. Len(received[c]) : sub[c].from + j \in 1 .. n
      BY <1>1, <2>1, <2>3 DEF n
    <3> QED
      BY <1>1, <1>2, <2>1, <2>3, <3>1 DEF n
  <2> QED
    BY <2>2, <2>3
<1>7. Current'
  <2> SUFFICES ASSUME NEW u \in Threads, NEW k \in Slice(u), client[listeners[u][k].client] # "gone"
               PROVE  LET c == listeners[u][k].client IN
                        sub[c].from + Len(received[c]) =
                          IF t = u /\ k >= 1 THEN Len(log'[u]) - 1 ELSE Len(log'[u])
    BY <1>3 DEF Current, Slice
  <2>1. LET c == listeners[u][k].client IN sub[c].from + Len(received[c]) = Len(log[u])
    BY <1>3, ListenersAssumption DEF Inv, Current
  <2>2. k >= 1 /\ k \in Nat
    BY Types DEF Slice, Inv
  <2> QED
    BY <1>1, <1>2, <2>1, <2>2 DEF n
<1> QED
  BY <1>4, <1>5, <1>6, <1>7 DEF Inv

LEMMA DeleteThreadInv == ASSUME Inv, NEW t \in Threads, DeleteThread(t) PROVE Inv'
<1>1. /\ cur = None /\ alive' = alive \ {t}
      /\ listeners' = [listeners EXCEPT ![t] = <<>>]
      /\ UNCHANGED <<regListener, Done, pc, target, client, cur, i, log, sub, received>>
  BY DEF DeleteThread, Idle, netVars, seqVars
<1>2. listeners'[t] = <<>> /\ \A u \in Threads : u # t => listeners'[u] = listeners[u]
  BY <1>1 DEF Inv, TypeOK
<1>3. \A u \in Threads : \A k \in 1 .. Len(listeners'[u]) : u # t /\ k \in 1 .. Len(listeners[u])
  BY <1>2
<1>4. TypeOK'
  <2> DEFINE L == [client : Clients, sock : BOOLEAN]
  <2>1. listeners \in [Threads -> Seq(L)]
    BY DEF Inv, TypeOK
  <2> HIDE DEF L
  <2>2. <<>> \in Seq(L)
    OBVIOUS
  <2>3. listeners' \in [Threads -> Seq(L)]
    BY <1>1, <2>1, <2>2
  <2> QED
    BY <1>1, <2>3 DEF Inv, TypeOK, L
<1>5. Queued' /\ Unregistered'
  BY <1>1 DEF Inv, Placed, Queued, Unregistered
<1>6. Entered' /\ EnteredOnce'
  BY <1>1, <1>2, <1>3 DEF Inv, Placed, Entered, EnteredOnce, Slice
<1>7. StillThere'
  BY <1>1, <1>2, Types DEF Inv, Placed, StillThere, Slice
<1>8. HandlerOutlives'
  <2> SUFFICES ASSUME NEW u \in Threads, NEW k \in DOMAIN listeners'[u]
               PROVE  LET d == listeners'[u][k].client IN
                        /\ listeners'[u][k].sock => pc'[d] = "wait" /\ Done'[d] = "empty"
                        /\ ~listeners'[u][k].sock => Done'[d] = "closed"
    BY DEF HandlerOutlives
  <2>1. u # t
    BY <1>2
  <2> QED
    BY <1>1, <1>2, <2>1 DEF Inv, Placed, HandlerOutlives
<1>9. Prefix'
  BY <1>1 DEF Inv, Prefix
<1>10. Current'
  BY <1>1, <1>2, <1>3 DEF Inv, Current, Slice
<1> QED
  BY <1>4, <1>5, <1>6, <1>7, <1>8, <1>9, <1>10 DEF Inv, Placed

LEMMA LoopEndsInv == ASSUME Inv, LoopEnds PROVE Inv'
<1>1. /\ cur # None /\ i > Len(listeners[cur]) /\ cur' = None /\ i' = 0
      /\ UNCHANGED <<alive, listeners, regListener, Done, pc, target, client, log, sub, received>>
  BY DEF LoopEnds, netVars
<1>2. TypeOK'
  BY <1>1 DEF Inv, TypeOK
<1>3. Placed'
  BY <1>1 DEF Inv, Placed, Queued, Unregistered, Entered, EnteredOnce, StillThere, HandlerOutlives, Slice
<1>4. Prefix'
  BY <1>1 DEF Inv, Prefix
<1>5. Current'
  <2> SUFFICES ASSUME NEW u \in Threads, NEW k \in Slice(u), client[listeners[u][k].client] # "gone"
               PROVE  LET c == listeners[u][k].client IN
                        sub[c].from + Len(received[c]) = Len(log[u])
    BY <1>1, ListenersAssumption DEF Current, Slice
  <2>1. ~(cur = u /\ k >= i)
    <3>1. k \in Int /\ i \in Int /\ Len(listeners[u]) \in Int /\ k <= Len(listeners[u])
      BY Types DEF Slice, Inv, TypeOK
    <3> QED
      BY <1>1, <3>1
  <2> QED
    BY <2>1 DEF Inv, Current
<1> QED
  BY <1>2, <1>3, <1>4, <1>5 DEF Inv

-----------------------------------------------------------------------------
(* broadcastPost                                                           *)

LEMMA SkipNilInv == ASSUME Inv, SkipNil PROVE Inv'
<1>1. /\ cur # None /\ i <= Len(listeners[cur]) /\ ~listeners[cur][i].sock /\ i' = i + 1
      /\ UNCHANGED <<alive, listeners, regListener, Done, pc, target, client, cur, log, sub, received>>
  BY DEF SkipNil, InLoop, netVars
<1>2. i \in Nat /\ i \in Slice(cur) /\ cur \in Threads
  BY <1>1, Types DEF Inv, TypeOK, Slice
<1>3. TypeOK'
  <2>1. Len(listeners[cur]) \in Nat
    BY <1>2, Types DEF Inv
  <2>2. i + 1 \in 1 .. Len(listeners[cur]) + 1 /\ i + 1 \in Nat
    BY <1>1, <1>2, <2>1
  <2> QED
    BY <1>1, <2>2 DEF Inv, TypeOK
<1>4. Placed'
  BY <1>1 DEF Inv, Placed, Queued, Unregistered, Entered, EnteredOnce, StillThere, HandlerOutlives, Slice
<1>5. Prefix'
  BY <1>1 DEF Inv, Prefix
<1>6. Current'
  <2> SUFFICES ASSUME NEW u \in Threads, NEW k \in Slice(u), client[listeners[u][k].client] # "gone"
               PROVE  LET c == listeners[u][k].client IN
                        sub[c].from + Len(received[c]) =
                          IF cur = u /\ k >= i + 1 THEN Len(log[u]) - 1 ELSE Len(log[u])
    BY <1>1 DEF Current, Slice
  <2>1. ~(cur = u /\ k = i)
    BY <1>1, <1>2 DEF Inv, Placed, Entered
  <2>2. k \in Nat
    BY Types DEF Slice, Inv
  <2>3. (cur = u /\ k >= i + 1) <=> (cur = u /\ k >= i)
    BY <1>2, <2>1, <2>2
  <2> QED
    BY <2>3 DEF Inv, Current
<1> QED
  BY <1>3, <1>4, <1>5, <1>6 DEF Inv

\* Where the loop is: at a listener whose client is registered there only.
LEMMA AtListener ==
  ASSUME Inv, InLoop, listeners[cur][i].sock
  PROVE  /\ cur \in Threads /\ i \in Slice(cur) /\ i \in Nat
         /\ i + 1 \in 1 .. Len(listeners[cur]) + 1 /\ i + 1 \in Nat
         /\ LET c == listeners[cur][i].client IN
              /\ c \in Clients /\ sub[c] # None /\ sub[c].thread = cur
              /\ sub[c].from \in Nat
              /\ \A u \in Threads : \A k \in Slice(u) :
                   listeners[u][k].client = c => u = cur /\ k = i
<1>1. cur \in Threads /\ i \in Nat /\ i \in Slice(cur) /\ Len(listeners[cur]) \in Nat
  BY Types DEF Inv, TypeOK, InLoop, Slice
<1>2. i + 1 \in 1 .. Len(listeners[cur]) + 1 /\ i + 1 \in Nat
  BY <1>1 DEF Slice
<1> DEFINE c == listeners[cur][i].client
<1>3. c \in Clients
  BY <1>1, Types DEF Inv
<1>4. sub[c] # None /\ sub[c].thread = cur /\ sub[c].from \in Nat
  BY <1>1, <1>3, Types DEF Inv, Placed, Entered
<1>5. ASSUME NEW u \in Threads, NEW k \in Slice(u), listeners[u][k].client = c
      PROVE  u = cur /\ k = i
  <2>1. sub[listeners[u][k].client].thread = u
    BY DEF Inv, Placed, Entered
  <2> QED
    BY <1>1, <1>4, <1>5, <2>1 DEF Inv, Placed, EnteredOnce
<1> QED
  BY <1>1, <1>2, <1>3, <1>4, <1>5

\* A client that is there gets the last post, which is the next for it.
LEMMA WriteToHere ==
  ASSUME Inv, WriteTo, NEW c \in Clients, c = listeners[cur][i].client, client[c] = "here"
  PROVE  /\ Len(log[cur]) \in Nat \ {0} /\ Last(log[cur]) = log[cur][Len(log[cur])]
         /\ Len(received[c]) \in Nat
         /\ sub[c].from + Len(received[c]) + 1 = Len(log[cur])
         /\ received' = [received EXCEPT ![c] = Append(@, log[cur][Len(log[cur])])]
         /\ log[cur][Len(log[cur])] \in Numbers
<1>1. /\ cur \in Threads /\ i \in Slice(cur) /\ i \in Nat
      /\ sub[c].from \in Nat /\ sub[c] # None /\ sub[c].thread = cur
  BY AtListener DEF WriteTo
<1>2. sub[c].from + Len(received[c]) = Len(log[cur]) - 1
  BY <1>1 DEF Inv, Current
<1>3. log[cur] \in Seq(Numbers) /\ received[c] \in Seq(Numbers)
  BY <1>1, Types DEF Inv
<1>4. Len(log[cur]) \in Nat \ {0} /\ sub[c].from + Len(received[c]) + 1 = Len(log[cur])
  <2> DEFINE n == Len(log[cur])
             m == Len(received[c])
             f == sub[c].from
  <2>1. n \in Nat /\ m \in Nat /\ f \in Nat /\ f + m = n - 1
    BY <1>1, <1>2, <1>3
  <2> HIDE DEF n, m, f
  <2>2. n \in Nat \ {0} /\ f + m + 1 = n
    BY <2>1
  <2> QED
    BY <2>2 DEF n, m, f
<1> QED
  BY <1>3, <1>4 DEF WriteTo, Last

LEMMA WriteToInv == ASSUME Inv, WriteTo PROVE Inv'
<1>a. PICK c \in Clients : c = listeners[cur][i].client
  BY AtListener DEF WriteTo
<1>1. /\ cur \in Threads /\ i \in Slice(cur) /\ i \in Nat
      /\ i + 1 \in 1 .. Len(listeners[cur]) + 1 /\ i + 1 \in Nat
      /\ sub[c] # None /\ sub[c].thread = cur /\ sub[c].from \in Nat
      /\ \A u \in Threads : \A k \in Slice(u) : listeners[u][k].client = c => u = cur /\ k = i
  BY <1>a, AtListener DEF WriteTo
<1>2. /\ cur # None /\ i' = i + 1
      /\ UNCHANGED <<alive, listeners, regListener, Done, pc, target, client, cur, log, sub>>
      /\ client[c] = "here" \/ client[c] = "gone"
  BY <1>a DEF WriteTo, InLoop, netVars, Inv, TypeOK
<1> DEFINE new == Append(received[c], log[cur][Len(log[cur])])
<1>3. /\ \A d \in Clients : d # c => received'[d] = received[d]
      /\ client[c] = "gone" => received' = received
      /\ client[c] = "here" => received'[c] = new /\ received' = [received EXCEPT ![c] = new]
      /\ received' \in [Clients -> Seq(Numbers)]
  <2>1. CASE client[c] = "here"
    <3>1. received[c] \in Seq(Numbers) /\ log[cur][Len(log[cur])] \in Numbers
      BY <1>a, <2>1, WriteToHere, Types DEF Inv
    <3>2. new \in Seq(Numbers)
      BY <3>1, Appended
    <3>3. received' = [received EXCEPT ![c] = new]
      BY <1>a, <2>1, WriteToHere
    <3> HIDE DEF new
    <3> QED
      BY <2>1, <3>2, <3>3 DEF Inv, TypeOK
  <2>2. CASE client[c] = "gone"
    BY <1>a, <2>2 DEF WriteTo, Inv, TypeOK
  <2> QED
    BY <1>2, <2>1, <2>2
<1>4. client[c] = "here" =>
        /\ Len(received[c]) \in Nat /\ Len(log[cur]) \in Nat \ {0}
        /\ sub[c].from + Len(received[c]) + 1 = Len(log[cur])
        /\ Len(new) = Len(received[c]) + 1
        /\ \A j \in 1 .. Len(received[c]) : new[j] = received[c][j]
        /\ new[Len(received[c]) + 1] = log[cur][Len(log[cur])]
  <2> SUFFICES ASSUME client[c] = "here"
               PROVE  /\ Len(received[c]) \in Nat /\ Len(log[cur]) \in Nat \ {0}
                      /\ sub[c].from + Len(received[c]) + 1 = Len(log[cur])
                      /\ Len(new) = Len(received[c]) + 1
                      /\ \A j \in 1 .. Len(received[c]) : new[j] = received[c][j]
                      /\ new[Len(received[c]) + 1] = log[cur][Len(log[cur])]
    OBVIOUS
  <2>1. received[c] \in Seq(Numbers)
    BY Types DEF Inv
  <2>2. log[cur][Len(log[cur])] \in Numbers
    BY <1>a, WriteToHere
  <2> QED
    BY <1>a, <2>1, <2>2, WriteToHere, Appended
<1> HIDE DEF new
<1>5. TypeOK'
  BY <1>1, <1>2, <1>3 DEF Inv, TypeOK
<1>6. Placed'
  BY <1>2 DEF Inv, Placed, Queued, Unregistered, Entered, EnteredOnce, StillThere, HandlerOutlives, Slice
<1>7. Prefix'
  <2> SUFFICES ASSUME NEW d \in Clients
               PROVE  /\ sub[d] = None => received'[d] = <<>>
                      /\ sub[d] # None =>
                           /\ sub[d].from + Len(received'[d]) <= Len(log[sub[d].thread])
                           /\ \A j \in 1 .. Len(received'[d]) :
                                received'[d][j] = log[sub[d].thread][sub[d].from + j]
    BY <1>2 DEF Prefix
  <2>1. CASE received'[d] = received[d]
    BY <2>1 DEF Inv, Prefix
  <2>2. CASE d = c /\ client[c] = "here"
    <3>1. \A j \in 1 .. Len(received[c]) : received[c][j] = log[cur][sub[c].from + j]
      BY <1>1 DEF Inv, Prefix
    <3>2. ASSUME NEW j \in 1 .. Len(received[c]) + 1 PROVE new[j] = log[cur][sub[c].from + j]
      <4>1. CASE j \in 1 .. Len(received[c])
        BY <1>4, <2>2, <3>1, <4>1
      <4>2. CASE j = Len(received[c]) + 1
        <5>1. sub[c].from + j = Len(log[cur])
          BY <1>1, <1>4, <2>2, <4>2
        <5> QED
          BY <1>4, <2>2, <4>2, <5>1
      <4> QED
        BY <1>4, <2>2, <4>1, <4>2
    <3>3. received'[d] = new /\ Len(new) = Len(received[c]) + 1
      BY <1>3, <1>4, <2>2
    <3>4. sub[c].from + Len(new) <= Len(log[cur])
      BY <1>1, <1>4, <2>2
    <3> QED
      BY <1>1, <2>2, <3>2, <3>3, <3>4
  <2> QED
    BY <1>2, <1>3, <2>1, <2>2
<1>8. Current'
  <2> SUFFICES ASSUME NEW u \in Threads, NEW k \in Slice(u), client[listeners[u][k].client] # "gone"
               PROVE  LET d == listeners[u][k].client IN
                        sub[d].from + Len(received'[d]) =
                          IF cur = u /\ k >= i + 1 THEN Len(log[u]) - 1 ELSE Len(log[u])
    BY <1>2 DEF Current, Slice
  <2> DEFINE d == listeners[u][k].client
  <2>1. d \in Clients /\ k \in Nat
    BY Types DEF Inv, Slice
  <2>2. CASE d = c
    <3>1. u = cur /\ k = i /\ client[c] = "here"
      BY <1>1, <1>2, <2>2
    <3>2. received'[c] = new /\ Len(new) = Len(received[c]) + 1
      BY <1>3, <1>4, <3>1
    <3>3. sub[c].from + Len(new) = Len(log[cur])
      <4>1. /\ Len(received[c]) \in Nat /\ sub[c].from \in Nat
            /\ sub[c].from + Len(received[c]) + 1 = Len(log[cur])
        BY <1>1, <1>4, <3>1
      <4> QED
        BY <3>2, <4>1
    <3>4. ~(k >= i + 1)
      BY <1>1, <3>1
    <3> QED
      BY <2>2, <3>1, <3>2, <3>3, <3>4
  <2>3. CASE d # c
    <3>1. ~(cur = u /\ k = i)
      BY <1>a, <2>3
    <3>2. (cur = u /\ k >= i + 1) <=> (cur = u /\ k >= i)
      BY <1>1, <2>1, <3>1
    <3>3. received'[d] = received[d]
      BY <1>3, <2>1, <2>3
    <3> QED
      BY <3>2, <3>3 DEF Inv, Current
  <2> QED
    BY <2>2, <2>3
<1> QED
  BY <1>5, <1>6, <1>7, <1>8 DEF Inv

LEMMA WriteFailsInv == ASSUME Inv, WriteFails PROVE Inv'
<1>a. PICK c \in Clients : c = listeners[cur][i].client
  BY AtListener DEF WriteFails
<1>1. /\ cur \in Threads /\ i \in Slice(cur) /\ i \in Nat
      /\ i + 1 \in 1 .. Len(listeners[cur]) + 1 /\ i + 1 \in Nat
      /\ sub[c] # None /\ sub[c].thread = cur
      /\ \A u \in Threads : \A k \in Slice(u) : listeners[u][k].client = c => u = cur /\ k = i
  BY <1>a, AtListener DEF WriteFails
<1>2. /\ cur # None /\ i' = i + 1
      /\ client[c] = "gone" /\ Done[c] = "empty"
      /\ listeners' = [listeners EXCEPT ![cur][i].sock = FALSE]
      /\ Done' = [Done EXCEPT ![c] = "closed"]
      /\ UNCHANGED <<alive, regListener, pc, target, client, cur, log, sub, received>>
  BY <1>a DEF WriteFails, InLoop, netVars
<1>3. /\ listeners' \in [Threads -> Seq([client : Clients, sock : BOOLEAN])]
      /\ \A u \in Threads : Len(listeners'[u]) = Len(listeners[u])
      /\ \A u \in Threads : \A k \in Slice(u) :
           /\ listeners'[u][k].client = listeners[u][k].client
           /\ listeners'[u][k].sock = (listeners[u][k].sock /\ ~(u = cur /\ k = i))
  <2> DEFINE L == [client : Clients, sock : BOOLEAN]
             old == listeners[cur]
             failed == [old[i] EXCEPT !.sock = FALSE]
             upd == [old EXCEPT ![i] = failed]
  <2>1. old \in Seq(L) /\ i \in 1 .. Len(old) /\ old[i] \in L
    BY <1>1, Types DEF Inv, Slice
  <2>2. failed \in L /\ failed.client = old[i].client /\ failed.sock = FALSE
    BY <2>1
  <2> HIDE DEF L, failed
  <2>3. upd \in Seq(L) /\ Len(upd) = Len(old) /\ upd[i] = failed
        /\ \A k \in 1 .. Len(old) : k # i => upd[k] = old[k]
    BY <2>1, <2>2
  <2>4. listeners' = [listeners EXCEPT ![cur] = upd] /\ listeners \in [Threads -> Seq(L)]
    BY <1>2 DEF Inv, TypeOK, L, failed
  <2> HIDE DEF upd
  <2>5. listeners'[cur] = upd /\ \A u \in Threads : u # cur => listeners'[u] = listeners[u]
    BY <1>1, <2>4
  <2>6. listeners' \in [Threads -> Seq(L)]
    BY <1>1, <2>3, <2>4
  <2>7. \A u \in Threads : Len(listeners'[u]) = Len(listeners[u])
    BY <2>3, <2>5
  <2>8. ASSUME NEW u \in Threads, NEW k \in Slice(u)
        PROVE  /\ listeners'[u][k].client = listeners[u][k].client
               /\ listeners'[u][k].sock = (listeners[u][k].sock /\ ~(u = cur /\ k = i))
    <3>1. CASE u = cur /\ k = i
      BY <2>2, <2>3, <2>5, <3>1
    <3>2. CASE ~(u = cur /\ k = i)
      <4>1. listeners'[u][k] = listeners[u][k]
        BY <2>3, <2>5, <3>2 DEF Slice
      <4>2. listeners[u][k].sock \in BOOLEAN
        BY Types DEF Inv
      <4> QED
        BY <3>2, <4>1, <4>2
    <3> QED
      BY <3>1, <3>2
  <2> QED
    BY <2>6, <2>7, <2>8 DEF L
<1>4. \A u \in Threads : Slice(u)' = Slice(u)
  BY <1>3 DEF Slice
<1>5. TypeOK'
  BY <1>1, <1>2, <1>3 DEF Inv, TypeOK
<1>6. Queued' /\ Unregistered'
  <2>1. \A k \in 1 .. Len(regListener) : regListener[k] # c /\ regListener[k] \in Clients
    BY <1>1 DEF Inv, TypeOK, Placed, Queued
  <2>2. pc[c] \notin {"none", "register"}
    BY <1>1 DEF Inv, Placed, Unregistered
  <2> QED
    BY <1>2, <2>1, <2>2 DEF Inv, TypeOK, Placed, Queued, Unregistered
<1>7. Entered'
  <2> SUFFICES ASSUME NEW u \in Threads, NEW k \in Slice(u)'
               PROVE  LET l == listeners'[u][k] IN
                        /\ sub'[l.client] # None /\ sub'[l.client].thread = u
                        /\ ~l.sock => client'[l.client] = "gone"
    BY DEF Entered
  <2> DEFINE d == listeners[u][k].client
  <2>0. k \in Slice(u)
    BY <1>4
  <2>1. /\ sub[d] # None /\ sub[d].thread = u
        /\ ~listeners[u][k].sock => client[d] = "gone"
    BY <2>0 DEF Inv, Placed, Entered
  <2>2. listeners'[u][k].client = d
    BY <1>3, <2>0
  <2>3. ~listeners'[u][k].sock => ~listeners[u][k].sock \/ d = c
    BY <1>a, <1>3, <2>0
  <2> HIDE DEF d
  <2> QED
    BY <1>2, <2>1, <2>2, <2>3
<1>8. EnteredOnce'
  BY <1>3, <1>4 DEF Inv, Placed, EnteredOnce
<1>9. StillThere'
  <2> SUFFICES ASSUME NEW d \in Clients, sub[d] # None, sub[d].thread \in alive
               PROVE  \E k \in 1 .. Len(listeners'[sub[d].thread]) :
                        listeners'[sub[d].thread][k].client = d
    BY <1>2 DEF StillThere, Slice
  <2>1. PICK k \in Slice(sub[d].thread) : listeners[sub[d].thread][k].client = d
    BY DEF Inv, Placed, StillThere
  <2>2. sub[d].thread \in Threads
    BY Types DEF Inv
  <2> QED
    BY <1>3, <2>1, <2>2 DEF Slice
<1>10. HandlerOutlives'
  <2> SUFFICES ASSUME NEW u \in Threads, NEW k \in Slice(u)
               PROVE  LET d == listeners'[u][k].client IN
                        /\ listeners'[u][k].sock => pc'[d] = "wait" /\ Done'[d] = "empty"
                        /\ ~listeners'[u][k].sock => Done'[d] = "closed"
    <3>1. \A u \in Threads : DOMAIN listeners'[u] = Slice(u)
      BY <1>3 DEF Slice
    <3> QED
      BY <3>1 DEF HandlerOutlives
  <2> DEFINE d == listeners[u][k].client
  <2>1. /\ listeners[u][k].sock => pc[d] = "wait" /\ Done[d] = "empty"
        /\ ~listeners[u][k].sock => Done[d] = "closed"
        /\ d \in Clients
    <3>1. k \in DOMAIN listeners[u]
      BY Types DEF Inv, Slice
    <3> QED
      BY <3>1, Types DEF Inv, Placed, HandlerOutlives
  <2>2. d = c => u = cur /\ k = i
    BY <1>1
  <2>3. Done'[c] = "closed" /\ (d # c => Done'[d] = Done[d])
    BY <1>2, <2>1 DEF Inv, TypeOK
  <2> QED
    BY <1>a, <1>2, <1>3, <2>1, <2>2, <2>3
<1>11. Prefix'
  BY <1>2 DEF Inv, Prefix
<1>12. Current'
  <2> SUFFICES ASSUME NEW u \in Threads, NEW k \in Slice(u), client[listeners[u][k].client] # "gone"
               PROVE  LET d == listeners[u][k].client IN
                        sub[d].from + Len(received[d]) =
                          IF cur = u /\ k >= i + 1 THEN Len(log[u]) - 1 ELSE Len(log[u])
    BY <1>2, <1>3, <1>4 DEF Current
  <2>1. ~(cur = u /\ k = i) /\ k \in Nat
    BY <1>a, <1>2, Types DEF Inv, Slice
  <2>2. (cur = u /\ k >= i + 1) <=> (cur = u /\ k >= i)
    BY <1>1, <2>1
  <2> QED
    BY <2>2 DEF Inv, Current
<1> QED
  BY <1>5, <1>6, <1>7, <1>8, <1>9, <1>10, <1>11, <1>12 DEF Inv, Placed

-----------------------------------------------------------------------------
LEMMA StepInv == Inv /\ [Next]_vars => Inv'
<1> SUFFICES ASSUME Inv, [Next]_vars PROVE Inv'
  OBVIOUS
<1>1. CASE UNCHANGED vars
  <2>1. UNCHANGED <<alive, listeners, regListener, Done, pc, target, client, cur, i, log, sub, received>>
    BY <1>1 DEF vars, netVars, seqVars
  <2>2. TypeOK'
    BY <2>1 DEF Inv, TypeOK
  <2>3. Placed'
    BY <2>1 DEF Inv, Placed, Queued, Unregistered, Entered, EnteredOnce, StillThere,
                HandlerOutlives, Slice
  <2>4. Prefix' /\ Current'
    BY <2>1 DEF Inv, Prefix, Current, Slice
  <2> QED
    BY <2>2, <2>3, <2>4 DEF Inv
<1>2. CASE \E c \in Clients : Connect(c) \/ Register(c) \/ Return(c) \/ Stall(c) \/ Resume(c) \/ Leave(c)
  BY <1>2, ConnectInv, RegisterInv, ReturnInv, ClientInv
<1>3. CASE \E t \in Threads : AddPost(t) \/ DeleteThread(t)
  BY <1>3, AddPostInv, DeleteThreadInv
<1>4. CASE AddThreadListener
  BY <1>4, EnterInv, DropInv
<1>5. CASE Broadcast
  BY <1>5, SkipNilInv, WriteToInv, WriteFailsInv, LoopEndsInv DEF Broadcast
<1> QED
  BY <1>1, <1>2, <1>3, <1>4, <1>5 DEF Next

(* Every reachable state is of its type, for any number of connections.    *)
THEOREM ListenersType == Spec => []TypeOK
<1>1. Inv => TypeOK
  BY DEF Inv
<1> QED
  BY InitInv, StepInv, <1>1, PTL DEF Spec

(* No post is written to a socket whose handler has returned, and nobody   *)
(* is told twice that his socket has failed.                               *)
THEOREM HandlersOutlive == Spec => []HandlerOutlives
<1>1. Inv => HandlerOutlives
  BY DEF Inv, Placed
<1> QED
  BY InitInv, StepInv, <1>1, PTL DEF Spec

(* When a broadcast is over, everybody who is still there has every post   *)
(* of his thread since he was entered.                                     *)
THEOREM EverythingDelivered == Spec => []AllDelivered
<1>1. Inv => AllDelivered
  <2> SUFFICES ASSUME Inv, Idle, NEW c \in Clients, sub[c] # None, sub[c].thread \in alive,
                      client[c] # "gone"
               PROVE  received[c] = SubSeq(log[sub[c].thread], sub[c].from + 1, Len(log[sub[c].thread]))
    BY DEF AllDelivered
  <2> DEFINE t == sub[c].thread
             f == sub[c].from
  <2>1. /\ t \in Threads /\ f \in Nat /\ cur = None /\ cur # t
        /\ log[t] \in Seq(Numbers) /\ received[c] \in Seq(Numbers)
    BY Types DEF Inv, Idle
  <2>2. f + Len(received[c]) = Len(log[t])
    <3>1. PICK k \in Slice(t) : listeners[t][k].client = c
      BY DEF Inv, Placed, StillThere
    <3> QED
      BY <2>1, <3>1 DEF Inv, Current
  <2>3. \A j \in 1 .. Len(received[c]) : received[c][j] = log[t][f + j]
    BY DEF Inv, Prefix
  <2> HIDE DEF t, f
  <2>4. /\ SubSeq(log[t], f + 1, Len(log[t])) \in Seq(Numbers)
        /\ Len(SubSeq(log[t], f + 1, Len(log[t]))) = Len(received[c])
        /\ \A j \in 1 .. Len(received[c]) : SubSeq(log[t], f + 1, Len(log[t]))[j] = log[t][f + j]
    BY <2>1, <2>2
  <2>5. received[c] = SubSeq(log[t], f + 1, Len(log[t]))
    BY <2>1, <2>3, <2>4
  <2> QED
    BY <2>5 DEF t, f
<1> QED
  BY InitInv, StepInv, <1>1, PTL DEF Spec

(* Each step of the sequencer and the handlers is a step of Feed, or none. *)
LEMMA StepFeed == Inv /\ Inv' /\ [Next]_vars => [FeedOf!Next]_<<log, sub, received>>
<1> SUFFICES ASSUME Inv, Inv', [Next]_vars PROVE [FeedOf!Next]_<<log, sub, received>>
  OBVIOUS
<1>1. CASE UNCHANGED <<log, sub, received>>
  BY <1>1
<1>2. ASSUME NEW t \in Threads, AddPost(t) PROVE FeedOf!Next
  <2>1. Cardinality(Posted) + 1 \in Numbers
    BY <1>2, PostedCount, ListenersAssumption DEF Inv, AddPost, Numbers
  <2> QED
    BY <1>2, <2>1 DEF AddPost, FeedOf!Next, FeedOf!Publish
<1>3. CASE AddThreadListener /\ target[Head(regListener)] \in alive
  <2>1. /\ Head(regListener) \in Clients /\ sub[Head(regListener)] = None
        /\ target[Head(regListener)] \in Threads
    BY <1>3, TakeFirst DEF AddThreadListener, Inv, TypeOK
  <2>2. FeedOf!Subscribe(Head(regListener), target[Head(regListener)])
    BY <1>3, <2>1 DEF AddThreadListener, FeedOf!Subscribe
  <2> QED
    BY <2>1, <2>2 DEF FeedOf!Next
<1>4. ASSUME WriteTo, NEW c \in Clients, c = listeners[cur][i].client, client[c] = "here"
      PROVE  FeedOf!Next
  <2>1. sub[c] # None /\ sub[c].thread = cur
    BY <1>4, AtListener DEF WriteTo
  <2>2. /\ sub[c].from + Len(received[c]) + 1 = Len(log[cur]) /\ Len(log[cur]) \in Nat
        /\ received' = [received EXCEPT ![c] = Append(@, log[cur][Len(log[cur])])]
    BY <1>4, WriteToHere
  <2>3. UNCHANGED <<log, sub>>
    BY <1>4 DEF WriteTo
  <2> DEFINE next == sub[c].from + Len(received[c]) + 1
  <2>4. next = Len(log[cur]) /\ next <= Len(log[cur])
    BY <2>2
  <2>5. received' = [received EXCEPT ![c] = Append(@, log[sub[c].thread][next])]
    BY <2>1, <2>2, <2>4
  <2>6. FeedOf!Deliver(c)
    BY <2>1, <2>3, <2>4, <2>5 DEF FeedOf!Deliver
  <2> QED
    BY <2>6 DEF FeedOf!Next
<1>5. ASSUME WriteTo, client[listeners[cur][i].client] # "here" PROVE UNCHANGED <<log, sub, received>>
  BY <1>5 DEF WriteTo
<1>6. CASE WriteTo
  <2>1. listeners[cur][i].client \in Clients
    BY <1>6, AtListener DEF WriteTo
  <2> QED
    BY <1>4, <1>5, <1>6, <2>1
<1> QED
  BY <1>1, <1>2, <1>3, <1>6
  DEF Next, vars, Connect, Register, Return, Stall, Resume, Leave, AddThreadListener, DeleteThread,
      Broadcast, SkipNil, WriteFails, LoopEnds

(* The websockets of a thread do what Feed says: a reader gets the posts   *)
(* made since he was entered, without a gap, a repetition or a change of   *)
(* order, whoever else stalls, leaves or fails.                            *)
THEOREM ListenersImplementFeed == Spec => FeedSpec
<1>1. Init => FeedOf!Init
  BY DEF Init, FeedOf!Init
<1> QED
  BY <1>1, InitInv, StepInv, StepFeed, PTL DEF Spec, FeedSpec, FeedOf!Spec
=============================================================================
