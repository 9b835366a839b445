--------------------------------- MODULE Feed ---------------------------------
(***************************************************************************)
(* What a websocket promises to the page of a thread (static/amend.js adds *)
(* what it receives to the page): the posts made since it was registered,  *)
(* every one of them, once and in their order, for as long as it lasts.    *)
(***************************************************************************)
EXTENDS Integers, Sequences

CONSTANTS Clients, Threads, Posts, None

VARIABLES
  log,       \* the posts of each thread
  sub,       \* the thread each client reads, and from where
  received   \* what each client has received

Init ==
  /\ log = [t \in Threads |-> <<>>]
  /\ sub = [c \in Clients |-> None]
  /\ received = [c \in Clients |-> <<>>]

Publish(t) ==
  /\ \E p \in Posts : log' = [log EXCEPT ![t] = Append(@, p)]
  /\ UNCHANGED <<sub, received>>

Subscribe(c, t) ==
  /\ sub[c] = None
  /\ sub' = [sub EXCEPT ![c] = [thread |-> t, from |-> Len(log[t])]]
  /\ UNCHANGED <<log, received>>

Deliver(c) ==
  /\ sub[c] # None
  /\ LET next == sub[c].from + Len(received[c]) + 1
     IN  /\ next <= Len(log[sub[c].thread])
         /\ received' = [received EXCEPT ![c] = Append(@, log[sub[c].thread][next])]
  /\ UNCHANGED <<log, sub>>

Next ==
  \/ \E t \in Threads : Publish(t)
  \/ \E c \in Clients, t \in Threads : Subscribe(c, t)
  \/ \E c \in Clients : Deliver(c)

Spec == Init /\ [][Next]_<<log, sub, received>>
=============================================================================
