---------------------------- MODULE SlidingWindow ----------------------------
(***************************************************************************)
(* What a threshold promises: of the occurrences it is asked to record it  *)
(* accepts one exactly when fewer than Times[p] were accepted within the   *)
(* last Duration[p].  "Times - Maximum number of occurences for a given    *)
(* duration" (config/settings.toml 158).                                   *)
(***************************************************************************)
EXTENDS Integers, Sequences, FiniteSets

CONSTANTS
  Addrs,     \* addresses of users
  Params,    \* names in [Thresholds]: PageRequest, NewThread, NewPost, ...
  Times,     \* settings.Thresholds[p].Times
  Duration,  \* settings.Thresholds[p].Duration
  MaxTime    \* bound: the clock stops there

VARIABLES
  now,       \* the clock
  log,       \* the times accepted, for each user and threshold
  answer     \* the last answer given to each user for each threshold

Keys == Addrs \X Params

Init ==
  /\ now = 0
  /\ log = [k \in Keys |-> <<>>]
  /\ answer = [k \in Keys |-> TRUE]

Recent(k) == {e \in DOMAIN log[k] : now - log[k][e] <= Duration[k[2]]}

Accept(k) ==
  /\ Cardinality(Recent(k)) < Times[k[2]]
  /\ log' = [log EXCEPT ![k] = Append(@, now)]
  /\ answer' = [answer EXCEPT ![k] = TRUE]
  /\ UNCHANGED now

Refuse(k) ==
  /\ ~(Cardinality(Recent(k)) < Times[k[2]])
  /\ answer' = [answer EXCEPT ![k] = FALSE]
  /\ UNCHANGED <<now, log>>

Forget ==
  /\ log' = [k \in Keys |-> <<>>]
  /\ answer' = [k \in Keys |-> TRUE]
  /\ UNCHANGED now

Tick ==
  /\ now < MaxTime
  /\ now' = now + 1
  /\ UNCHANGED <<log, answer>>

Next == (\E k \in Keys : Accept(k) \/ Refuse(k)) \/ Forget \/ Tick

Spec == Init /\ [][Next]_<<now, log, answer>>
=============================================================================
