------------------------------ MODULE Threshold ------------------------------
(***************************************************************************)
(* The thresholds of users.go: for each user and each configured limit a   *)
(* fixed slice of times, in which Record overwrites the first one that is  *)
(* old enough.  InThreshold runs under userMap.mtx, so one call is one     *)
(* step; a restart builds a new, empty userMap.                            *)
(***************************************************************************)
EXTENDS Integers, Sequences, FiniteSets

CONSTANTS Addrs, Params, Times, Duration, MaxTime

ASSUME ThresholdAssumption ==
  /\ Times \in [Params -> Nat]
  /\ Duration \in [Params -> Nat]
  /\ MaxTime \in Nat

Keys == Addrs \X Params

VARIABLES
  now,         \* the clock (time.Now)
  Occurences,  \* users[addr].Thresholds[param].Occurences
  answer,      \* the last value InThreshold returned
  log,         \* history: the times recorded since the start
  slot         \* history: where each of them was written

vars == <<now, Occurences, answer, log, slot>>

Slots(p) == 1 .. Times[p]

\* The zero time.Time is further back than any interval.
ZeroTime(p) == -(Duration[p] + 1)

TypeOK ==
  /\ now \in Nat
  /\ Occurences = [k \in Keys |-> Occurences[k]]
  /\ \A k \in Keys : Occurences[k] \in [Slots(k[2]) -> Int]
  /\ answer \in [Keys -> BOOLEAN]
  /\ log \in [Keys -> Seq(Nat)]
  /\ slot \in [Keys -> Seq(Nat)]

\* Mutant: the slice is made with a capacity instead of a length.
NewThresholdsEmpty == [k \in Keys |-> <<>>]

\* newThreshold: make([]time.Time, max)
NewThresholds == [k \in Keys |-> [i \in Slots(k[2]) |-> ZeroTime(k[2])]]

Init ==
  /\ now = 0
  /\ Occurences = NewThresholds
  /\ answer = [k \in Keys |-> TRUE]
  /\ log = [k \in Keys |-> <<>>]
  /\ slot = [k \in Keys |-> <<>>]

\* Mutant: an occurrence exactly Interval ago counts as over.
FreeEarly(k) == {i \in Slots(k[2]) : now - Occurences[k][i] >= Duration[k[2]]}

\* Mutant: the slot is kept a moment too long.
FreeLate(k) == {i \in Slots(k[2]) : now - Occurences[k][i] > Duration[k[2]] + 1}

\* sinceLast > th.Interval
Free(k) == {i \in Slots(k[2]) : now - Occurences[k][i] > Duration[k[2]]}

\* The first slot that is free, in the order of the slice.
Record(k) ==
  /\ \E i \in Free(k) :
       /\ \A j \in Free(k) : i <= j
       /\ Occurences' = [Occurences EXCEPT ![k][i] = now]
       /\ slot' = [slot EXCEPT ![k] = Append(@, i)]
  /\ log' = [log EXCEPT ![k] = Append(@, now)]
  /\ answer' = [answer EXCEPT ![k] = TRUE]
  /\ UNCHANGED now

RecordFull(k) ==
  /\ Free(k) = {}
  /\ answer' = [answer EXCEPT ![k] = FALSE]
  /\ UNCHANGED <<now, Occurences, log, slot>>

Restart ==
  /\ Occurences' = NewThresholds
  /\ answer' = [k \in Keys |-> TRUE]
  /\ log' = [k \in Keys |-> <<>>]
  /\ slot' = [k \in Keys |-> <<>>]
  /\ UNCHANGED now

Tick ==
  /\ now < MaxTime
  /\ now' = now + 1
  /\ UNCHANGED <<Occurences, answer, log, slot>>

Next == (\E k \in Keys : Record(k) \/ RecordFull(k)) \/ Restart \/ Tick

Spec == Init /\ [][Next]_vars

-----------------------------------------------------------------------------
(* The slice of Max times is an exact sliding window, although it forgets  *)
(* which occurrence is the oldest: an occurrence is refused only if Times  *)
(* of them really fell within Duration (users.go 127-147).                 *)
Window == INSTANCE SlidingWindow
WindowSpec == Window!Spec

(* In no window of Duration are more than Times occurrences let through.   *)
NeverExceeded ==
  \A k \in Keys : \A e \in DOMAIN log[k] :
    Cardinality({f \in DOMAIN log[k] : f <= e /\ log[k][e] - log[k][f] <= Duration[k[2]]})
      <= Times[k[2]]
=============================================================================
