--------------------------- MODULE ThresholdProofs ---------------------------
(***************************************************************************)
(* Threshold implements SlidingWindow for every choice of the limits.      *)
(*                                                                         *)
(* The argument: the occurrences of the last Duration that were accepted   *)
(* are mapped one to one to slots (History), because a slot is written     *)
(* again only when what it holds is over.  So there are at most Times of   *)
(* them, and exactly Times when no slot is free.                           *)
(***************************************************************************)
EXTENDS Threshold, FiniteSetTheorems, TLAPS

Recent(k) == {e \in DOMAIN log[k] : now - log[k][e] <= Duration[k[2]]}

\* What the slices still know of the occurrences that were accepted.
Placed(k) ==
  /\ Len(slot[k]) = Len(log[k])
  /\ \A e \in DOMAIN log[k] : log[k][e] <= now /\ slot[k][e] \in Slots(k[2])
  /\ \A e \in Recent(k) : Occurences[k][slot[k][e]] = log[k][e]
  /\ \A e, f \in Recent(k) : slot[k][e] = slot[k][f] => e = f
  /\ \A i \in Slots(k[2]) \ Free(k) : \E e \in Recent(k) : slot[k][e] = i

History == \A k \in Keys : Placed(k)

Inv == TypeOK /\ History

LEMMA KeyTypes ==
  ASSUME NEW k \in Keys
  PROVE  k[2] \in Params /\ Times[k[2]] \in Nat /\ Duration[k[2]] \in Nat
BY ThresholdAssumption DEF Keys

LEMMA LogType ==
  ASSUME TypeOK, NEW k \in Keys
  PROVE  /\ log[k] \in Seq(Nat) /\ slot[k] \in Seq(Nat)
         /\ DOMAIN log[k] = 1 .. Len(log[k]) /\ DOMAIN slot[k] = 1 .. Len(slot[k])
         /\ Len(log[k]) \in Nat
BY DEF TypeOK

\* Fewer than Times occurrences are recent exactly when a slot is free.
LEMMA Counted ==
  ASSUME TypeOK, NEW k \in Keys, Placed(k)
  PROVE  /\ IsFiniteSet(Recent(k))
         /\ Cardinality(Recent(k)) \in Nat
         /\ Cardinality(Recent(k)) <= Times[k[2]]
         /\ Cardinality(Recent(k)) < Times[k[2]] <=> Free(k) # {}
<1> DEFINE f == [e \in Recent(k) |-> slot[k][e]]
<1>1. Times[k[2]] \in Nat /\ Duration[k[2]] \in Nat
  BY KeyTypes
<1>2. IsFiniteSet(Slots(k[2])) /\ Cardinality(Slots(k[2])) = Times[k[2]]
  <2> DEFINE T == Times[k[2]]
  <2>1. T \in Nat /\ T \in Int /\ 1 \in Int
    BY <1>1
  <2> HIDE DEF T
  <2>2. IsFiniteSet(1 .. T) /\ Cardinality(1 .. T) = IF 1 > T THEN 0 ELSE T - 1 + 1
    BY <2>1, FS_Interval, Zenon
  <2> DEFINE C == Cardinality(1 .. T)
  <2>3. C = IF 1 > T THEN 0 ELSE T - 1 + 1
    BY <2>2
  <2> HIDE DEF C
  <2>4. C = T
    BY <2>1, <2>3
  <2> QED
    BY <2>2, <2>4 DEF C, T, Slots
<1>3. f \in Injection(Recent(k), Slots(k[2]))
  BY DEF Placed, Recent, Injection, IsInjective
<1>4. /\ IsFiniteSet(Recent(k))
      /\ Cardinality(Recent(k)) <= Times[k[2]]
      /\ Cardinality(Recent(k)) = Times[k[2]] <=> f \in Surjection(Recent(k), Slots(k[2]))
  BY <1>2, <1>3, FS_Injection
<1>5. Cardinality(Recent(k)) \in Nat
  BY <1>4, FS_CardinalityType
<1>6. f \in Surjection(Recent(k), Slots(k[2])) <=> Free(k) = {}
  <2>1. ASSUME Free(k) = {} PROVE f \in Surjection(Recent(k), Slots(k[2]))
    BY <1>3, <2>1 DEF Placed, Surjection, Injection
  <2>2. ASSUME NEW i \in Free(k), f \in Surjection(Recent(k), Slots(k[2])) PROVE FALSE
    <3>1. i \in Slots(k[2]) /\ now - Occurences[k][i] > Duration[k[2]]
      BY DEF Free
    <3>2. PICK e \in Recent(k) : f[e] = i
      BY <2>2, <3>1 DEF Surjection
    <3>3. Occurences[k][i] = log[k][e] /\ now - log[k][e] <= Duration[k[2]]
      BY <3>2 DEF Placed, Recent
    <3>4. now \in Int /\ log[k][e] \in Int
      BY <3>2, LogType DEF TypeOK, Recent
    <3> QED
      BY <1>1, <3>1, <3>3, <3>4
  <2> QED
    BY <2>1, <2>2
<1> QED
  BY <1>1, <1>4, <1>5, <1>6

-----------------------------------------------------------------------------
LEMMA InitInv == Init => Inv
<1> SUFFICES ASSUME Init PROVE Inv
  OBVIOUS
<1>1. \A k \in Keys : Times[k[2]] \in Nat /\ Duration[k[2]] \in Nat
  BY KeyTypes
<1>2. TypeOK
  BY <1>1 DEF Init, TypeOK, NewThresholds, Slots, ZeroTime
<1>3. ASSUME NEW k \in Keys PROVE Placed(k)
  <2>1. log[k] = <<>> /\ slot[k] = <<>> /\ DOMAIN log[k] = {} /\ Len(slot[k]) = Len(log[k])
    BY DEF Init
  <2>2. Recent(k) = {}
    BY <2>1 DEF Recent
  <2>3. Slots(k[2]) \ Free(k) = {}
    BY <1>1 DEF Init, NewThresholds, Slots, ZeroTime, Free
  <2> QED
    BY <2>1, <2>2, <2>3 DEF Placed
<1> QED
  BY <1>2, <1>3 DEF Inv, History

LEMMA TickInv == Inv /\ Tick => Inv'
<1> SUFFICES ASSUME Inv, Tick PROVE Inv'
  OBVIOUS
<1>1. now' = now + 1 /\ now \in Nat /\ UNCHANGED <<Occurences, answer, log, slot>>
  BY DEF Tick, Inv, TypeOK
<1>2. TypeOK'
  BY <1>1 DEF Inv, TypeOK
<1>3. ASSUME NEW k \in Keys PROVE Placed(k)'
  <2>1. Placed(k) /\ Duration[k[2]] \in Nat
    BY KeyTypes DEF Inv, History
  <2>2. \A e \in DOMAIN log[k] : log[k][e] \in Nat
    BY DEF Inv, TypeOK
  <2>3. \A i \in Slots(k[2]) : Occurences[k][i] \in Int
    BY DEF Inv, TypeOK
  <2>4. Recent(k)' \subseteq Recent(k)
    BY <1>1, <2>1, <2>2 DEF Recent
  <2>5. ASSUME NEW i \in Slots(k[2]) \ Free(k)' PROVE \E e \in Recent(k)' : slot'[k][e] = i
    <3>1. i \in Slots(k[2]) \ Free(k) /\ now' - Occurences[k][i] <= Duration[k[2]]
      BY <1>1, <2>1, <2>3 DEF Free
    <3>2. PICK e \in Recent(k) : slot[k][e] = i
      BY <2>1, <3>1 DEF Placed
    <3>3. Occurences[k][i] = log[k][e] /\ e \in DOMAIN log[k]
      BY <2>1, <3>2 DEF Placed, Recent
    <3> QED
      BY <1>1, <3>1, <3>2, <3>3 DEF Recent
  <2>6. \A e \in DOMAIN log[k] : log[k][e] <= now'
    BY <1>1, <2>1, <2>2 DEF Placed
  <2> QED
    BY <1>1, <2>1, <2>4, <2>5, <2>6 DEF Placed
<1> QED
  BY <1>2, <1>3 DEF Inv, History

LEMMA RestartInv == Inv /\ Restart => Inv'
<1> SUFFICES ASSUME Inv, Restart PROVE Inv'
  OBVIOUS
<1>1. \A k \in Keys : Times[k[2]] \in Nat /\ Duration[k[2]] \in Nat
  BY KeyTypes
<1>2. TypeOK'
  BY <1>1 DEF Restart, Inv, TypeOK, NewThresholds, Slots, ZeroTime
<1>3. now' = now /\ now \in Nat
  BY DEF Restart, Inv, TypeOK
<1>4. ASSUME NEW k \in Keys PROVE Placed(k)'
  <2>1. log'[k] = <<>> /\ slot'[k] = <<>> /\ DOMAIN log'[k] = {} /\ Len(slot'[k]) = Len(log'[k])
    BY DEF Restart
  <2>2. Recent(k)' = {}
    BY <2>1 DEF Recent
  <2>3. Slots(k[2]) \ Free(k)' = {}
    BY <1>1, <1>3 DEF Restart, NewThresholds, Slots, ZeroTime, Free
  <2> QED
    BY <2>1, <2>2, <2>3 DEF Placed
<1> QED
  BY <1>2, <1>4 DEF Inv, History

\* What Record does to the history of its own key.
LEMMA RecordOwn ==
  ASSUME Inv, NEW k \in Keys, Record(k)
  PROVE  /\ log'[k] = Append(log[k], now) /\ now' = now
         /\ \E i \in Free(k) :
              /\ Occurences'[k] = [Occurences[k] EXCEPT ![i] = now]
              /\ slot'[k] = Append(slot[k], i)
              /\ Recent(k)' = Recent(k) \cup {Len(log[k]) + 1}
              /\ \A e \in Recent(k) : slot[k][e] # i
<1>1. PICK i \in Free(k) : /\ Occurences' = [Occurences EXCEPT ![k][i] = now]
                           /\ slot' = [slot EXCEPT ![k] = Append(@, i)]
  BY DEF Record
<1>2. log'[k] = Append(log[k], now) /\ now' = now /\ now \in Nat
  BY DEF Record, Inv, TypeOK
<1>3. Occurences'[k] = [Occurences[k] EXCEPT ![i] = now] /\ slot'[k] = Append(slot[k], i)
  BY <1>1 DEF Inv, TypeOK
<1>4. Duration[k[2]] \in Nat
  BY KeyTypes
<1>5. Recent(k)' = Recent(k) \cup {Len(log[k]) + 1}
  <2>1. log[k] \in Seq(Nat) /\ DOMAIN log[k] = 1 .. Len(log[k]) /\ Len(log[k]) \in Nat
    BY LogType DEF Inv
  <2>2. /\ DOMAIN log'[k] = 1 .. (Len(log[k]) + 1)
        /\ \A e \in DOMAIN log[k] : log'[k][e] = log[k][e]
        /\ log'[k][Len(log[k]) + 1] = now
    BY <1>2, <2>1
  <2> QED
    BY <1>2, <1>4, <2>1, <2>2 DEF Recent
<1>6. \A e \in Recent(k) : slot[k][e] # i
  <2> SUFFICES ASSUME NEW e \in Recent(k), slot[k][e] = i PROVE FALSE
    OBVIOUS
  <2>1. Occurences[k][i] = log[k][e] /\ now - log[k][e] <= Duration[k[2]]
    BY DEF Inv, History, Placed, Recent
  <2>2. now - Occurences[k][i] > Duration[k[2]]
    BY DEF Free
  <2>3. now \in Int /\ log[k][e] \in Int
    BY LogType DEF Inv, TypeOK, Recent
  <2> QED
    BY <1>4, <2>1, <2>2, <2>3
<1> QED
  BY <1>2, <1>3, <1>5, <1>6

\* A key whose slice, log and clock are the same keeps its history.
LEMMA PlacedSame ==
  ASSUME NEW k \in Keys, Placed(k), now' = now,
         Occurences'[k] = Occurences[k], log'[k] = log[k], slot'[k] = slot[k]
  PROVE  Placed(k)'
BY DEF Placed, Recent, Free

LEMMA RecordInv ==
  ASSUME Inv, NEW k \in Keys, Record(k)
  PROVE  Inv'
<1>1. PICK i \in Free(k) :
        /\ Occurences'[k] = [Occurences[k] EXCEPT ![i] = now]
        /\ slot'[k] = Append(slot[k], i)
        /\ Recent(k)' = Recent(k) \cup {Len(log[k]) + 1}
        /\ \A e \in Recent(k) : slot[k][e] # i
  BY RecordOwn
<1>2. log'[k] = Append(log[k], now) /\ now' = now /\ now \in Nat
  BY RecordOwn DEF Inv, TypeOK
<1>3. i \in Slots(k[2]) /\ Slots(k[2]) \subseteq Nat /\ Duration[k[2]] \in Nat
  BY KeyTypes DEF Free, Slots
<1>4. /\ log[k] \in Seq(Nat) /\ slot[k] \in Seq(Nat)
      /\ DOMAIN log[k] = 1 .. Len(log[k]) /\ DOMAIN slot[k] = 1 .. Len(slot[k])
      /\ Len(log[k]) \in Nat /\ Len(slot[k]) = Len(log[k])
  BY LogType DEF Inv, History, Placed
<1>5. \A j \in Keys : j # k =>
        Occurences'[j] = Occurences[j] /\ log'[j] = log[j] /\ slot'[j] = slot[j]
  BY DEF Record, Inv, TypeOK
<1>6. TypeOK'
  <2>1. now' \in Nat /\ answer' \in [Keys -> BOOLEAN]
    BY <1>2 DEF Record, Inv, TypeOK
  <2>2. log' \in [Keys -> Seq(Nat)]
    BY <1>2 DEF Record, Inv, TypeOK
  <2>3. slot' \in [Keys -> Seq(Nat)]
    <3>1. slot' = [slot EXCEPT ![k] = Append(slot[k], i)]
      <4>1. PICK h : slot' = [slot EXCEPT ![k] = Append(@, h)]
        BY DEF Record
      <4> QED
        BY <1>1, <4>1 DEF Inv, TypeOK
    <3> QED
      BY <1>3, <1>4, <3>1 DEF Inv, TypeOK
  <2>4. Occurences' = [j \in Keys |-> Occurences'[j]]
    BY DEF Record, Inv, TypeOK
  <2>5. \A j \in Keys : Occurences'[j] \in [Slots(j[2]) -> Int]
    <3>1. \A j \in Keys : Occurences[j] \in [Slots(j[2]) -> Int]
      BY DEF Inv, TypeOK
    <3>2. Occurences'[k] \in [Slots(k[2]) -> Int]
      <4>1. Occurences[k] \in [Slots(k[2]) -> Int] /\ now \in Int
        BY <1>2, <3>1
      <4> QED
        BY <1>1, <4>1
    <3> QED
      BY <1>5, <3>1, <3>2
  <2> QED
    BY <2>1, <2>2, <2>3, <2>4, <2>5 DEF TypeOK
<1>7. Placed(k)'
  <2> DEFINE n == Len(log[k]) + 1
  <2>1. /\ Len(slot'[k]) = Len(log'[k]) /\ DOMAIN log'[k] = 1 .. n
        /\ log'[k][n] = now /\ slot'[k][n] = i
        /\ \A e \in DOMAIN log[k] : log'[k][e] = log[k][e] /\ slot'[k][e] = slot[k][e]
    BY <1>1, <1>2, <1>3, <1>4
  <2>2. \A e \in Recent(k) : e \in DOMAIN log[k] /\ e # n
    BY <1>4 DEF Recent
  <2>3. \A e \in DOMAIN log'[k] : log'[k][e] <= now' /\ slot'[k][e] \in Slots(k[2])
    <3>1. \A e \in DOMAIN log[k] : log[k][e] <= now /\ slot[k][e] \in Slots(k[2])
      BY DEF Inv, History, Placed
    <3>2. \A e \in DOMAIN log'[k] : e \in DOMAIN log[k] \/ e = n
      BY <1>4, <2>1
    <3> QED
      BY <1>2, <1>3, <2>1, <3>1, <3>2
  <2>4. \A e \in Recent(k)' : Occurences'[k][slot'[k][e]] = log'[k][e]
    <3>1. i \in DOMAIN Occurences[k]
      BY <1>3 DEF Inv, TypeOK
    <3>2. Occurences'[k][slot'[k][n]] = log'[k][n]
      BY <1>1, <2>1, <3>1
    <3>3. ASSUME NEW e \in Recent(k) PROVE Occurences'[k][slot'[k][e]] = log'[k][e]
      <4>1. slot[k][e] # i /\ slot[k][e] \in DOMAIN Occurences[k]
        BY <1>1, <2>2 DEF Inv, History, Placed, TypeOK
      <4>2. Occurences'[k][slot[k][e]] = Occurences[k][slot[k][e]]
        BY <1>1, <4>1
      <4> QED
        BY <2>1, <2>2, <4>2 DEF Inv, History, Placed
    <3> QED
      BY <1>1, <3>2, <3>3
  <2>5. \A e, f \in Recent(k)' : slot'[k][e] = slot'[k][f] => e = f
    BY <1>1, <2>1, <2>2 DEF Inv, History, Placed
  <2>6. ASSUME NEW j \in Slots(k[2]) \ Free(k)' PROVE \E e \in Recent(k)' : slot'[k][e] = j
    <3>1. CASE j = i
      BY <1>1, <2>1, <3>1
    <3>2. CASE j # i
      <4>1. Occurences'[k][j] = Occurences[k][j]
        BY <1>1, <3>2 DEF Inv, TypeOK
      <4>2. j \in Slots(k[2]) \ Free(k)
        BY <1>2, <4>1 DEF Free
      <4>3. PICK e \in Recent(k) : slot[k][e] = j
        BY <4>2 DEF Inv, History, Placed
      <4> QED
        BY <1>1, <2>1, <2>2, <4>3
    <3> QED
      BY <3>1, <3>2
  <2> QED
    BY <2>1, <2>3, <2>4, <2>5, <2>6 DEF Placed
<1>8. \A j \in Keys : Placed(j)'
  BY <1>2, <1>5, <1>7, PlacedSame DEF Inv, History
<1> QED
  BY <1>6, <1>8 DEF Inv, History

LEMMA RecordFullInv ==
  ASSUME Inv, NEW k \in Keys, RecordFull(k)
  PROVE  Inv'
<1>1. UNCHANGED <<now, Occurences, log, slot>> /\ answer' \in [Keys -> BOOLEAN]
  BY DEF RecordFull, Inv, TypeOK
<1>2. TypeOK'
  BY <1>1 DEF Inv, TypeOK
<1> QED
  BY <1>1, <1>2, PlacedSame DEF Inv, History

LEMMA StepInv == Inv /\ [Next]_vars => Inv'
<1> SUFFICES ASSUME Inv, [Next]_vars PROVE Inv'
  OBVIOUS
<1>1. CASE UNCHANGED vars
  BY <1>1 DEF vars, Inv, TypeOK, History, Placed, Recent, Free
<1>2. CASE \E k \in Keys : Record(k) \/ RecordFull(k)
  BY <1>2, RecordInv, RecordFullInv
<1> QED
  BY <1>1, <1>2, TickInv, RestartInv DEF Next

(* The slices of a threshold have its Times slots for ever, whatever is    *)
(* recorded and restarted.                                                 *)
THEOREM ThresholdType == Spec => []TypeOK
<1>1. Inv => TypeOK
  BY DEF Inv
<1> QED
  BY <1>1, InitInv, StepInv, PTL DEF Spec

-----------------------------------------------------------------------------
LEMMA InitWindow == Init => Window!Init
BY DEF Init, Window!Init, Window!Keys, Keys

LEMMA SameCardinality ==
  ASSUME NEW S
  PROVE  Window!Cardinality(S) = Cardinality(S)
BY DEF Window!Cardinality, Cardinality

LEMMA StepWindow == Inv /\ [Next]_vars => [Window!Next]_<<now, log, answer>>
<1> SUFFICES ASSUME Inv, [Next]_vars PROVE [Window!Next]_<<now, log, answer>>
  OBVIOUS
<1>1. \A k \in Keys : /\ Window!Recent(k) = Recent(k)
                      /\ Window!Cardinality(Recent(k)) < Times[k[2]] <=> Free(k) # {}
  BY Counted, SameCardinality DEF Window!Recent, Recent, Inv, History
<1>2. Window!Keys = Keys
  BY DEF Window!Keys, Keys
<1>3. ASSUME NEW k \in Keys, Record(k) PROVE Window!Accept(k)
  BY <1>1, <1>3 DEF Record, Window!Accept
<1>4. ASSUME NEW k \in Keys, RecordFull(k) PROVE Window!Refuse(k)
  BY <1>1, <1>4 DEF RecordFull, Window!Refuse
<1>5. CASE Restart
  BY <1>2, <1>5 DEF Restart, Window!Forget, Window!Next
<1>6. CASE Tick
  BY <1>6 DEF Tick, Window!Tick, Window!Next
<1> QED
  BY <1>2, <1>3, <1>4, <1>5, <1>6 DEF Next, vars, Window!Next

(* For any limits, the slice with its first-free-slot search answers every *)
(* occurrence as an exact sliding window would.                            *)
THEOREM ThresholdIsWindow == Spec => WindowSpec
<1> QED
  BY InitInv, StepInv, InitWindow, StepWindow, PTL DEF Spec, WindowSpec, Window!Spec

-----------------------------------------------------------------------------
LEMMA InitExceeded == Init => NeverExceeded
BY DEF Init, NeverExceeded

LEMMA RecordExceeded ==
  ASSUME Inv, NeverExceeded, NEW k \in Keys, Record(k)
  PROVE  NeverExceeded'
<1> DEFINE Upto(j, e) == {f \in DOMAIN log[j] : f <= e /\ log[j][e] - log[j][f] <= Duration[j[2]]}
           NewUpto(j, e) == {f \in DOMAIN log'[j] : f <= e /\ log'[j][e] - log'[j][f] <= Duration[j[2]]}
<1>1. /\ log[k] \in Seq(Nat) /\ DOMAIN log[k] = 1 .. Len(log[k]) /\ Len(log[k]) \in Nat
      /\ log'[k] = Append(log[k], now) /\ now' = now /\ now \in Nat
  BY LogType, RecordOwn DEF Inv, TypeOK
<1>2. \A j \in Keys : j # k => log'[j] = log[j]
  BY DEF Record, Inv, TypeOK
<1>3. Times[k[2]] \in Nat /\ Duration[k[2]] \in Nat
  BY KeyTypes
<1> DEFINE n == Len(log[k]) + 1
<1>4. /\ DOMAIN log'[k] = 1 .. n /\ log'[k][n] = now
      /\ \A e \in DOMAIN log[k] : log'[k][e] = log[k][e]
      /\ \A e \in DOMAIN log'[k] : e # n => e \in DOMAIN log[k]
  BY <1>1
<1>5. ASSUME NEW j \in Keys, NEW e \in DOMAIN log'[j]
      PROVE  Cardinality(NewUpto(j, e)) <= Times[j[2]]
  <2>1. CASE j # k
    <3>1. log'[j] = log[j]
      BY <1>2, <2>1
    <3>2. NewUpto(j, e) = Upto(j, e)
      BY <3>1
    <3> QED
      BY <3>1, <3>2 DEF NeverExceeded
  <2>2. CASE j = k /\ e # n
    <3>1. e \in DOMAIN log[k]
      BY <1>4, <2>2
    <3>2. \A f \in DOMAIN log'[k] : f <= e => f \in DOMAIN log[k]
      BY <1>1, <1>4, <3>1
    <3>3. NewUpto(k, e) = Upto(k, e)
      BY <1>1, <1>4, <3>1, <3>2
    <3> QED
      BY <2>2, <3>1, <3>3 DEF NeverExceeded
  <2>3. CASE j = k /\ e = n
    <3>1. NewUpto(k, n) = Recent(k) \cup {n}
      BY <1>1, <1>3, <1>4 DEF Recent
    <3>2. /\ IsFiniteSet(Recent(k)) /\ Cardinality(Recent(k)) \in Nat
          /\ Cardinality(Recent(k)) < Times[k[2]]
      BY Counted DEF Inv, History, Record
    <3>3. Cardinality(Recent(k) \cup {n}) <= Cardinality(Recent(k)) + 1
      <4> DEFINE C == Cardinality(Recent(k))
                 A == Cardinality(Recent(k) \cup {n})
      <4>1. A = IF n \in Recent(k) THEN C ELSE C + 1
        BY <3>2, FS_AddElement
      <4>2. C \in Nat
        BY <3>2
      <4> HIDE DEF C, A
      <4>3. A <= C + 1
        BY <4>1, <4>2
      <4> QED
        BY <4>3 DEF A, C
    <3>4. Cardinality(Recent(k) \cup {n}) <= Times[k[2]]
      <4>1. IsFiniteSet(Recent(k) \cup {n})
        BY <3>2, FS_AddElement
      <4>2. Cardinality(Recent(k) \cup {n}) \in Nat
        BY <4>1, FS_CardinalityType
      <4> QED
        BY <1>3, <3>2, <3>3, <4>2
    <3> QED
      <4>1. NewUpto(j, e) = NewUpto(k, n) /\ j[2] = k[2]
        BY <2>3
      <4> QED
        BY <3>1, <3>4, <4>1
  <2> QED
    BY <2>1, <2>2, <2>3
<1> QED
  BY <1>5 DEF NeverExceeded

LEMMA StepExceeded == Inv /\ NeverExceeded /\ [Next]_vars => NeverExceeded'
<1> SUFFICES ASSUME Inv, NeverExceeded, [Next]_vars PROVE NeverExceeded'
  OBVIOUS
<1>1. CASE log' = log
  BY <1>1 DEF NeverExceeded
<1>2. CASE Restart
  BY <1>2 DEF Restart, NeverExceeded
<1>3. CASE \E k \in Keys : Record(k)
  BY <1>3, RecordExceeded
<1> QED
  BY <1>1, <1>2, <1>3 DEF Next, vars, RecordFull, Tick

(* For any limits, no user gets more than Times occurrences through in any *)
(* window of Duration, whichever slots they were written to.               *)
THEOREM ThresholdNeverExceeded == Spec => []NeverExceeded
<1> QED
  BY InitInv, StepInv, InitExceeded, StepExceeded, PTL DEF Spec
=============================================================================
