------------------------------ MODULE BansProofs ------------------------------
(***************************************************************************)
(* What a restart would read is the ban in force (BanAgrees), and who asks *)
(* for too many pages has a bounded number of bans (DosBansBounded), for   *)
(* any addresses, handlers, lengths of bans, limits and size of the queue. *)
(*                                                                         *)
(* Between the two halves of IssueBan the last ban written is that of the  *)
(* handler between them, if it is the only one (Written): the second half  *)
(* then makes the memory agree.  Two at once leave their address among the *)
(* crossed until it is banned by one alone.                                *)
(*                                                                         *)
(* The bans for "Dos" are counted with a potential, which no step raises.  *)
(***************************************************************************)
EXTENDS Bans, FiniteSetTheorems, WellFoundedInduction, TLAPS

Shape ==
  /\ now \in Nat
  /\ Ban \in [Addrs -> MaybeBan] /\ tx \in [Addrs -> MaybeBan] /\ bans \in [Addrs -> MaybeBan]
  /\ persistBan \in Seq(Row)
  /\ pc \in [Handlers -> {"idle", "count", "send", "set", "show"}]
  /\ who \in [Handlers -> Addrs \cup {None}]
  /\ new \in [Handlers -> MaybeBan]
  /\ \A h \in Handlers : pc[h] # "idle" => who[h] \in Addrs
  /\ \A h \in Handlers : pc[h] \in {"send", "set"} => new[h] \in BanOf

WrittenFor(a) ==
  /\ Setting(a) = {} /\ a \notin crossed => Ban[a] = LastWritten(a)
  /\ \A h \in Setting(a) : a \notin crossed => new[h] = LastWritten(a)
  /\ \A h, g \in Setting(a) : h # g => a \in crossed

Written == \A a \in Addrs : WrittenFor(a)

Inv == Shape /\ Written

-----------------------------------------------------------------------------
(* The last ban for an address in a queue                                  *)

Latest(q, table, a) ==
  LET of == {k \in DOMAIN q : q[k].addr = a}
  IN  IF of = {} THEN table ELSE q[CHOOSE k \in of : \A j \in of : j <= k].ban

LastAt(q, a, m) ==
  /\ m \in 1 .. Len(q) /\ q[m].addr = a
  /\ \A j \in 1 .. Len(q) : q[j].addr = a => j <= m

LEMMA LastIsLatest == \A a : LastWritten(a) = Latest(persistBan, Inserted[a], a)
  BY DEF LastWritten, Latest

LEMMA Least ==
  ASSUME NEW T \in SUBSET Nat, T # {}
  PROVE  \E x \in T : \A y \in T : x <= y
<1> DEFINE R == OpToRel(<, Nat)
<1>1. IsWellFoundedOn(R, Nat)
  BY NatLessThanWellFounded
<1>2. \A y \in Nat, x \in Nat : y < x => <<y, x>> \in R
  BY DEF OpToRel
<1> HIDE DEF R
<1>3. PICK x \in T : \A y \in T : ~ (<<y, x>> \in R)
  BY <1>1, WFMin
<1>4. \A y \in T : ~(y < x)
  BY <1>2, <1>3
<1> QED
  BY <1>4

LEMMA Greatest ==
  ASSUME NEW n \in Nat, NEW S \in SUBSET (1 .. n), S # {}
  PROVE  \E m \in S : \A k \in S : k <= m
<1> DEFINE T == {n - k : k \in S}
<1>1. T \in SUBSET Nat /\ T # {}
  <2>1. \A k \in S : k \in 1 .. n /\ n - k \in Nat
    OBVIOUS
  <2> QED
    BY <2>1
<1> HIDE DEF T
<1>2. PICK x \in T : \A y \in T : x <= y
  BY <1>1, Least
<1>3. PICK m \in S : x = n - m
  BY DEF T
<1>4. \A k \in S : n - k \in T /\ k \in Int
  BY DEF T
<1> QED
  BY <1>2, <1>3, <1>4

\* The index of the last one is as good as its definition.
LEMMA LatestAt ==
  ASSUME NEW q \in Seq(Row), NEW table, NEW a, NEW m, LastAt(q, a, m)
  PROVE  Latest(q, table, a) = q[m].ban
<1> DEFINE of == {k \in DOMAIN q : q[k].addr = a}
           c  == CHOOSE k \in of : \A j \in of : j <= k
<1>1. m \in of /\ \A j \in of : j <= m
  BY DEF LastAt
<1>2. c \in of /\ \A j \in of : j <= c
  BY <1>1
<1>3. c <= m /\ m <= c /\ c \in Int /\ m \in Int
  BY <1>1, <1>2
<1>4. c = m
  BY <1>3
<1> HIDE DEF c
<1>5. Latest(q, table, a) = q[c].ban
  BY <1>1 DEF Latest, c
<1> QED
  BY <1>4, <1>5

LEMMA LatestEmpty == \A table, a : Latest(<<>>, table, a) = table
  BY DEF Latest

LEMMA LatestNone ==
  ASSUME NEW q \in Seq(Row), NEW table, NEW a, \A j \in 1 .. Len(q) : q[j].addr # a
  PROVE  Latest(q, table, a) = table
  BY DEF Latest

LEMMA SomeLast ==
  ASSUME NEW q \in Seq(Row), NEW a, NEW k \in 1 .. Len(q), q[k].addr = a
  PROVE  \E m : LastAt(q, a, m)
<1> DEFINE S == {j \in 1 .. Len(q) : q[j].addr = a}
<1>1. Len(q) \in Nat /\ S \in SUBSET (1 .. Len(q)) /\ S # {}
  OBVIOUS
<1>2. PICK m \in S : \A j \in S : j <= m
  <2> HIDE DEF S
  <2> QED
    BY <1>1, Greatest
<1> QED
  BY <1>2 DEF LastAt

LEMMA LatestAppend ==
  ASSUME NEW q \in Seq(Row), NEW r \in Row, NEW table, NEW a
  PROVE  Latest(Append(q, r), table, a) = IF r.addr = a THEN r.ban ELSE Latest(q, table, a)
<1> DEFINE s == Append(q, r)
           n == Len(q)
<1>1. /\ s \in Seq(Row) /\ Len(s) = n + 1 /\ n \in Nat /\ s[n + 1] = r
      /\ \A k \in 1 .. n : s[k] = q[k]
      /\ \A k \in 1 .. n + 1 : k \in 1 .. n \/ k = n + 1
  OBVIOUS
<1> HIDE DEF s
<1>2. CASE r.addr = a
  <2>1. LastAt(s, a, n + 1)
    BY <1>1, <1>2 DEF LastAt
  <2>2. Latest(s, table, a) = s[n + 1].ban
    BY <1>1, <2>1, LatestAt
  <2> QED
    BY <1>1, <1>2, <2>2 DEF s
<1>3. CASE r.addr # a /\ \A j \in 1 .. n : q[j].addr # a
  <2>1. \A j \in 1 .. Len(s) : s[j].addr # a
    BY <1>1, <1>3
  <2>2. Latest(s, table, a) = table
    BY <1>1, <2>1, LatestNone
  <2>3. Latest(q, table, a) = table
    BY <1>3, LatestNone
  <2> QED
    BY <1>3, <2>2, <2>3 DEF s
<1>4. ASSUME r.addr # a, NEW k \in 1 .. n, q[k].addr = a
      PROVE  Latest(s, table, a) = Latest(q, table, a)
  <2>1. PICK m : LastAt(q, a, m)
    BY <1>4, SomeLast
  <2>2. LastAt(s, a, m) /\ s[m] = q[m]
    BY <1>1, <1>4, <2>1 DEF LastAt
  <2>3. Latest(s, table, a) = s[m].ban
    BY <1>1, <2>1, <2>2, LatestAt
  <2>4. Latest(q, table, a) = q[m].ban
    BY <2>1, LatestAt
  <2> QED
    BY <2>2, <2>3, <2>4
<1> QED
  BY <1>2, <1>3, <1>4 DEF s

LEMMA LatestTail ==
  ASSUME NEW q \in Seq(Row), q # <<>>, NEW table, NEW a
  PROVE  Latest(q, table, a)
           = Latest(Tail(q), IF Head(q).addr = a THEN Head(q).ban ELSE table, a)
<1> DEFINE s == Tail(q)
           n == Len(q)
           t == IF Head(q).addr = a THEN Head(q).ban ELSE table
<1>1. /\ s \in Seq(Row) /\ Len(s) = n - 1 /\ n \in Nat \ {0} /\ Head(q) = q[1]
      /\ \A k \in 1 .. n - 1 : s[k] = q[k + 1]
      /\ \A k \in 1 .. n : k = 1 \/ k - 1 \in 1 .. n - 1
      /\ \A k \in 1 .. n - 1 : k + 1 \in 1 .. n
  OBVIOUS
<1> HIDE DEF s, t
<1>2. CASE \A j \in 1 .. n : q[j].addr # a
  <2>1. Latest(q, table, a) = table
    BY <1>2, LatestNone
  <2>2. t = table
    BY <1>1, <1>2 DEF t
  <2>3. \A j \in 1 .. Len(s) : s[j].addr # a
    BY <1>1, <1>2
  <2>4. Latest(s, t, a) = t
    BY <1>1, <2>3, LatestNone
  <2> QED
    BY <2>1, <2>2, <2>4 DEF s, t
<1>3. ASSUME NEW m, LastAt(q, a, m)
      PROVE  Latest(q, table, a) = Latest(s, t, a)
  <2>1. Latest(q, table, a) = q[m].ban
    BY <1>3, LatestAt
  <2>2. CASE m = 1
    <3>1. t = q[1].ban
      BY <1>1, <1>3, <2>2 DEF t, LastAt
    <3>2. \A j \in 1 .. Len(s) : s[j].addr # a
      <4>1. SUFFICES ASSUME NEW j \in 1 .. n - 1, s[j].addr = a PROVE FALSE
        BY <1>1
      <4>2. j + 1 \in 1 .. n /\ q[j + 1].addr = a /\ j + 1 > 1
        BY <1>1, <4>1
      <4> QED
        BY <1>3, <2>2, <4>2 DEF LastAt
    <3>3. Latest(s, t, a) = t
      BY <1>1, <3>2, LatestNone
    <3> QED
      BY <2>1, <2>2, <3>1, <3>3
  <2>3. CASE m # 1
    <3>1. m - 1 \in 1 .. n - 1 /\ s[m - 1] = q[m]
      BY <1>1, <1>3, <2>3 DEF LastAt
    <3>2. LastAt(s, a, m - 1)
      <4>1. /\ m \in 1 .. n /\ q[m].addr = a
            /\ \A j \in 1 .. n : q[j].addr = a => j <= m
        BY <1>3 DEF LastAt
      <4>2. ASSUME NEW j \in 1 .. n - 1, s[j].addr = a PROVE j <= m - 1
        <5>1. j + 1 \in 1 .. n /\ q[j + 1].addr = a
          BY <1>1, <4>2
        <5>2. j + 1 <= m /\ j \in Int /\ m \in Int
          BY <4>1, <5>1
        <5> QED
          BY <5>2
      <4> QED
        BY <1>1, <3>1, <4>1, <4>2 DEF LastAt
    <3>3. Latest(s, t, a) = s[m - 1].ban
      BY <1>1, <3>2, LatestAt
    <3> QED
      BY <2>1, <3>1, <3>3
  <2> QED
    BY <2>2, <2>3
<1>4. ASSUME NEW k \in 1 .. n, q[k].addr = a PROVE Latest(q, table, a) = Latest(s, t, a)
  BY <1>3, <1>4, SomeLast
<1> QED
  BY <1>2, <1>4 DEF s, t

-----------------------------------------------------------------------------
LEMMA InitInv == BInit => Inv
<1> SUFFICES ASSUME BInit PROVE Inv
  OBVIOUS
<1>1. Shape
  BY DEF BInit, Init, Shape, MaybeBan
<1>2. \A a \in Addrs : LastWritten(a) = None /\ Ban[a] = None /\ Setting(a) = {}
  <2>1. ASSUME NEW a \in Addrs PROVE LastWritten(a) = None
    <3>1. persistBan = <<>> /\ Inserted[a] = None
      BY DEF BInit, Inserted
    <3> QED
      BY <3>1, LastIsLatest, LatestEmpty
  <2> QED
    BY <2>1 DEF BInit, Setting
<1> QED
  BY <1>1, <1>2 DEF Inv, Written, WrittenFor

\* A step that leaves the bans and those who are setting one alone.
LEMMA Frame ==
  ASSUME Written, UNCHANGED <<Ban, persistBan, tx, bans, crossed>>,
         \A h \in Handlers : pc'[h] = "set" <=> pc[h] = "set",
         \A h \in Handlers : pc[h] = "set" => who'[h] = who[h] /\ new'[h] = new[h]
  PROVE  Written'
<1>1. \A a : Setting(a)' = Setting(a)
  BY DEF Setting
<1>2. \A a : LastWritten(a)' = LastWritten(a)
  BY DEF LastWritten, Inserted
<1>3. \A a : \A h \in Setting(a) : new'[h] = new[h]
  BY DEF Setting
<1> QED
  BY <1>1, <1>2, <1>3 DEF Written, WrittenFor

LEMMA ViewInv == ASSUME Inv, NEW h \in Viewers, NEW a \in Addrs, View(h, a) PROVE Inv'
<1> USE DEF View, Goto, thVars, dumpVars, Handlers
<1>1. Shape'
  BY DEF Inv, Shape
<1>2. Written'
  BY Frame DEF Inv, Shape
<1> QED
  BY <1>1, <1>2 DEF Inv

LEMMA ViewingInv == ASSUME Inv, NEW h \in Viewers, Viewing(h) PROVE Inv'
<1> USE DEF Goto, thVars, dumpVars, Handlers
<1>1. CASE Count(h)
  <2>1. UNCHANGED now
    BY <1>1 DEF Count, Accept
  <2>2. Shape'
    BY <1>1, <2>1 DEF Count, Inv, Shape
  <2>3. Written'
    BY <1>1, Frame DEF Count, Inv, Shape
  <2> QED
    BY <2>2, <2>3 DEF Inv
<1>2. CASE DenyPage(h)
  <2>1. UNCHANGED now
    BY <1>2 DEF DenyPage, Refuse
  <2>2. Shape'
    BY <1>2, <2>1 DEF DenyPage, Inv, Shape
  <2>3. Written'
    BY <1>2, Frame DEF DenyPage, Inv, Shape
  <2> QED
    BY <2>2, <2>3 DEF Inv
<1>3. CASE BanForDos(h)
  <2>1. UNCHANGED now
    BY <1>3 DEF BanForDos, Refuse
  <2>2. [dos |-> TRUE, end |-> now + DosLength] \in BanOf
    BY BansAssumption DEF Inv, Shape, BanOf
  <2>3. Shape'
    BY <1>3, <2>1, <2>2 DEF BanForDos, CreateDosBan, Inv, Shape, MaybeBan
  <2>4. Written'
    BY <1>3, Frame DEF BanForDos, CreateDosBan, Inv, Shape
  <2> QED
    BY <2>3, <2>4 DEF Inv
<1>4. CASE Show(h)
  <2>1. Shape'
    BY <1>4 DEF Show, Inv, Shape
  <2>2. Written'
    BY <1>4, Frame DEF Show, Inv, Shape
  <2> QED
    BY <2>1, <2>2 DEF Inv
<1> QED
  BY <1>1, <1>2, <1>3, <1>4 DEF Viewing

LEMMA CreateBanInv == ASSUME Inv, NEW h \in Issuers, NEW a \in Addrs, CreateBan(h, a) PROVE Inv'
<1> USE DEF CreateBan, Goto, thVars, dumpVars, Handlers
<1>1. PICK n \in Lengths : new' = [new EXCEPT ![h] = [dos |-> FALSE, end |-> now + n]]
  OBVIOUS
<1>2. [dos |-> FALSE, end |-> now + n] \in BanOf
  BY BansAssumption DEF Inv, Shape, BanOf
<1>3. Shape'
  BY <1>1, <1>2 DEF Inv, Shape, MaybeBan
<1>4. Written'
  BY <1>1, Frame DEF Inv, Shape
<1> QED
  BY <1>3, <1>4 DEF Inv

LEMMA SendBanInv == ASSUME Inv, NEW h \in Handlers, SendBan(h) PROVE Inv'
<1> DEFINE r == [addr |-> who[h], ban |-> new[h]]
<1>1. /\ pc[h] = "send" /\ persistBan' = Append(persistBan, r)
      /\ crossed' = Overlaps(h) /\ pc' = [pc EXCEPT ![h] = "set"]
      /\ UNCHANGED <<now, Ban, tx, bans, who, new>>
  BY DEF SendBan, Goto, thVars, dumpVars
<1>2. who[h] \in Addrs /\ r \in Row
  BY <1>1 DEF Inv, Shape, Row
<1>3. Shape'
  BY <1>1, <1>2 DEF Inv, Shape
<1>4. \A a \in Addrs : LastWritten(a)' = IF a = who[h] THEN new[h] ELSE LastWritten(a)
  <2> TAKE a \in Addrs
  <2>1. LastWritten(a)' = Latest(persistBan', Inserted[a], a)
    BY <1>1, LastIsLatest DEF LastWritten, Latest, Inserted
  <2>2. Latest(persistBan', Inserted[a], a)
          = IF r.addr = a THEN r.ban ELSE Latest(persistBan, Inserted[a], a)
    BY <1>1, <1>2, LatestAppend DEF Inv, Shape
  <2> QED
    BY <2>1, <2>2, LastIsLatest
<1>5. \A a \in Addrs : Setting(a)' = IF a = who[h] THEN Setting(a) \cup {h} ELSE Setting(a)
  BY <1>1 DEF Setting, Inv, Shape
<1>6. h \notin Setting(who[h])
  BY <1>1 DEF Setting
<1>7. ASSUME NEW a \in Addrs PROVE WrittenFor(a)'
  <2>1. CASE a # who[h]
    <3>1. a \in crossed' <=> a \in crossed
      BY <1>1, <2>1 DEF Overlaps
    <3>2. /\ LastWritten(a)' = LastWritten(a) /\ Setting(a)' = Setting(a)
          /\ UNCHANGED <<Ban, new>>
      BY <1>1, <1>4, <1>5, <2>1
    <3> QED
      BY <3>1, <3>2 DEF Inv, Written, WrittenFor
  <2>2. CASE a = who[h]
    <3>1. Setting(a)' = Setting(a) \cup {h} /\ LastWritten(a)' = new[h] /\ new' = new
      BY <1>1, <1>4, <1>5, <2>2
    <3>2. Setting(a) = {} \/ a \in crossed'
      BY <1>1, <2>2 DEF Overlaps
    <3> QED
      BY <3>1, <3>2 DEF WrittenFor
  <2> QED
    BY <2>1, <2>2
<1> QED
  BY <1>3, <1>7 DEF Inv, Written

LEMMA SetBanInv == ASSUME Inv, NEW h \in Handlers, SetBan(h) PROVE Inv'
<1>1. /\ pc[h] = "set" /\ Ban' = [Ban EXCEPT ![who[h]] = new[h]]
      /\ new' = [new EXCEPT ![h] = None]
      /\ \/ pc' = [pc EXCEPT ![h] = "show"] /\ who' = who
         \/ pc' = [pc EXCEPT ![h] = "idle"] /\ who' = [who EXCEPT ![h] = None]
      /\ UNCHANGED <<now, tx, bans, persistBan, crossed>>
  BY DEF SetBan, Goto, thVars, dumpVars
<1>2. who[h] \in Addrs /\ new[h] \in BanOf
  BY <1>1 DEF Inv, Shape
<1>3. Shape'
  BY <1>1, <1>2 DEF Inv, Shape, MaybeBan
<1>4. \A a \in Addrs : LastWritten(a)' = LastWritten(a)
  BY <1>1 DEF LastWritten, Inserted
<1>5. \A a \in Addrs : Setting(a)' = Setting(a) \ {h}
  BY <1>1 DEF Setting, Inv, Shape
<1>6. \A g \in Handlers : g # h => new'[g] = new[g]
  BY <1>1 DEF Inv, Shape
<1>7. h \in Setting(who[h])
  BY <1>1 DEF Setting
<1>8. ASSUME NEW a \in Addrs PROVE WrittenFor(a)'
  <2>1. CASE a # who[h]
    <3>1. Ban'[a] = Ban[a] /\ h \notin Setting(a)
      BY <1>1, <2>1 DEF Inv, Shape, Setting
    <3>2. Setting(a)' = Setting(a) /\ \A g \in Setting(a) : new'[g] = new[g]
      BY <1>5, <1>6, <3>1 DEF Setting
    <3> QED
      BY <1>1, <1>4, <3>1, <3>2 DEF Inv, Written, WrittenFor
  <2>2. CASE a = who[h]
    <3>1. Ban'[a] = new[h]
      BY <1>1, <2>2 DEF Inv, Shape
    <3>2. \A g \in Setting(a)' : g \in Setting(a) /\ g # h
      BY <1>5
    <3>3. a \notin crossed => new[h] = LastWritten(a) /\ Setting(a)' = {}
      BY <1>7, <2>2, <3>2 DEF Inv, Written, WrittenFor
    <3>4. \A g, k \in Setting(a)' : g # k => a \in crossed
      BY <3>2 DEF Inv, Written, WrittenFor
    <3> QED
      BY <1>1, <1>4, <3>1, <3>3, <3>4 DEF WrittenFor
  <2> QED
    BY <2>1, <2>2
<1> QED
  BY <1>3, <1>8 DEF Inv, Written

\* A step of the dump loop, which leaves the last ban written where it is
\* or takes it one step on.
LEMMA DumperInv == ASSUME Inv, Dumper PROVE Inv'
<1>1. UNCHANGED <<now, Ban, pc, who, new, crossed>>
  BY DEF Dumper, Wake, InsertBan, Commit, thVars
<1>2. Shape' /\ \A a \in Addrs : LastWritten(a)' = LastWritten(a)
  <2>1. CASE Wake
    BY <1>1, <2>1 DEF Wake, Inv, Shape, LastWritten, Inserted
  <2>2. CASE InsertBan
    <3> DEFINE b == Head(persistBan)
    <3>1. /\ persistBan # <<>> /\ persistBan' = Tail(persistBan)
          /\ tx' = [tx EXCEPT ![b.addr] = b.ban] /\ bans' = bans
      BY <2>2 DEF InsertBan
    <3>2. persistBan \in Seq(Row) /\ b \in Row /\ Tail(persistBan) \in Seq(Row)
      BY <3>1 DEF Inv, Shape
    <3>3. b.addr \in Addrs /\ b.ban \in BanOf /\ b.ban # None
      BY <3>2, BansAssumption DEF Row, BanOf
    <3>4. Shape'
      BY <1>1, <3>1, <3>2, <3>3 DEF Inv, Shape, MaybeBan
    <3>5. ASSUME NEW a \in Addrs PROVE LastWritten(a)' = LastWritten(a)
      <4>1. Inserted'[a] = IF b.addr = a THEN b.ban ELSE Inserted[a]
        BY <3>1, <3>3 DEF Inserted, Inv, Shape
      <4>2. LastWritten(a)' = Latest(persistBan', Inserted'[a], a)
        BY DEF LastWritten, Latest
      <4>3. Latest(persistBan, Inserted[a], a) = Latest(persistBan', Inserted'[a], a)
        BY <3>1, <3>2, <4>1, LatestTail
      <4> QED
        BY <4>2, <4>3, LastIsLatest
    <3> QED
      BY <3>4, <3>5
  <2>3. CASE Commit
    <3>1. /\ bans' = Inserted /\ tx' = [a \in Addrs |-> None] /\ persistBan' = persistBan
      BY <2>3 DEF Commit
    <3>2. Inserted \in [Addrs -> MaybeBan]
      BY DEF Inserted, Inv, Shape
    <3>3. Shape'
      BY <1>1, <3>1, <3>2 DEF Inv, Shape, MaybeBan
    <3>4. \A a \in Addrs : Inserted'[a] = Inserted[a]
      BY <3>1 DEF Inserted
    <3> QED
      BY <3>1, <3>3, <3>4 DEF LastWritten
  <2> QED
    BY <2>1, <2>2, <2>3 DEF Dumper
<1>3. \A a : Setting(a)' = Setting(a)
  BY <1>1 DEF Setting
<1> QED
  BY <1>1, <1>2, <1>3 DEF Inv, Written, WrittenFor

LEMMA ReadBansInv == ASSUME Inv, ReadBans PROVE Inv'
<1>1. /\ Ban' = bans /\ bans' = bans /\ persistBan' = <<>>
      /\ tx' = [a \in Addrs |-> None] /\ now' = now
      /\ pc' = [h \in Handlers |-> "idle"] /\ who' = [h \in Handlers |-> None]
      /\ new' = [h \in Handlers |-> None]
  BY DEF ReadBans, NoHandlers, Forget
<1>2. Shape'
  BY <1>1 DEF Inv, Shape, MaybeBan
<1>3. ASSUME NEW a \in Addrs PROVE LastWritten(a)' = Ban'[a] /\ Setting(a)' = {}
  <2>1. Inserted'[a] = bans[a]
    BY <1>1 DEF Inserted
  <2>2. LastWritten(a)' = Latest(<<>>, Inserted'[a], a)
    BY <1>1 DEF LastWritten, Latest
  <2>3. Latest(<<>>, Inserted'[a], a) = Inserted'[a]
    BY LatestEmpty
  <2> QED
    BY <1>1, <2>1, <2>2, <2>3 DEF Setting
<1> QED
  BY <1>2, <1>3 DEF Inv, Written, WrittenFor

LEMMA LaterInv == ASSUME Inv, Later PROVE Inv'
<1>1. now' = now + 1 /\ UNCHANGED <<Ban, persistBan, phase, tx, bans, pc, who, new, crossed>>
  BY DEF Later, Tick, dumpVars
<1>2. Shape'
  BY <1>1 DEF Inv, Shape
<1>3. Written'
  BY <1>1, Frame DEF Inv
<1> QED
  BY <1>2, <1>3 DEF Inv

LEMMA StepInv == Inv /\ [BNext]_bvars => Inv'
<1> SUFFICES ASSUME Inv, [BNext]_bvars PROVE Inv'
  OBVIOUS
<1>1. CASE UNCHANGED bvars
  <2>1. UNCHANGED <<now, Ban, persistBan, tx, bans, pc, who, new, crossed>>
    BY <1>1 DEF bvars, thVars, banVars, dumpVars
  <2>2. Shape'
    BY <2>1 DEF Inv, Shape
  <2>3. Written'
    BY <2>1, Frame DEF Inv
  <2> QED
    BY <2>2, <2>3 DEF Inv
<1>2. CASE \E h \in Viewers, a \in Addrs : View(h, a)
  BY <1>2, ViewInv
<1>3. CASE \E h \in Issuers, a \in Addrs : CreateBan(h, a)
  BY <1>3, CreateBanInv
<1>4. CASE \E h \in Viewers : Viewing(h)
  BY <1>4, ViewingInv
<1>5. CASE \E h \in Handlers : Issuing(h)
  BY <1>5, SendBanInv, SetBanInv DEF Issuing
<1>6. CASE Dumper \/ ReadBans \/ Later
  BY <1>6, DumperInv, ReadBansInv, LaterInv
<1> QED
  BY <1>1, <1>2, <1>3, <1>4, <1>5, <1>6 DEF BNext

(* What a restart would read is the ban in force, unless a handler is      *)
(* between the halves of IssueBan, or two were at once.                    *)
THEOREM BansAgree == BSpec => []BanAgrees
<1>1. Inv => BanAgrees
  BY DEF Inv, Written, WrittenFor, BanAgrees
<1> QED
  BY InitInv, StepInv, <1>1, PTL DEF BSpec

-----------------------------------------------------------------------------
(* How many bans for Dos last at once.                                     *)
(*                                                                         *)
(* Take any time T, before a ban made now will be over, and count the bans *)
(* that last beyond it (Live).  While the ban in force does (Held), nobody *)
(* can begin to make another; it takes one that waited and will be over    *)
(* by T (Early) to be set in its place.  So each of those lets everybody   *)
(* in once more, but for those who still wait, and there are fewer of them *)
(* each time: Potential is what there is and what there may still be.      *)

Same(bs, e) == {b \in bs : b[1] = e}

\* A set of bans as the history keeps it.
Listed(bs) ==
  /\ bs \subseteq Nat \X Nat /\ IsFiniteSet(bs)
  /\ \A b \in bs : b[2] < Cardinality(Same(bs, b[1]))

LastingNow(a) == \A b \in dos[a] : now < b[1] /\ b[1] <= now + DosLength

DosOnly(b) == b # None => b.dos /\ b.end <= now + DosLength

OnlyDos ==
  /\ \A a \in Addrs : DosOnly(Ban[a]) /\ DosOnly(tx[a]) /\ DosOnly(bans[a])
  /\ \A i \in 1 .. Len(persistBan) : DosOnly(persistBan[i].ban)
  /\ \A h \in Handlers : pc[h] \in {"send", "set"} => h \in Viewers /\ DosOnly(new[h])

Held(a, T)  == Ban[a] # None /\ Ban[a].end > T
Live(a, T)  == {b \in dos[a] : b[1] > T}
Asking(a)   == {h \in Viewers : pc[h] = "count" /\ who[h] = a /\ ~seen[h]}
Early(a, T) == {h \in Viewers : pc[h] \in {"send", "set"} /\ who[h] = a /\ new[h].end <= T}
Late(a, T)  == {h \in Viewers : pc[h] \in {"send", "set"} /\ who[h] = a /\ new[h].end > T}

\* Twice what there may be, of l bans that last, c viewers asking, f with a
\* ban that lasts and k with one that does not.
Room(v, held, l, c, f, k) ==
  2 * l + k * (2 * v - k + 1) + 2 * (IF held THEN c ELSE v - f - k)

Potential(a, T) ==
  LET v == Cardinality(Viewers)
  IN  Room(v, Held(a, T), Cardinality(Live(a, T)), Cardinality(Asking(a)),
           Cardinality(Late(a, T)), Cardinality(Early(a, T))) <= v * (v + 1)

Bounded ==
  /\ \A a \in Addrs : Listed(dos[a]) /\ LastingNow(a)
  /\ DosBansBounded /\ issued \in Nat
  /\ issued = 0 => /\ OnlyDos
                   /\ \A a \in Addrs : \A T \in now .. now + DosLength - 1 : Potential(a, T)

LEMMA TriangleStep ==
  ASSUME NEW v \in Int, NEW k \in Int
  PROVE  k * (2 * v - k + 1) = (k - 1) * (2 * v - (k - 1) + 1) + 2 * (v - k + 1)
OBVIOUS

LEMMA SquareAbove ==
  ASSUME NEW d \in Nat
  PROVE  d <= d * d
<1>1. CASE d = 0
  BY <1>1
<1>2. CASE d >= 1
  BY <1>2
<1> QED
  BY <1>1, <1>2

LEMMA RoomAtFirst ==
  ASSUME NEW v \in Nat, NEW c \in Nat, NEW k \in 0 .. v
  PROVE  Room(v, FALSE, 0, c, 0, k) <= v * (v + 1)
<1>1. v - k \in Nat
  OBVIOUS
<1>2. v - k <= (v - k) * (v - k)
  BY <1>1, SquareAbove
<1>3. v * (v + 1) - (2 * (v - k) + k * (2 * v - k + 1)) = (v - k) * (v - k) - (v - k)
  OBVIOUS
<1>4. 2 * (v - k) + k * (2 * v - k + 1) <= v * (v + 1)
  <2> DEFINE x == 2 * (v - k) + k * (2 * v - k + 1)
             y == v * (v + 1)
             z == (v - k) * (v - k)
  <2>1. x \in Int /\ y \in Int /\ z \in Int
    OBVIOUS
  <2>2. y - x = z - (v - k) /\ v - k <= z
    BY <1>2, <1>3
  <2> HIDE DEF x, y, z
  <2>3. x <= y
    BY <1>1, <2>1, <2>2
  <2> QED
    BY <2>3 DEF x, y
<1> QED
  BY <1>4 DEF Room

\* The steps that count.
LEMMA RoomKept ==
  ASSUME NEW v \in Nat, NEW l \in Nat, NEW c \in Nat, NEW f \in Nat, NEW k \in Nat,
         NEW held \in BOOLEAN, c + f + k <= v,
         NEW l2 \in Nat, NEW c2 \in Nat, NEW f2 \in Nat, NEW k2 \in Nat, NEW held2 \in BOOLEAN,
         \/ (held2 <=> held) /\ l2 = l /\ f2 = f /\ k2 = k /\ (held => c2 <= c)
         \/ (held2 <=> held) /\ l2 = l + 1 /\ f2 = f + 1 /\ k2 = k /\ c2 = c - 1
         \/ held2 /\ l2 = l /\ f2 = f - 1 /\ k2 = k /\ c2 = c
         \/ ~held2 /\ l2 = l /\ f2 = f /\ k2 = k - 1 /\ c2 = c
  PROVE  Room(v, held2, l2, c2, f2, k2) <= Room(v, held, l, c, f, k)
<1> DEFINE s(j) == j * (2 * v - j + 1)
<1>1. \A j \in Int : s(j) \in Int /\ s(j) = s(j - 1) + 2 * (v - j + 1)
  BY TriangleStep
<1>2. /\ Room(v, held, l, c, f, k) = 2 * l + s(k) + 2 * (IF held THEN c ELSE v - f - k)
      /\ Room(v, held2, l2, c2, f2, k2) = 2 * l2 + s(k2) + 2 * (IF held2 THEN c2 ELSE v - f2 - k2)
  BY DEF Room
<1> HIDE DEF s
<1>3. CASE (held2 <=> held) /\ l2 = l /\ f2 = f /\ k2 = k /\ (held => c2 <= c)
  <2>1. s(k2) = s(k) /\ s(k) \in Int
    BY <1>1, <1>3
  <2>2. CASE held
    BY <1>2, <1>3, <2>1, <2>2
  <2>3. CASE ~held
    BY <1>2, <1>3, <2>1, <2>3
  <2> QED
    BY <2>2, <2>3
<1>4. CASE (held2 <=> held) /\ l2 = l + 1 /\ f2 = f + 1 /\ k2 = k /\ c2 = c - 1
  <2>1. s(k2) = s(k) /\ s(k) \in Int
    BY <1>1, <1>4
  <2>2. CASE held
    BY <1>2, <1>4, <2>1, <2>2
  <2>3. CASE ~held
    BY <1>2, <1>4, <2>1, <2>3
  <2> QED
    BY <2>2, <2>3
<1>5. CASE held2 /\ l2 = l /\ f2 = f - 1 /\ k2 = k /\ c2 = c
  <2>1. s(k2) = s(k) /\ s(k) \in Int
    BY <1>1, <1>5
  <2>2. CASE held
    BY <1>2, <1>5, <2>1, <2>2
  <2>3. CASE ~held
    BY <1>2, <1>5, <2>1, <2>3
  <2> QED
    BY <2>2, <2>3
<1>6. CASE ~held2 /\ l2 = l /\ f2 = f /\ k2 = k - 1 /\ c2 = c
  <2>1. s(k) = s(k2) + 2 * (v - k + 1) /\ s(k) \in Int /\ s(k2) \in Int
    BY <1>1, <1>6
  <2> QED
    BY <1>2, <1>6, <2>1
<1> QED
  BY <1>3, <1>4, <1>5, <1>6

-----------------------------------------------------------------------------
LEMMA OneMoreIs ==
  ASSUME NEW bs, Listed(bs), NEW e \in Nat
  PROVE  /\ Listed(OneMore(bs, e))
         /\ \E x \in Nat \X Nat : x[1] = e /\ x \notin bs /\ OneMore(bs, e) = bs \cup {x}
<1> DEFINE n == Cardinality(Same(bs, e))
           x == <<e, n>>
           more == bs \cup {x}
<1>1. \A d : IsFiniteSet(Same(bs, d)) /\ Cardinality(Same(bs, d)) \in Nat
  BY FS_Subset, FS_CardinalityType DEF Same, Listed
<1>2. n \in Nat /\ x \in Nat \X Nat /\ x[1] = e /\ x[2] = n
  BY <1>1
<1>3. OneMore(bs, e) = more
  BY DEF OneMore, Same
<1> HIDE DEF x, n
<1>4. x \notin bs
  <2>1. ~(x[2] < Cardinality(Same(bs, x[1])))
    BY <1>1, <1>2 DEF n
  <2> QED
    BY <2>1 DEF Listed
<1>5. IsFiniteSet(more) /\ more \subseteq Nat \X Nat
  BY <1>2, FS_AddElement DEF Listed
<1>6. Same(more, e) = Same(bs, e) \cup {x} /\ \A d : d # e => Same(more, d) = Same(bs, d)
  BY <1>2 DEF Same
<1>7. Cardinality(Same(more, e)) = n + 1
  <2>1. x \notin Same(bs, e)
    BY <1>4 DEF Same
  <2> QED
    BY <1>1, <1>6, <2>1, FS_AddElement DEF n
<1>8. ASSUME NEW b \in more PROVE b[2] < Cardinality(Same(more, b[1]))
  <2>1. CASE b = x
    BY <1>2, <1>7, <2>1
  <2>2. CASE b \in bs
    <3>1. b[2] < Cardinality(Same(bs, b[1])) /\ b[2] \in Nat
      BY <2>2 DEF Listed
    <3>2. CASE b[1] = e
      BY <1>2, <1>7, <3>1, <3>2 DEF n
    <3>3. CASE b[1] # e
      BY <1>6, <3>1, <3>3
    <3> QED
      BY <3>2, <3>3
  <2> QED
    BY <2>1, <2>2
<1> QED
  BY <1>2, <1>3, <1>4, <1>5, <1>8 DEF Listed

LEMMA LaterOnes ==
  ASSUME NEW bs, Listed(bs), NEW n \in Nat
  PROVE  Listed({b \in bs : n < b[1]})
<1> DEFINE rest == {b \in bs : n < b[1]}
<1>1. IsFiniteSet(rest) /\ rest \subseteq Nat \X Nat
  BY FS_Subset DEF Listed
<1>2. \A b \in rest : Same(rest, b[1]) = Same(bs, b[1])
  BY DEF Same
<1>3. \A b \in rest : b[2] < Cardinality(Same(bs, b[1]))
  BY DEF Listed
<1> HIDE DEF rest
<1> QED
  BY <1>1, <1>2, <1>3 DEF Listed, rest

LEMMA NoneListed == Listed({})
BY FS_EmptySet DEF Listed

\* The viewers are at most in one of the three sets.
LEMMA ViewersCounted ==
  ASSUME Shape, NEW a \in Addrs, NEW T \in Nat, Listed(dos[a])
  PROVE  /\ IsFiniteSet(Viewers) /\ Cardinality(Viewers) \in Nat
         /\ IsFiniteSet(Live(a, T)) /\ Cardinality(Live(a, T)) \in Nat
         /\ IsFiniteSet(Asking(a)) /\ Cardinality(Asking(a)) \in Nat
         /\ IsFiniteSet(Late(a, T)) /\ Cardinality(Late(a, T)) \in Nat
         /\ IsFiniteSet(Early(a, T)) /\ Cardinality(Early(a, T)) \in Nat
         /\ Cardinality(Asking(a)) + Cardinality(Late(a, T)) + Cardinality(Early(a, T))
              <= Cardinality(Viewers)
<1> DEFINE A == Asking(a)
           L == Late(a, T)
           E == Early(a, T)
<1>1. IsFiniteSet(Viewers)
  BY BansAssumption
<1>2. A \subseteq Viewers /\ L \subseteq Viewers /\ E \subseteq Viewers
  BY DEF Asking, Late, Early
<1>3. A \cap L = {} /\ (A \cup L) \cap E = {}
  <2>1. A \cap L = {} /\ A \cap E = {}
    BY DEF Asking, Late, Early
  <2>2. \A h \in Viewers : pc[h] \in {"send", "set"} => new[h].end \in Nat
    BY DEF Shape, BanOf, Handlers
  <2>3. L \cap E = {}
    BY <2>2 DEF Late, Early
  <2> QED
    BY <2>1, <2>3
<1>4. IsFiniteSet(Live(a, T))
  BY FS_Subset DEF Live, Listed
<1> HIDE DEF A, L, E
<1>5. IsFiniteSet(A) /\ IsFiniteSet(L) /\ IsFiniteSet(E)
  BY <1>1, <1>2, FS_Subset
<1>6. IsFiniteSet(A \cup L) /\ Cardinality(A \cup L) = Cardinality(A) + Cardinality(L)
  <2>1. /\ IsFiniteSet(A \cup L)
        /\ Cardinality(A \cup L) = Cardinality(A) + Cardinality(L) - Cardinality(A \cap L)
    BY <1>5, FS_Union
  <2>2. Cardinality(A \cap L) = 0 /\ Cardinality(A) \in Nat /\ Cardinality(L) \in Nat
    BY <1>3, <1>5, FS_EmptySet, FS_CardinalityType
  <2> QED
    BY <2>1, <2>2
<1>7. Cardinality((A \cup L) \cup E) = Cardinality(A) + Cardinality(L) + Cardinality(E)
  <2> DEFINE B == A \cup L
  <2>1. IsFiniteSet(B) /\ Cardinality(B) = Cardinality(A) + Cardinality(L) /\ B \cap E = {}
    BY <1>3, <1>6
  <2> HIDE DEF B
  <2>2. Cardinality(B \cup E) = Cardinality(B) + Cardinality(E) - Cardinality(B \cap E)
    BY <1>5, <2>1, FS_Union
  <2>3. Cardinality(B \cap E) = 0 /\ Cardinality(B) \in Nat /\ Cardinality(E) \in Nat
    BY <1>5, <2>1, FS_EmptySet, FS_CardinalityType
  <2>4. Cardinality(B \cup E) = Cardinality(B) + Cardinality(E)
    BY <2>2, <2>3
  <2> QED
    BY <2>1, <2>4 DEF B
<1>8. (A \cup L) \cup E \subseteq Viewers
  BY <1>2
<1>9. Cardinality((A \cup L) \cup E) <= Cardinality(Viewers)
  BY <1>1, <1>8, FS_Subset
<1>10. /\ Cardinality(Viewers) \in Nat /\ Cardinality(Live(a, T)) \in Nat
       /\ Cardinality(A) \in Nat /\ Cardinality(L) \in Nat /\ Cardinality(E) \in Nat
  BY <1>1, <1>4, <1>5, FS_CardinalityType
<1> QED
  BY <1>1, <1>4, <1>5, <1>7, <1>9, <1>10 DEF A, L, E

\* What a step may do to the sets of one address.
Moves(a, T) ==
  \/ /\ Held(a, T)' <=> Held(a, T)
     /\ Live(a, T)' = Live(a, T)
     /\ Late(a, T)' = Late(a, T) /\ Early(a, T)' = Early(a, T)
     /\ Held(a, T) => Asking(a)' \subseteq Asking(a)
  \/ /\ Held(a, T)' <=> Held(a, T)
     /\ \E x : x \notin Live(a, T) /\ Live(a, T)' = Live(a, T) \cup {x}
     /\ \E h \in Asking(a) : /\ Asking(a)' = Asking(a) \ {h}
                             /\ h \notin Late(a, T) /\ Late(a, T)' = Late(a, T) \cup {h}
     /\ Early(a, T)' = Early(a, T)
  \/ /\ Held(a, T)'
     /\ Live(a, T)' = Live(a, T) /\ Asking(a)' = Asking(a) /\ Early(a, T)' = Early(a, T)
     /\ \E h \in Late(a, T) : Late(a, T)' = Late(a, T) \ {h}
  \/ /\ ~Held(a, T)'
     /\ Live(a, T)' = Live(a, T) /\ Asking(a)' = Asking(a) /\ Late(a, T)' = Late(a, T)
     /\ \E h \in Early(a, T) : Early(a, T)' = Early(a, T) \ {h}

LEMMA PotentialKept ==
  ASSUME Shape, Shape', NEW a \in Addrs, NEW T \in Nat, Listed(dos[a]), Listed(dos'[a]),
         Potential(a, T), Moves(a, T)
  PROVE  Potential(a, T)'
<1> DEFINE v == Cardinality(Viewers)
           l == Cardinality(Live(a, T))
           c == Cardinality(Asking(a))
           f == Cardinality(Late(a, T))
           k == Cardinality(Early(a, T))
           l2 == Cardinality(Live(a, T)')
           c2 == Cardinality(Asking(a)')
           f2 == Cardinality(Late(a, T)')
           k2 == Cardinality(Early(a, T)')
           held == Held(a, T)
           held2 == Held(a, T)'
<1>1. /\ v \in Nat /\ l \in Nat /\ c \in Nat /\ f \in Nat /\ k \in Nat /\ c + f + k <= v
      /\ IsFiniteSet(Live(a, T)) /\ IsFiniteSet(Asking(a))
      /\ IsFiniteSet(Late(a, T)) /\ IsFiniteSet(Early(a, T))
  BY ViewersCounted
<1>2. l2 \in Nat /\ c2 \in Nat /\ f2 \in Nat /\ k2 \in Nat
  <2>1. /\ IsFiniteSet(Asking(a)') /\ IsFiniteSet(Late(a, T)') /\ IsFiniteSet(Early(a, T)')
    BY FS_Subset, BansAssumption DEF Asking, Late, Early
  <2>2. IsFiniteSet(Live(a, T)')
    BY FS_Subset DEF Live, Listed
  <2> QED
    BY <2>1, <2>2, FS_CardinalityType
<1>3. \/ (held2 <=> held) /\ l2 = l /\ f2 = f /\ k2 = k /\ (held => c2 <= c)
      \/ (held2 <=> held) /\ l2 = l + 1 /\ f2 = f + 1 /\ k2 = k /\ c2 = c - 1
      \/ held2 /\ l2 = l /\ f2 = f - 1 /\ k2 = k /\ c2 = c
      \/ ~held2 /\ l2 = l /\ f2 = f /\ k2 = k - 1 /\ c2 = c
  <2>1. ASSUME Held(a, T)' <=> Held(a, T), Live(a, T)' = Live(a, T),
               Late(a, T)' = Late(a, T), Early(a, T)' = Early(a, T),
               Held(a, T) => Asking(a)' \subseteq Asking(a)
        PROVE  (held2 <=> held) /\ l2 = l /\ f2 = f /\ k2 = k /\ (held => c2 <= c)
    BY <1>1, <2>1, FS_Subset
  <2>2. ASSUME Held(a, T)' <=> Held(a, T),
               NEW x, x \notin Live(a, T), Live(a, T)' = Live(a, T) \cup {x},
               NEW h \in Asking(a), Asking(a)' = Asking(a) \ {h},
               h \notin Late(a, T), Late(a, T)' = Late(a, T) \cup {h},
               Early(a, T)' = Early(a, T)
        PROVE  (held2 <=> held) /\ l2 = l + 1 /\ f2 = f + 1 /\ k2 = k /\ c2 = c - 1
    <3>1. l2 = l + 1 /\ f2 = f + 1
      BY <1>1, <2>2, FS_AddElement
    <3>2. c2 = c - 1
      BY <1>1, <2>2, FS_RemoveElement
    <3> QED
      BY <2>2, <3>1, <3>2
  <2>3. ASSUME Held(a, T)', Live(a, T)' = Live(a, T), Asking(a)' = Asking(a),
               Early(a, T)' = Early(a, T), NEW h \in Late(a, T), Late(a, T)' = Late(a, T) \ {h}
        PROVE  held2 /\ l2 = l /\ f2 = f - 1 /\ k2 = k /\ c2 = c
    BY <1>1, <2>3, FS_RemoveElement
  <2>4. ASSUME ~Held(a, T)', Live(a, T)' = Live(a, T), Asking(a)' = Asking(a),
               Late(a, T)' = Late(a, T), NEW h \in Early(a, T), Early(a, T)' = Early(a, T) \ {h}
        PROVE  ~held2 /\ l2 = l /\ f2 = f /\ k2 = k - 1 /\ c2 = c
    BY <1>1, <2>4, FS_RemoveElement
  <2> HIDE DEF l, c, f, k, l2, c2, f2, k2, held, held2
  <2> QED
    BY <2>1, <2>2, <2>3, <2>4 DEF Moves
<1>4. held \in BOOLEAN /\ held2 \in BOOLEAN
  BY DEF Held
<1>5. Room(v, held, l, c, f, k) <= v * (v + 1)
  BY DEF Potential
<1> HIDE DEF v, l, c, f, k, l2, c2, f2, k2, held, held2
<1>6. Room(v, held2, l2, c2, f2, k2) <= Room(v, held, l, c, f, k)
  BY <1>1, <1>2, <1>3, <1>4, RoomKept
<1>7. /\ Room(v, held, l, c, f, k) \in Int /\ Room(v, held2, l2, c2, f2, k2) \in Int
      /\ v * (v + 1) \in Int
  BY <1>1, <1>2 DEF Room
<1>8. Room(v, held2, l2, c2, f2, k2) <= v * (v + 1)
  BY <1>5, <1>6, <1>7
<1> QED
  BY <1>8 DEF Potential, v, l2, c2, f2, k2, held2

\* There is no more than there may be.
LEMMA PotentialBounds ==
  ASSUME Shape, NEW a \in Addrs, Listed(dos[a]), LastingNow(a), Potential(a, now)
  PROVE  2 * Cardinality(dos[a]) <= Cardinality(Viewers) * (Cardinality(Viewers) + 1)
<1> DEFINE v == Cardinality(Viewers)
           l == Cardinality(Live(a, now))
           c == Cardinality(Asking(a))
           f == Cardinality(Late(a, now))
           k == Cardinality(Early(a, now))
           s == k * (2 * v - k + 1)
<1>1. v \in Nat /\ l \in Nat /\ c \in Nat /\ f \in Nat /\ k \in Nat /\ c + f + k <= v
  BY ViewersCounted DEF Shape
<1>2. Live(a, now) = dos[a]
  BY DEF Live, LastingNow
<1>3. 2 * l + s + 2 * (IF Held(a, now) THEN c ELSE v - f - k) <= v * (v + 1)
  BY DEF Potential, Room
<1>4. s \in Nat
  <2>1. 2 * v - k + 1 \in Nat
    BY <1>1
  <2> HIDE DEF v, k
  <2> QED
    BY <1>1, <2>1
<1>5. v * (v + 1) \in Nat
  BY <1>1
<1> HIDE DEF v, l, c, f, k, s
<1>6. 2 * l <= v * (v + 1)
  <2> DEFINE y == v * (v + 1)
  <2>1. 2 * l + s + 2 * (IF Held(a, now) THEN c ELSE v - f - k) <= y /\ y \in Nat
    BY <1>3, <1>5
  <2> HIDE DEF y
  <2>2. ASSUME Held(a, now) PROVE 2 * l <= y
    BY <1>1, <1>4, <2>1, <2>2
  <2>3. ASSUME ~Held(a, now) PROVE 2 * l <= y
    BY <1>1, <1>4, <2>1, <2>3
  <2> QED
    BY <2>2, <2>3 DEF y
<1> QED
  BY <1>2, <1>6 DEF l, v

-----------------------------------------------------------------------------
\* All there is while nobody has banned by name.
Within ==
  /\ Shape
  /\ \A a \in Addrs : Listed(dos[a]) /\ LastingNow(a)
  /\ \A a \in Addrs : \A T \in now .. now + DosLength - 1 : Potential(a, T)

LEMMA WithinBounds == Within => DosBansBounded
<1> SUFFICES ASSUME Within, NEW a \in Addrs
             PROVE  2 * Cardinality(dos[a]) <= Cardinality(Viewers) * (Cardinality(Viewers) + 1)
  BY DEF DosBansBounded
<1>1. now \in now .. now + DosLength - 1
  BY BansAssumption DEF Within, Shape
<1> QED
  BY <1>1, PotentialBounds DEF Within

LEMMA WithinBoundsNext == Within' => DosBansBounded'
BY WithinBounds, PTL

\* The bound itself need not be shown again.
LEMMA BoundedFromPotential ==
  ASSUME Within', issued' \in Nat, OnlyDos'
  PROVE  Bounded'
BY WithinBoundsNext DEF Bounded, Within

\* A step that makes no ban: the history stays, and the sets move.
LEMMA BoundedKept ==
  ASSUME Inv, Inv', Bounded, now' = now, dos' = dos, issued' = issued,
         issued = 0 => OnlyDos',
         issued = 0 => \A a \in Addrs : \A T \in now .. now + DosLength - 1 : Moves(a, T)
  PROVE  Bounded'
<1>1. now \in Nat /\ DosLength \in Nat /\ Shape /\ Shape'
  BY BansAssumption DEF Inv, Shape
<1>2. \A a \in Addrs : Listed(dos[a]) /\ LastingNow(a)
  BY DEF Bounded
<1>3. ASSUME issued = 0, NEW a \in Addrs, NEW T \in now .. now + DosLength - 1
      PROVE  Potential(a, T)'
  <2>1. Potential(a, T) /\ Moves(a, T) /\ Listed(dos[a]) /\ Listed(dos'[a]) /\ T \in Nat
    BY <1>1, <1>3 DEF Bounded
  <2> QED
    BY <1>1, <2>1, PotentialKept
<1>4. \A a \in Addrs : (Listed(dos[a]) /\ LastingNow(a))'
  BY <1>2 DEF Listed, LastingNow, Same
<1>5. DosBansBounded' /\ issued' \in Nat
  BY DEF Bounded, DosBansBounded
<1> QED
  BY <1>1, <1>3, <1>4, <1>5 DEF Bounded

\* Nothing a page view or a ban looks at is changed.
LEMMA MovesNothing ==
  ASSUME UNCHANGED <<Ban, pc, who, seen, new, dos>>, NEW a, NEW T
  PROVE  Moves(a, T)
BY DEF Moves, Held, Live, Late, Early, Asking

\* A handler begins or ends a view; beginning one is asking if it finds no ban.
LEMMA MovesViewer ==
  ASSUME UNCHANGED <<Ban, dos, new>>, NEW h \in Handlers, Shape,
         pc[h] \notin {"send", "set"}, pc'[h] \notin {"send", "set"},
         \A g \in Handlers : g # h => pc'[g] = pc[g] /\ who'[g] = who[g] /\ seen'[g] = seen[g],
         NEW a, NEW T, Held(a, T) /\ pc'[h] = "count" => who'[h] # a \/ seen'[h]
  PROVE  Moves(a, T)
<1>1. Late(a, T)' = Late(a, T) /\ Early(a, T)' = Early(a, T)
  BY DEF Late, Early, Handlers
<1>2. Live(a, T)' = Live(a, T) /\ (Held(a, T)' <=> Held(a, T))
  BY DEF Live, Held
<1>3. Held(a, T) => Asking(a)' \subseteq Asking(a)
  BY DEF Asking, Handlers
<1> QED
  BY <1>1, <1>2, <1>3 DEF Moves

LEMMA ViewBounded ==
  ASSUME Inv, Inv', TypeOK, Bounded, NEW h \in Viewers, NEW b \in Addrs, View(h, b)
  PROVE  Bounded'
<1>1. /\ pc[h] = "idle" /\ pc' = [pc EXCEPT ![h] = "count"] /\ who' = [who EXCEPT ![h] = b]
      /\ seen' = [seen EXCEPT ![h] = Holds(Ban[b]) /\ Ban[b].dos]
      /\ UNCHANGED <<now, Ban, persistBan, tx, bans, new, issued, dos>>
  BY DEF View, Goto, thVars, dumpVars
<1>2. h \in Handlers /\ Shape
  BY DEF Handlers, Inv
<1>3. issued = 0 => OnlyDos'
  BY <1>1, <1>2 DEF Bounded, OnlyDos, DosOnly, Shape
<1>4. ASSUME issued = 0, NEW a \in Addrs, NEW T \in now .. now + DosLength - 1 PROVE Moves(a, T)
  <2>1. ASSUME Held(a, T), who'[h] = a PROVE seen'[h]
    <3>1. a = b
      BY <1>1, <1>2, <2>1 DEF Shape
    <3>2. Ban[b] \in BanOf /\ Ban[b].dos /\ Ban[b].end > T
      BY <1>2, <1>4, <2>1, <3>1 DEF Held, Shape, MaybeBan, Bounded, OnlyDos, DosOnly
    <3>3. Holds(Ban[b])
      BY <1>2, <2>1, <3>1, <3>2, BansAssumption DEF Holds, Held, Shape, BanOf
    <3>4. seen \in [Handlers -> BOOLEAN]
      BY DEF TypeOK
    <3> QED
      BY <1>1, <1>2, <3>2, <3>3, <3>4
  <2>2. /\ pc[h] \notin {"send", "set"} /\ pc'[h] \notin {"send", "set"}
        /\ \A g \in Handlers : g # h => pc'[g] = pc[g] /\ who'[g] = who[g] /\ seen'[g] = seen[g]
    BY <1>1, <1>2 DEF Shape
  <2> QED
    BY <1>1, <1>2, <2>1, <2>2, MovesViewer
<1> QED
  BY <1>1, <1>3, <1>4, BoundedKept

\* Counting a view, refusing it without a ban, and showing the page.
LEMMA ViewerBounded ==
  ASSUME Inv, Inv', TypeOK, Bounded, NEW h \in Viewers, Count(h) \/ DenyPage(h) \/ Show(h)
  PROVE  Bounded'
<1>1. /\ pc[h] \in {"count", "show"}
      /\ \/ pc' = [pc EXCEPT ![h] = "show"] /\ UNCHANGED <<who, seen>>
         \/ /\ pc' = [pc EXCEPT ![h] = "idle"] /\ who' = [who EXCEPT ![h] = None]
            /\ seen' = [seen EXCEPT ![h] = FALSE]
      /\ UNCHANGED <<now, Ban, persistBan, tx, bans, new, issued, dos>>
  BY DEF Count, DenyPage, Show, Goto, thVars, dumpVars, Accept, Refuse
<1>2. h \in Handlers /\ Shape
  BY DEF Handlers, Inv
<1>3. issued = 0 => OnlyDos'
  BY <1>1, <1>2 DEF Bounded, OnlyDos, DosOnly, Shape
<1>4. ASSUME NEW a, NEW T PROVE Moves(a, T)
  <2>1. /\ pc \in [Handlers -> {"idle", "count", "send", "set", "show"}]
        /\ who \in [Handlers -> Addrs \cup {None}] /\ seen \in [Handlers -> BOOLEAN]
    BY DEF TypeOK
  <2>2. pc[h] \notin {"send", "set"} /\ pc'[h] \notin {"send", "set", "count"}
    BY <1>1, <1>2, <2>1
  <2>3. \A g \in Handlers : g # h => pc'[g] = pc[g] /\ who'[g] = who[g]
    BY <1>1, <1>2, <2>1
  <2>4. \A g \in Handlers : g # h => seen'[g] = seen[g]
    BY <1>1, <1>2, <2>1
  <2> QED
    BY <1>1, <1>2, <2>2, <2>3, <2>4, MovesViewer
<1> QED
  BY <1>1, <1>3, <1>4, BoundedKept

\* A view beyond the threshold bans: one more lasts, one less is asking.
LEMMA BanForDosBounded ==
  ASSUME Inv, Inv', TypeOK, Bounded, NEW h \in Viewers, BanForDos(h)
  PROVE  Bounded'
<1> DEFINE e == now + DosLength
           b == [dos |-> TRUE, end |-> e]
           a0 == who[h]
<1>1. /\ pc[h] = "count" /\ ~seen[h] /\ pc' = [pc EXCEPT ![h] = "send"]
      /\ new' = [new EXCEPT ![h] = b]
      /\ dos' = IF issued = 0 THEN [dos EXCEPT ![a0] = OneMore(@, e)] ELSE dos
      /\ UNCHANGED <<now, Ban, persistBan, tx, bans, who, seen, issued>>
  BY DEF BanForDos, CreateDosBan, Goto, dumpVars, Refuse
<1>2. /\ h \in Handlers /\ Shape /\ Shape' /\ now \in Nat /\ DosLength \in Nat \ {0} /\ e \in Nat
      /\ a0 \in Addrs
  <2>1. h \in Handlers /\ Shape /\ Shape'
    BY DEF Handlers, Inv
  <2>2. now \in Nat /\ DosLength \in Nat \ {0}
    BY <2>1, BansAssumption DEF Shape
  <2>3. a0 \in Addrs
    BY <1>1, <2>1 DEF Shape
  <2> QED
    BY <2>1, <2>2, <2>3
<1>3. \A a \in Addrs : Listed(dos[a]) /\ LastingNow(a) /\ issued \in Nat
  BY DEF Bounded
<1>4. CASE issued # 0
  <2>1. dos' = dos
    BY <1>1, <1>4
  <2>2. issued = 0 => OnlyDos' /\ \A a \in Addrs : \A T \in now .. now + DosLength - 1 : Moves(a, T)
    BY <1>4
  <2> QED
    BY <1>1, <2>1, <2>2, BoundedKept
<1>5. CASE issued = 0
  <2>1. Listed(dos[a0]) /\ e \in Nat
    BY <1>2, <1>3
  <2>2. PICK x \in Nat \X Nat : x[1] = e /\ x \notin dos[a0] /\ OneMore(dos[a0], e) = dos[a0] \cup {x}
    BY <2>1, OneMoreIs
  <2>3. Listed(OneMore(dos[a0], e))
    BY <2>1, OneMoreIs
  <2>4. /\ dos'[a0] = dos[a0] \cup {x} /\ \A a \in Addrs : a # a0 => dos'[a] = dos[a]
        /\ Listed(dos'[a0])
    <3>1. dos \in [Addrs -> SUBSET (Nat \X Nat)]
      BY DEF TypeOK
    <3> QED
      BY <1>1, <1>2, <1>5, <2>2, <2>3, <3>1
  <2>5. \A a \in Addrs : Listed(dos'[a]) /\ LastingNow(a)'
    <3>1. \A a \in Addrs : Listed(dos'[a])
      BY <1>3, <2>4
    <3>2. \A a \in Addrs : \A d \in dos'[a] : now < d[1] /\ d[1] <= now + DosLength
      BY <1>2, <1>3, <2>2, <2>4 DEF LastingNow
    <3> QED
      BY <1>1, <3>1, <3>2 DEF LastingNow
  <2>6. new'[h] = b /\ b # None /\ b.dos /\ b.end = e /\ \A g \in Handlers : g # h => new'[g] = new[g]
    <3>1. b \in BanOf /\ b # None /\ b.dos /\ b.end = e
      <4>1. b \in BanOf /\ b.end = e
        BY <1>2 DEF BanOf
      <4>2. b.dos
        OBVIOUS
      <4>3. b # None
        BY <4>1, BansAssumption DEF BanOf
      <4> QED
        BY <4>1, <4>2, <4>3
    <3> HIDE DEF b
    <3>2. new \in [Handlers -> MaybeBan]
      BY <1>2 DEF Shape
    <3> QED
      BY <1>1, <1>2, <3>1, <3>2
  <2>7. pc'[h] = "send" /\ \A g \in Handlers : g # h => pc'[g] = pc[g]
    BY <1>1, <1>2 DEF Shape
  <2> HIDE DEF b
  <2>8. OnlyDos'
    <3>1. OnlyDos
      BY <1>5 DEF Bounded
    <3>2. DosOnly(b)
      BY <2>6, <1>2 DEF DosOnly
    <3>3. ASSUME NEW g \in Handlers, pc'[g] \in {"send", "set"} PROVE g \in Viewers /\ DosOnly(new'[g])
      BY <2>6, <2>7, <3>1, <3>2, <3>3 DEF OnlyDos
    <3> QED
      BY <1>1, <3>1, <3>3 DEF OnlyDos, DosOnly
  <2>9. ASSUME NEW a \in Addrs, NEW T \in now .. now + DosLength - 1 PROVE Moves(a, T)
    <3>1. T \in Nat /\ e > T
      BY <1>2
    <3>2. (Held(a, T)' <=> Held(a, T)) /\ Early(a, T)' = Early(a, T)
      <4>1. Held(a, T)' <=> Held(a, T)
        BY <1>1 DEF Held
      <4>2. h \notin Early(a, T) /\ ~(new'[h].end <= T)
        BY <1>1, <1>2, <2>6, <3>1 DEF Early
      <4>3. ASSUME NEW g \in Viewers PROVE g \in Early(a, T)' <=> g \in Early(a, T)
        <5>1. CASE g = h
          BY <4>2, <5>1 DEF Early
        <5>2. CASE g # h
          BY <1>1, <2>6, <2>7, <5>2 DEF Early, Handlers
        <5> QED
          BY <5>1, <5>2
      <4> QED
        BY <4>1, <4>3 DEF Early
    <3>3. CASE a # a0
      <4>1. Live(a, T)' = Live(a, T)
        BY <2>4, <3>3 DEF Live
      <4>2. ASSUME NEW g \in Viewers
            PROVE (g \in Late(a, T)' <=> g \in Late(a, T)) /\ (g \in Asking(a)' <=> g \in Asking(a))
        <5>1. CASE g = h
          BY <1>1, <3>3, <5>1 DEF Late, Asking
        <5>2. CASE g # h
          BY <1>1, <2>6, <2>7, <5>2 DEF Late, Asking, Handlers
        <5> QED
          BY <5>1, <5>2
      <4>3. Late(a, T)' = Late(a, T) /\ Asking(a)' = Asking(a)
        BY <4>2 DEF Late, Asking
      <4> QED
        BY <3>2, <4>1, <4>3 DEF Moves
    <3>4. CASE a = a0
      <4>1. x \notin Live(a, T) /\ Live(a, T)' = Live(a, T) \cup {x}
        BY <2>2, <2>4, <3>1, <3>4 DEF Live
      <4>2. h \in Asking(a) /\ h \notin Late(a, T) /\ h \in Late(a, T)' /\ h \notin Asking(a)'
        BY <1>1, <2>6, <2>7, <3>1, <3>4 DEF Asking, Late
      <4>3. ASSUME NEW g \in Viewers, g # h
            PROVE (g \in Late(a, T)' <=> g \in Late(a, T)) /\ (g \in Asking(a)' <=> g \in Asking(a))
        BY <1>1, <2>6, <2>7, <4>3 DEF Late, Asking, Handlers
      <4>4. Asking(a)' = Asking(a) \ {h} /\ Late(a, T)' = Late(a, T) \cup {h}
        BY <4>2, <4>3 DEF Late, Asking
      <4> QED
        BY <3>2, <4>1, <4>2, <4>4 DEF Moves
    <3> QED
      BY <3>3, <3>4
  <2>10. \A a \in Addrs : \A T \in now .. now + DosLength - 1 : Potential(a, T)'
    <3> SUFFICES ASSUME NEW a \in Addrs, NEW T \in now .. now + DosLength - 1 PROVE Potential(a, T)'
      OBVIOUS
    <3>1. Potential(a, T) /\ Listed(dos[a]) /\ Listed(dos'[a]) /\ T \in Nat /\ Moves(a, T)
      BY <1>2, <1>3, <1>5, <2>5, <2>9 DEF Bounded
    <3> QED
      BY <1>2, <3>1, PotentialKept
  <2> QED
    BY <1>1, <1>2, <1>5, <2>5, <2>8, <2>10, BoundedFromPotential DEF Within
<1> QED
  BY <1>4, <1>5

LEMMA SendBanBounded ==
  ASSUME Inv, Inv', TypeOK, Bounded, NEW h \in Handlers, SendBan(h)
  PROVE  Bounded'
<1> DEFINE r == [addr |-> who[h], ban |-> new[h]]
<1>1. /\ pc[h] = "send" /\ persistBan' = Append(persistBan, r) /\ pc' = [pc EXCEPT ![h] = "set"]
      /\ UNCHANGED <<now, Ban, tx, bans, who, seen, new, issued, dos>>
  BY DEF SendBan, Goto, thVars, dumpVars
<1>2. Shape /\ persistBan \in Seq(Row)
  BY DEF Inv, Shape
<1>3. pc'[h] = "set" /\ \A g \in Handlers : g # h => pc'[g] = pc[g]
  BY <1>1, <1>2 DEF Shape
<1>4. ASSUME issued = 0 PROVE OnlyDos'
  <2>1. OnlyDos
    BY <1>4 DEF Bounded
  <2>2. DosOnly(new[h])
    BY <1>1, <2>1 DEF OnlyDos
  <2>3. r \in Row /\ r.ban = new[h]
    BY <1>1, <1>2 DEF Shape, Row
  <2> HIDE DEF r
  <2>4. ASSUME NEW i \in 1 .. Len(persistBan') PROVE DosOnly(persistBan'[i].ban)
    <3>1. (i \in 1 .. Len(persistBan) /\ persistBan'[i] = persistBan[i]) \/ persistBan'[i] = r
      BY <1>1, <1>2, <2>3, <2>4
    <3> QED
      BY <2>1, <2>2, <2>3, <3>1 DEF OnlyDos
  <2>5. \A g \in Handlers : pc'[g] \in {"send", "set"} => g \in Viewers /\ DosOnly(new'[g])
    BY <1>1, <1>3, <2>1 DEF OnlyDos
  <2> QED
    BY <1>1, <2>1, <2>4, <2>5 DEF OnlyDos, DosOnly
<1>5. ASSUME NEW a, NEW T PROVE Moves(a, T)
  <2>1. \A g \in Handlers : /\ pc'[g] \in {"send", "set"} <=> pc[g] \in {"send", "set"}
                            /\ pc'[g] = "count" <=> pc[g] = "count"
    BY <1>1, <1>3
  <2>2. Late(a, T)' = Late(a, T) /\ Early(a, T)' = Early(a, T) /\ Asking(a)' = Asking(a)
    BY <1>1, <2>1 DEF Late, Early, Asking, Handlers
  <2>3. Live(a, T)' = Live(a, T) /\ (Held(a, T)' <=> Held(a, T))
    BY <1>1 DEF Live, Held
  <2> QED
    BY <2>2, <2>3 DEF Moves
<1> QED
  BY <1>1, <1>4, <1>5, BoundedKept

\* A ban is set: one that lasts keeps everybody out, another lets them in,
\* and there is one less who waits.
LEMMA SetBanBounded ==
  ASSUME Inv, Inv', TypeOK, Bounded, NEW h \in Handlers, SetBan(h)
  PROVE  Bounded'
<1> DEFINE a0 == who[h]
<1>1. /\ pc[h] = "set" /\ Ban' = [Ban EXCEPT ![a0] = new[h]]
      /\ new' = [new EXCEPT ![h] = None]
      /\ \/ h \in Viewers /\ pc' = [pc EXCEPT ![h] = "show"] /\ who' = who
         \/ h \notin Viewers
      /\ UNCHANGED <<now, persistBan, tx, bans, seen, issued, dos>>
  BY DEF SetBan, Goto, thVars, dumpVars
<1>2. Shape /\ a0 \in Addrs /\ new[h] \in BanOf
  BY <1>1 DEF Inv, Shape
<1>3. ASSUME issued = 0
      PROVE  /\ OnlyDos /\ h \in Viewers /\ who' = who /\ DosOnly(new[h])
             /\ pc'[h] = "show" /\ \A g \in Handlers : g # h => pc'[g] = pc[g] /\ new'[g] = new[g]
             /\ Ban'[a0] = new[h] /\ \A a \in Addrs : a # a0 => Ban'[a] = Ban[a]
  <2>1. OnlyDos
    BY <1>3 DEF Bounded
  <2>2. h \in Viewers /\ DosOnly(new[h])
    BY <1>1, <2>1 DEF OnlyDos
  <2> QED
    BY <1>1, <1>2, <2>1, <2>2 DEF Shape
<1>4. ASSUME issued = 0 PROVE OnlyDos'
  <2>1. \A a \in Addrs : DosOnly(Ban'[a])
    BY <1>3, <1>4 DEF OnlyDos
  <2>2. \A g \in Handlers : pc'[g] \in {"send", "set"} => g \in Viewers /\ DosOnly(new'[g])
    BY <1>3, <1>4 DEF OnlyDos
  <2> QED
    BY <1>1, <1>3, <1>4, <2>1, <2>2 DEF OnlyDos, DosOnly
<1>5. ASSUME issued = 0, NEW a \in Addrs, NEW T \in now .. now + DosLength - 1 PROVE Moves(a, T)
  <2>1. T \in Nat /\ new[h].end \in Nat /\ h \in Viewers /\ Viewers \subseteq Handlers
    BY <1>2, <1>3, <1>5, BansAssumption DEF BanOf, Shape, Handlers
  <2>2. Live(a, T)' = Live(a, T)
    BY <1>1 DEF Live
  <2>3. ASSUME NEW g \in Viewers, g # h
        PROVE  /\ g \in Late(a, T)' <=> g \in Late(a, T)
               /\ g \in Early(a, T)' <=> g \in Early(a, T)
               /\ g \in Asking(a)' <=> g \in Asking(a)
    <3>1. pc'[g] = pc[g] /\ new'[g] = new[g] /\ who' = who /\ seen' = seen
      BY <1>1, <1>3, <1>5, <2>1, <2>3
    <3> QED
      BY <3>1 DEF Late, Early, Asking
  <2>4. h \notin Late(a, T)' /\ h \notin Early(a, T)' /\ h \notin Asking(a)' /\ h \notin Asking(a)
    BY <1>1, <1>3, <1>5 DEF Late, Early, Asking
  <2>5. Asking(a)' = Asking(a) /\ Late(a, T)' = Late(a, T) \ {h} /\ Early(a, T)' = Early(a, T) \ {h}
    BY <2>3, <2>4 DEF Late, Early, Asking
  <2>6. CASE a # a0
    <3>1. h \notin Late(a, T) /\ h \notin Early(a, T)
      BY <2>6 DEF Late, Early
    <3>2. Held(a, T)' <=> Held(a, T)
      BY <1>3, <1>5, <2>6 DEF Held
    <3> QED
      BY <2>2, <2>5, <3>1, <3>2 DEF Moves
  <2>7. CASE a = a0 /\ new[h].end > T
    <3>1. h \in Late(a, T) /\ h \notin Early(a, T)
      BY <1>1, <2>1, <2>7 DEF Late, Early
    <3>2. Held(a, T)'
      BY <1>2, <1>3, <1>5, <2>7, BansAssumption DEF Held, BanOf
    <3> QED
      BY <2>2, <2>5, <3>1, <3>2 DEF Moves
  <2>8. CASE a = a0 /\ new[h].end <= T
    <3>1. h \in Early(a, T) /\ h \notin Late(a, T)
      BY <1>1, <2>1, <2>8 DEF Late, Early
    <3>2. ~Held(a, T)'
      BY <1>3, <1>5, <2>1, <2>8 DEF Held
    <3> QED
      BY <2>2, <2>5, <3>1, <3>2 DEF Moves
  <2> QED
    BY <2>1, <2>6, <2>7, <2>8
<1> QED
  BY <1>1, <1>4, <1>5, BoundedKept

\* A ban by name ends the count.
LEMMA CreateBanBounded ==
  ASSUME Inv, Inv', TypeOK, Bounded, NEW h \in Issuers, NEW b \in Addrs, CreateBan(h, b)
  PROVE  Bounded'
<1>1. now' = now /\ issued' = issued + 1 /\ dos' = [dos EXCEPT ![b] = {}]
  BY DEF CreateBan, thVars
<1>2. dos \in [Addrs -> SUBSET (Nat \X Nat)]
  BY DEF TypeOK
<1>3. dos'[b] = {} /\ \A a \in Addrs : a # b => dos'[a] = dos[a]
  BY <1>1, <1>2
<1>4. issued' \in Nat /\ issued' # 0
  BY <1>1 DEF Bounded
<1>5. \A a \in Addrs : Listed(dos'[a]) /\ LastingNow(a)'
  <2>1. \A a \in Addrs : Listed(dos[a]) /\ LastingNow(a)
    BY DEF Bounded
  <2> QED
    BY <1>1, <1>3, <2>1, NoneListed DEF LastingNow
<1>6. ASSUME NEW a \in Addrs
      PROVE  2 * Cardinality(dos'[a]) <= Cardinality(Viewers) * (Cardinality(Viewers) + 1)
  <2>1. CASE a = b
    <3>1. Cardinality(dos'[a]) = 0 /\ Cardinality(Viewers) \in Nat
      BY <1>3, <2>1, FS_EmptySet, FS_CardinalityType, BansAssumption
    <3>2. Cardinality(Viewers) * (Cardinality(Viewers) + 1) \in Nat
      BY <3>1
    <3> QED
      BY <3>1, <3>2
  <2>2. CASE a # b
    BY <1>3, <2>2 DEF Bounded, DosBansBounded
  <2> QED
    BY <2>1, <2>2
<1> QED
  BY <1>4, <1>5, <1>6 DEF Bounded, DosBansBounded, Listed, Same

LEMMA DumperBounded ==
  ASSUME Inv, Inv', TypeOK, Bounded, Dumper
  PROVE  Bounded'
<1>1. UNCHANGED <<now, Ban, pc, who, seen, new, issued, dos>>
  BY DEF Dumper, Wake, InsertBan, Commit, thVars
<1>2. ASSUME issued = 0 PROVE OnlyDos'
  <2>1. OnlyDos
    BY <1>2 DEF Bounded
  <2>2. Shape
    BY DEF Inv
  <2>3. /\ \A a \in Addrs : DosOnly(tx'[a]) /\ DosOnly(bans'[a])
        /\ \A i \in 1 .. Len(persistBan') : DosOnly(persistBan'[i].ban)
    <3>1. CASE Wake
      BY <2>1, <3>1 DEF Wake, OnlyDos
    <3>2. CASE InsertBan
      <4>1. /\ persistBan # <<>> /\ persistBan' = Tail(persistBan) /\ bans' = bans
            /\ tx' = [tx EXCEPT ![Head(persistBan).addr] = Head(persistBan).ban]
        BY <3>2 DEF InsertBan
      <4>2. /\ persistBan \in Seq(Row) /\ Len(persistBan) \in Nat /\ 1 \in 1 .. Len(persistBan)
            /\ Head(persistBan) = persistBan[1]
        BY <2>2, <4>1 DEF Shape
      <4>3. DosOnly(persistBan[1].ban)
        BY <2>1, <4>2 DEF OnlyDos
      <4>4. tx \in [Addrs -> MaybeBan]
        BY <2>2 DEF Shape
      <4>5. \A a \in Addrs : tx'[a] = persistBan[1].ban \/ tx'[a] = tx[a]
        BY <4>1, <4>2, <4>4
      <4>6. \A a \in Addrs : DosOnly(tx'[a])
        BY <2>1, <4>3, <4>5 DEF OnlyDos
      <4>7. \A i \in 1 .. Len(persistBan') : i + 1 \in 1 .. Len(persistBan) /\ persistBan'[i] = persistBan[i + 1]
        BY <4>1, <4>2
      <4>8. \A i \in 1 .. Len(persistBan') : DosOnly(persistBan'[i].ban)
        BY <2>1, <4>7 DEF OnlyDos
      <4> QED
        BY <2>1, <4>1, <4>6, <4>8 DEF OnlyDos
    <3>3. CASE Commit
      <4>1. bans' = Inserted /\ tx' = [a \in Addrs |-> None] /\ persistBan' = persistBan
        BY <3>3 DEF Commit
      <4>2. \A a \in Addrs : DosOnly(Inserted[a]) /\ DosOnly(None)
        BY <2>1 DEF OnlyDos, Inserted, DosOnly
      <4> QED
        BY <2>1, <4>1, <4>2 DEF OnlyDos
    <3> QED
      BY <3>1, <3>2, <3>3 DEF Dumper
  <2> QED
    BY <1>1, <2>1, <2>3 DEF OnlyDos, DosOnly
<1> QED
  BY <1>1, <1>2, MovesNothing, BoundedKept

\* Without bans to count there is room for one by each viewer, or for more
\* while some wait with one that will be over.
LEMMA EmptyWithin ==
  ASSUME Shape, NEW a \in Addrs, NEW T \in Nat, Live(a, T) = {}, Late(a, T) = {}, ~Held(a, T),
         Listed(dos[a])
  PROVE  Potential(a, T)
<1> DEFINE v == Cardinality(Viewers)
           c == Cardinality(Asking(a))
           k == Cardinality(Early(a, T))
<1>1. v \in Nat /\ c \in Nat /\ k \in Nat /\ k <= v
  <2>1. /\ v \in Nat /\ c \in Nat /\ k \in Nat /\ Cardinality(Late(a, T)) \in Nat
        /\ c + Cardinality(Late(a, T)) + k <= v
    BY ViewersCounted
  <2> HIDE DEF v, c, k
  <2> QED
    BY <2>1
<1>2. Cardinality(Live(a, T)) = 0 /\ Cardinality(Late(a, T)) = 0
  BY FS_EmptySet
<1> HIDE DEF v, c, k
<1>3. k \in 0 .. v
  BY <1>1
<1>4. Room(v, FALSE, 0, c, 0, k) <= v * (v + 1)
  BY <1>1, <1>3, RoomAtFirst
<1>5. Held(a, T) = FALSE
  BY DEF Held
<1> QED
  BY <1>2, <1>4, <1>5 DEF Potential, v, c, k

LEMMA EmptyWithinNext ==
  ASSUME NEW a \in Addrs, NEW T \in Nat
  PROVE  (Shape /\ Live(a, T) = {} /\ Late(a, T) = {} /\ ~Held(a, T) /\ Listed(dos[a])
            => Potential(a, T))'
<1>1. Shape /\ Live(a, T) = {} /\ Late(a, T) = {} /\ ~Held(a, T) /\ Listed(dos[a])
            => Potential(a, T)
  BY EmptyWithin
<1> QED
  BY <1>1, PTL

LEMMA InitBounded == BInit => Bounded
<1> SUFFICES ASSUME BInit PROVE Bounded
  OBVIOUS
<1>1. Shape /\ now \in Nat
  BY InitInv DEF Inv, Shape
<1>2. OnlyDos
  BY <1>1 DEF BInit, OnlyDos, DosOnly
<1>3. \A a \in Addrs : dos[a] = {} /\ Listed(dos[a]) /\ LastingNow(a)
  BY NoneListed DEF BInit, LastingNow
<1>4. ASSUME NEW a \in Addrs, NEW T \in now .. now + DosLength - 1 PROVE Potential(a, T)
  <2>1. T \in Nat
    BY <1>1
  <2>2. Live(a, T) = {} /\ Late(a, T) = {} /\ ~Held(a, T)
    BY <1>3 DEF Live, Late, Held, BInit, Handlers
  <2> QED
    BY <1>1, <1>3, <2>1, <2>2, EmptyWithin
<1>5. DosBansBounded
  BY <1>1, <1>3, <1>4, WithinBounds DEF Within
<1> QED
  BY <1>2, <1>3, <1>4, <1>5 DEF Bounded, BInit

LEMMA ReadBansBounded ==
  ASSUME Inv, Inv', TypeOK, Bounded, ReadBans
  PROVE  Bounded'
<1>1. /\ now' = now /\ issued' = issued /\ Ban' = bans /\ bans' = bans /\ persistBan' = <<>>
      /\ tx' = [a \in Addrs |-> None] /\ pc' = [h \in Handlers |-> "idle"]
      /\ dos' = [a \in Addrs |-> {}]
  BY DEF ReadBans, NoHandlers, Forget
<1>2. \A a \in Addrs : dos'[a] = {} /\ Listed(dos'[a]) /\ LastingNow(a)'
  BY <1>1, NoneListed DEF LastingNow
<1>3. CASE issued # 0
  <2>1. ASSUME NEW a \in Addrs
        PROVE  2 * Cardinality(dos'[a]) <= Cardinality(Viewers) * (Cardinality(Viewers) + 1)
    <3>1. Cardinality(dos'[a]) = 0 /\ Cardinality(Viewers) \in Nat
      BY <1>2, FS_EmptySet, FS_CardinalityType, BansAssumption
    <3>2. Cardinality(Viewers) * (Cardinality(Viewers) + 1) \in Nat
      BY <3>1
    <3> QED
      BY <3>1, <3>2
  <2>2. issued' \in Nat /\ issued' # 0
    BY <1>1, <1>3 DEF Bounded
  <2> QED
    BY <1>2, <2>1, <2>2 DEF Bounded, DosBansBounded, Listed, Same
<1>4. CASE issued = 0
  <2>1. OnlyDos'
    <3>1. OnlyDos
      BY <1>4 DEF Bounded
    <3>2. \A b : DosOnly(b)' <=> DosOnly(b)
      BY <1>1 DEF DosOnly
    <3> QED
      BY <1>1, <3>1, <3>2 DEF OnlyDos, DosOnly
  <2>2. Shape' /\ now' \in Nat
    BY DEF Inv, Shape
  <2>3. ASSUME NEW a \in Addrs, NEW T \in now' .. now' + DosLength - 1 PROVE Potential(a, T)'
    <3>1. T \in Nat
      BY <2>2
    <3>2. Live(a, T)' = {} /\ Late(a, T)' = {}
      BY <1>1, <1>2 DEF Live, Late, Handlers
    <3>3. CASE ~Held(a, T)'
      BY <1>2, <2>2, <3>1, <3>2, <3>3, EmptyWithinNext DEF Listed, Same
    <3>4. CASE Held(a, T)'
      <4>1. Asking(a)' = {} /\ Early(a, T)' = {}
        BY <1>1 DEF Asking, Early, Handlers
      <4>2. Cardinality({}) = 0 /\ Cardinality(Viewers) \in Nat
        BY FS_EmptySet, FS_CardinalityType, BansAssumption
      <4>3. 0 <= Cardinality(Viewers) * (Cardinality(Viewers) + 1)
        <5>1. Cardinality(Viewers) * (Cardinality(Viewers) + 1) \in Nat
          BY <4>2
        <5> QED
          BY <5>1
      <4>4. Room(Cardinality(Viewers), Held(a, T)', 0, 0, 0, 0) = 0
        BY <3>4, <4>2 DEF Room
      <4> QED
        BY <3>2, <4>1, <4>2, <4>3, <4>4 DEF Potential
    <3> QED
      BY <3>3, <3>4
  <2> QED
    BY <1>1, <1>2, <1>4, <2>1, <2>2, <2>3, BoundedFromPotential DEF Within, Listed, Same
<1> QED
  BY <1>3, <1>4

\* As time passes bans are over; the new time to look beyond has none.
LEMMA LaterBounded ==
  ASSUME Inv, Inv', TypeOK, Bounded, Later
  PROVE  Bounded'
<1>1. /\ now' = now + 1 /\ dos' = [a \in Addrs |-> {b \in dos[a] : now' < b[1]}]
      /\ UNCHANGED <<Ban, persistBan, tx, bans, pc, who, seen, new, issued>>
  BY DEF Later, Tick, dumpVars
<1>2. now \in Nat /\ DosLength \in Nat \ {0} /\ Shape /\ Shape'
  BY BansAssumption DEF Inv, Shape
<1>3. \A a \in Addrs : dos'[a] = {b \in dos[a] : now + 1 < b[1]} /\ dos'[a] \subseteq dos[a]
  BY <1>1
<1>4. \A a \in Addrs : Listed(dos[a]) /\ LastingNow(a)
  BY DEF Bounded
<1>5. \A a \in Addrs : Listed(dos'[a])
  <2>1. now + 1 \in Nat
    BY <1>2
  <2> QED
    BY <1>3, <1>4, <2>1, LaterOnes
<1>6. \A a \in Addrs : LastingNow(a)'
  <2>1. \A a \in Addrs : \A b \in dos'[a] : b[1] \in Nat /\ now + 1 < b[1] /\ b[1] <= now + DosLength
    BY <1>3, <1>4 DEF LastingNow, Listed
  <2> QED
    BY <1>1, <1>2, <2>1 DEF LastingNow
<1>7. CASE issued # 0
  <2>1. ASSUME NEW a \in Addrs
        PROVE  2 * Cardinality(dos'[a]) <= Cardinality(Viewers) * (Cardinality(Viewers) + 1)
    <3>1. IsFiniteSet(dos[a]) /\ 2 * Cardinality(dos[a]) <= Cardinality(Viewers) * (Cardinality(Viewers) + 1)
      BY <1>4 DEF Bounded, DosBansBounded, Listed
    <3>2. IsFiniteSet(dos'[a]) /\ Cardinality(dos'[a]) <= Cardinality(dos[a])
      BY <1>3, <3>1, FS_Subset
    <3>3. /\ Cardinality(dos'[a]) \in Nat /\ Cardinality(dos[a]) \in Nat
          /\ Cardinality(Viewers) \in Nat
      BY <3>1, <3>2, FS_CardinalityType, BansAssumption
    <3>4. Cardinality(Viewers) * (Cardinality(Viewers) + 1) \in Int
      BY <3>3
    <3> QED
      BY <3>1, <3>2, <3>3, <3>4
  <2>2. issued' \in Nat /\ issued' # 0
    BY <1>1, <1>7 DEF Bounded
  <2> QED
    BY <1>5, <1>6, <2>1, <2>2 DEF Bounded, DosBansBounded, Listed, Same
<1>8. CASE issued = 0
  <2>1. OnlyDos
    BY <1>8 DEF Bounded
  <2>2. \A b \in MaybeBan : DosOnly(b) => DosOnly(b)'
    BY <1>1, <1>2, BansAssumption DEF DosOnly, MaybeBan, BanOf
  <2>3. OnlyDos'
    <3>1. \A a \in Addrs : DosOnly(Ban[a])' /\ DosOnly(tx[a])' /\ DosOnly(bans[a])'
      BY <1>1, <1>2, <2>1, <2>2 DEF OnlyDos, Shape
    <3>2. \A i \in 1 .. Len(persistBan) : DosOnly(persistBan[i].ban)'
      <4>1. \A i \in 1 .. Len(persistBan) : persistBan[i].ban \in MaybeBan
        <5>1. persistBan \in Seq(Row)
          BY <1>2 DEF Shape
        <5>2. \A i \in 1 .. Len(persistBan) : persistBan[i] \in Row
          BY <5>1
        <5> QED
          BY <5>2 DEF Row, MaybeBan
      <4> QED
        BY <1>1, <2>1, <2>2, <4>1 DEF OnlyDos, DosOnly
    <3>3. \A h \in Handlers : pc[h] \in {"send", "set"} => h \in Viewers /\ DosOnly(new[h])'
      BY <1>1, <1>2, <2>1, <2>2 DEF OnlyDos, Shape, DosOnly
    <3> QED
      BY <1>1, <3>1, <3>2, <3>3 DEF OnlyDos, DosOnly
  <2>4. ASSUME NEW a \in Addrs, NEW T \in now' .. now' + DosLength - 1 PROVE Potential(a, T)'
    <3>1. T \in Nat /\ now + 1 <= T /\ T <= now + DosLength
      BY <1>1, <1>2
    <3>2. CASE T # now + DosLength
      <4>1. Live(a, T)' = Live(a, T)
        BY <1>2, <1>3, <1>4, <3>1 DEF Live, Listed
      <4>2. Moves(a, T)
        BY <1>1, <4>1 DEF Moves, Held, Late, Early, Asking
      <4>3. T \in now .. now + DosLength - 1
        BY <1>2, <3>1, <3>2
      <4>4. Potential(a, T)
        BY <1>8, <4>3 DEF Bounded
      <4> QED
        BY <1>2, <1>4, <1>5, <3>1, <4>2, <4>4, PotentialKept
    <3>3. CASE T = now + DosLength
      <4>1. Live(a, T)' = {}
        BY <1>2, <1>3, <1>4, <3>1, <3>3 DEF Live, Listed, LastingNow
      <4>2. ~Held(a, T)'
        BY <1>1, <1>2, <2>1, <3>1, <3>3, BansAssumption DEF Held, OnlyDos, DosOnly, Shape, MaybeBan, BanOf
      <4>3. Late(a, T)' = {}
        <5>1. \A h \in Viewers : pc[h] \in {"send", "set"} => new[h] \in BanOf /\ new[h].end <= T
          BY <1>2, <2>1, <3>3, BansAssumption DEF OnlyDos, DosOnly, Shape, BanOf, Handlers
        <5>2. \A h \in Viewers : pc[h] \in {"send", "set"} => ~(new[h].end > T)
          BY <3>1, <5>1 DEF BanOf
        <5> QED
          BY <1>1, <5>2 DEF Late
      <4> QED
        BY <1>2, <1>5, <3>1, <4>1, <4>2, <4>3, EmptyWithinNext DEF Listed, Same
    <3> QED
      BY <3>2, <3>3
  <2> QED
    BY <1>1, <1>2, <1>5, <1>6, <1>8, <2>3, <2>4, BoundedFromPotential DEF Within, Listed, Same
<1> QED
  BY <1>7, <1>8

-----------------------------------------------------------------------------
(* The types, which hold with what Inv and Bounded say of the rest         *)

LEMMA TypeInit == BInit => TypeOK
<1> SUFFICES ASSUME BInit PROVE TypeOK
  OBVIOUS
<1>1. now \in 0 .. MaxTime /\ log \in [Keys -> Seq(Nat)] /\ answer \in [Keys -> BOOLEAN]
  BY BansAssumption DEF BInit, Init
<1>2. /\ Ban \in [Addrs -> MaybeBan] /\ bans \in [Addrs -> MaybeBan]
      /\ tx \in [Addrs -> MaybeBan] /\ new \in [Handlers -> MaybeBan]
      /\ who \in [Handlers -> Addrs \cup {None}]
  BY DEF BInit, MaybeBan
<1>3. persistBan \in Seq(Row) /\ Len(persistBan) <= BanQueueSize
  <2>1. persistBan = <<>> /\ BanQueueSize \in Nat
    BY BansAssumption DEF BInit
  <2> QED
    BY <2>1
<1>4. issued \in 0 .. MaxBans /\ restarts \in 0 .. MaxRestarts
  BY BansAssumption DEF BInit
<1> QED
  BY <1>1, <1>2, <1>3, <1>4 DEF BInit, TypeOK

\* The part a step of the memory, of the clock and of the threshold changes.
LEMMA ThresholdTyped ==
  ASSUME TypeOK, NEW k \in Keys, Accept(k) \/ Refuse(k)
  PROVE  now' \in 0 .. MaxTime /\ log' \in [Keys -> Seq(Nat)] /\ answer' \in [Keys -> BOOLEAN]
<1>1. now \in Nat /\ log \in [Keys -> Seq(Nat)] /\ answer \in [Keys -> BOOLEAN] /\ now' = now
  BY BansAssumption DEF TypeOK, Accept, Refuse
<1>2. CASE Accept(k)
  <2>1. Append(log[k], now) \in Seq(Nat)
    BY <1>1
  <2> QED
    BY <1>1, <1>2, <2>1 DEF Accept, TypeOK
<1>3. CASE Refuse(k)
  BY <1>1, <1>3 DEF Refuse, TypeOK
<1> QED
  BY <1>2, <1>3

LEMMA ViewerTyped ==
  ASSUME Inv, Inv', TypeOK, Bounded, NEW h \in Viewers,
         Viewing(h) \/ \E a \in Addrs : View(h, a)
  PROVE  TypeOK'
<1> USE DEF Handlers, Goto
<1>1. /\ h \in Handlers /\ seen \in [Handlers -> BOOLEAN]
      /\ pc[h] # "idle" => <<who[h], PageRequest>> \in Keys
  BY BansAssumption DEF TypeOK, Inv, Shape, Keys
<1>2. /\ Ban' \in [Addrs -> MaybeBan] /\ tx' \in [Addrs -> MaybeBan] /\ bans' \in [Addrs -> MaybeBan]
      /\ persistBan' \in Seq(Row) /\ pc' \in [Handlers -> {"idle", "count", "send", "set", "show"}]
      /\ who' \in [Handlers -> Addrs \cup {None}] /\ new' \in [Handlers -> MaybeBan]
  BY DEF Inv, Shape
<1>3. /\ now' \in 0 .. MaxTime /\ log' \in [Keys -> Seq(Nat)] /\ answer' \in [Keys -> BOOLEAN]
  <2>1. CASE Count(h) \/ DenyPage(h) \/ BanForDos(h)
    BY <1>1, <2>1, ThresholdTyped DEF Count, DenyPage, BanForDos
  <2>2. CASE Show(h) \/ \E a \in Addrs : View(h, a)
    BY <2>2 DEF Show, View, thVars, TypeOK
  <2> QED
    BY <2>1, <2>2 DEF Viewing
<1>4. seen' \in [Handlers -> BOOLEAN]
  <2>1. CASE \E a \in Addrs : View(h, a)
    <3>1. PICK a \in Addrs : seen' = [seen EXCEPT ![h] = Holds(Ban[a]) /\ Ban[a].dos]
      BY <2>1 DEF View
    <3>2. (Holds(Ban[a]) /\ Ban[a].dos) \in BOOLEAN
      OBVIOUS
    <3> QED
      BY <1>1, <3>1, <3>2
  <2>2. CASE Viewing(h)
    BY <1>1, <2>2 DEF Viewing, Count, DenyPage, BanForDos, CreateDosBan, Show
  <2> QED
    BY <2>1, <2>2
<1>5. dos' \in [Addrs -> SUBSET (Nat \X Nat)]
  <2>1. dos \in [Addrs -> SUBSET (Nat \X Nat)] /\ now \in Nat
    BY BansAssumption DEF TypeOK
  <2>2. CASE BanForDos(h)
    <3>1. dos' = dos \/ dos' = [dos EXCEPT ![who[h]] = OneMore(@, now + DosLength)]
      BY <2>2 DEF BanForDos, CreateDosBan
    <3>2. who[h] \in Addrs
      BY <2>2 DEF BanForDos, Inv, Shape
    <3>3. OneMore(dos[who[h]], now + DosLength) \in SUBSET (Nat \X Nat)
      <4>1. now + DosLength \in Nat
        BY <2>1, BansAssumption
      <4>2. Listed(dos[who[h]])
        BY <3>2 DEF Bounded
      <4> QED
        BY <4>1, <4>2, OneMoreIs DEF Listed
    <3> QED
      BY <2>1, <3>1, <3>2, <3>3
  <2>3. CASE ~BanForDos(h)
    BY <2>1, <2>3 DEF Viewing, Count, DenyPage, Show, View
  <2> QED
    BY <2>2, <2>3
<1>6. /\ Len(persistBan') <= BanQueueSize /\ phase' \in {"wait", "dump"}
      /\ issued' \in 0 .. MaxBans /\ restarts' \in 0 .. MaxRestarts /\ crossed' \subseteq Addrs
  <2>1. UNCHANGED <<persistBan, phase, issued, restarts, crossed>>
    BY DEF Viewing, Count, DenyPage, BanForDos, Show, View, dumpVars
  <2> QED
    BY <2>1 DEF TypeOK
<1> QED
  BY <1>2, <1>3, <1>4, <1>5, <1>6 DEF TypeOK

LEMMA StepTyped ==
  ASSUME Inv, Inv', TypeOK, Bounded, [BNext]_bvars
  PROVE  TypeOK'
<1> USE DEF Goto
<1>1. CASE UNCHANGED bvars
  BY <1>1 DEF bvars, thVars, banVars, dumpVars, TypeOK
<1>2. CASE \E h \in Viewers : Viewing(h) \/ \E a \in Addrs : View(h, a)
  BY <1>2, ViewerTyped
<1>3. /\ Ban' \in [Addrs -> MaybeBan] /\ tx' \in [Addrs -> MaybeBan] /\ bans' \in [Addrs -> MaybeBan]
      /\ persistBan' \in Seq(Row) /\ pc' \in [Handlers -> {"idle", "count", "send", "set", "show"}]
      /\ who' \in [Handlers -> Addrs \cup {None}] /\ new' \in [Handlers -> MaybeBan]
  BY DEF Inv, Shape
<1>4. CASE \E h \in Issuers, a \in Addrs : CreateBan(h, a)
  <2>1. PICK h \in Issuers, a \in Addrs : CreateBan(h, a)
    BY <1>4
  <2>2. /\ issued < MaxBans /\ issued' = issued + 1 /\ dos' = [dos EXCEPT ![a] = {}]
        /\ UNCHANGED <<thVars, persistBan, dumpVars, seen, restarts, crossed>>
    BY <2>1 DEF CreateBan
  <2>3. issued' \in 0 .. MaxBans /\ dos' \in [Addrs -> SUBSET (Nat \X Nat)]
    BY <2>2, BansAssumption DEF TypeOK
  <2> QED
    BY <1>3, <2>2, <2>3 DEF TypeOK, thVars, dumpVars
<1>5. CASE \E h \in Handlers : SendBan(h)
  <2>1. PICK h \in Handlers : SendBan(h)
    BY <1>5
  <2>2. /\ Len(persistBan) < BanQueueSize
        /\ persistBan' = Append(persistBan, [addr |-> who[h], ban |-> new[h]])
        /\ crossed' = Overlaps(h) /\ who[h] \in Addrs
        /\ UNCHANGED <<thVars, phase, seen, issued, restarts, dos>>
    BY <2>1 DEF SendBan, dumpVars, Inv, Shape
  <2>3. Len(persistBan') <= BanQueueSize
    BY <2>2, BansAssumption DEF TypeOK
  <2>4. crossed' \subseteq Addrs
    BY <2>2 DEF Overlaps, TypeOK
  <2> QED
    BY <1>3, <2>2, <2>3, <2>4 DEF TypeOK, thVars
<1>6. CASE \E h \in Handlers : SetBan(h)
  <2>1. UNCHANGED <<thVars, persistBan, phase, seen, issued, restarts, crossed, dos>>
    BY <1>6 DEF SetBan, dumpVars
  <2> QED
    BY <1>3, <2>1 DEF TypeOK, thVars
<1>7. CASE Dumper
  <2>1. UNCHANGED <<thVars, seen, issued, restarts, crossed, dos>> /\ phase' \in {"wait", "dump"}
    BY <1>7 DEF Dumper, Wake, InsertBan, Commit, TypeOK
  <2>2. Len(persistBan') <= BanQueueSize
    <3>1. CASE InsertBan
      <4>1. persistBan # <<>> /\ persistBan' = Tail(persistBan)
        BY <3>1 DEF InsertBan
      <4> QED
        BY <4>1, BansAssumption DEF TypeOK
    <3>2. CASE Wake \/ Commit
      BY <3>2 DEF Wake, Commit, TypeOK
    <3> QED
      BY <1>7, <3>1, <3>2 DEF Dumper
  <2> QED
    BY <1>3, <2>1, <2>2 DEF TypeOK, thVars
<1>8. CASE ReadBans
  <2>1. /\ restarts < MaxRestarts /\ restarts' = restarts + 1 /\ persistBan' = <<>> /\ phase' = "wait"
        /\ log' = [k \in Keys |-> <<>>] /\ answer' = [k \in Keys |-> TRUE]
        /\ seen' = [h \in Handlers |-> FALSE] /\ crossed' = {} /\ dos' = [a \in Addrs |-> {}]
        /\ UNCHANGED <<now, issued>>
    BY <1>8 DEF ReadBans, NoHandlers, Forget
  <2>2. restarts' \in 0 .. MaxRestarts /\ Len(persistBan') <= BanQueueSize
    BY <2>1, BansAssumption DEF TypeOK
  <2> QED
    BY <1>3, <2>1, <2>2 DEF TypeOK
<1>9. CASE Later
  <2>1. /\ now < MaxTime /\ now' = now + 1 /\ dos' = [a \in Addrs |-> {b \in dos[a] : now' < b[1]}]
        /\ UNCHANGED <<log, answer, persistBan, phase, seen, issued, restarts, crossed>>
    BY <1>9 DEF Later, Tick, dumpVars
  <2>2. now' \in 0 .. MaxTime /\ dos' \in [Addrs -> SUBSET (Nat \X Nat)]
    BY <2>1, BansAssumption DEF TypeOK
  <2> QED
    BY <1>3, <2>1, <2>2 DEF TypeOK
<1> QED
  BY <1>1, <1>2, <1>4, <1>5, <1>6, <1>7, <1>8, <1>9 DEF BNext, Issuing

LEMMA StepBounded ==
  ASSUME Inv, Inv', TypeOK, Bounded, [BNext]_bvars
  PROVE  Bounded'
<1>1. CASE UNCHANGED bvars
  <2>1. UNCHANGED <<now, Ban, persistBan, tx, bans, pc, who, seen, new, issued, dos>>
    BY <1>1 DEF bvars, thVars, banVars, dumpVars
  <2>2. issued = 0 => OnlyDos'
    BY <2>1 DEF Bounded, OnlyDos, DosOnly
  <2> QED
    BY <2>1, <2>2, MovesNothing, BoundedKept
<1>2. CASE \E h \in Viewers, a \in Addrs : View(h, a)
  BY <1>2, ViewBounded
<1>3. CASE \E h \in Issuers, a \in Addrs : CreateBan(h, a)
  BY <1>3, CreateBanBounded
<1>4. CASE \E h \in Viewers : Viewing(h)
  BY <1>4, ViewerBounded, BanForDosBounded DEF Viewing
<1>5. CASE \E h \in Handlers : Issuing(h)
  BY <1>5, SendBanBounded, SetBanBounded DEF Issuing
<1>6. CASE Dumper \/ ReadBans \/ Later
  BY <1>6, DumperBounded, ReadBansBounded, LaterBounded
<1> QED
  BY <1>1, <1>2, <1>3, <1>4, <1>5, <1>6 DEF BNext

IndInv == TypeOK /\ Inv /\ Bounded

LEMMA IndInvInit == BInit => IndInv
BY TypeInit, InitInv, InitBounded DEF IndInv

LEMMA IndInvStep == IndInv /\ [BNext]_bvars => IndInv'
BY StepInv, StepTyped, StepBounded DEF IndInv

(* Every variable has its type: the queue of bans is never longer than     *)
(* settings.Database.BanQueueSize.                                         *)
THEOREM BansTypeCorrect == BSpec => []TypeOK
<1>1. IndInv => TypeOK
  BY DEF IndInv
<1> QED
  BY IndInvInit, IndInvStep, <1>1, PTL DEF BSpec

(* n views at once leave at most 1 + 2 + ... + n bans for Dos that last,   *)
(* however often the visitor asks, and whatever waits in IssueBan.         *)
THEOREM DosBansStayBounded == BSpec => []DosBansBounded
<1>1. IndInv => DosBansBounded
  BY DEF IndInv, Bounded
<1> QED
  BY IndInvInit, IndInvStep, <1>1, PTL DEF BSpec
=============================================================================
