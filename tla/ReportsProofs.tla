----------------------------- MODULE ReportsProofs -----------------------------
(***************************************************************************)
(* Reports are counted once, enough of them hide a post, and a moderation  *)
(* does all it was asked for, for any posts, reporters, staff, limits and  *)
(* number of restarts.                                                     *)
(*                                                                         *)
(* A moderation is many closures, between which others run.  What holds    *)
(* it together is that the ids on its form keep their posts until the next *)
(* start, posts stay hidden, and the ids it has not come to (todo) are all *)
(* that is missing (Moderating).                                           *)
(***************************************************************************)
EXTENDS Reports, FiniteSetTheorems, TLAPS

\* The posts that form of s stands for.
Handled(s) == {byGid[g] : g \in form[s] \ todo[s]}

Meant(s) == form[s] \subseteq DOMAIN byGid /\ shown[s] = {byGid[g] : g \in form[s]}

Done(s, p) == want[s].delete /\ s \in CanDelete => p \in Hidden \/ BlockFails(s, p)

\* Nothing was done yet.
Unstarted(s) == affectedUsers[s] = {} /\ banned[s] = {} /\ todo[s] = {}

Moderating(s) ==
  /\ pc[s] \in {"idle", "form"} => Unstarted(s)
  /\ pc[s] = "idle" => shown[s] = {} /\ form[s] = {}
  /\ pc[s] = "posts" => banned[s] = {}
  /\ pc[s] \in {"bans", "done"} => todo[s] = {}
  /\ pc[s] = "bans" => want[s].ban /\ s \in CanBan
  /\ pc[s] = "done" =>
       banned[s] = IF want[s].ban /\ s \in CanBan THEN affectedUsers[s] ELSE {}
  /\ shown[s] # {} =>
       /\ Meant(s)
       /\ pc[s] # "form" =>
            /\ affectedUsers[s] = {Author[p] : p \in Handled(s)}
            /\ \A p \in Handled(s) : Done(s, p)

Moderations == \A s \in Staff : Moderating(s)

Inv == TypeOK /\ ReportsCounted /\ AutoHidden /\ Moderations

-----------------------------------------------------------------------------
LEMMA Appended ==
  ASSUME NEW S, NEW s \in Seq(S), NEW x \in S
  PROVE  /\ Append(s, x) \in Seq(S) /\ Len(Append(s, x)) = Len(s) + 1
         /\ \A k \in 1 .. Len(s) : Append(s, x)[k] = s[k]
         /\ Append(s, x)[Len(s) + 1] = x
         /\ DOMAIN s = 1 .. Len(s) /\ DOMAIN Append(s, x) = 1 .. Len(s) + 1
         /\ \A k \in 1 .. Len(s) + 1 : k \in 1 .. Len(s) \/ k = Len(s) + 1
  OBVIOUS

\* How often x is in s.
Times(s, x) == Cardinality({k \in DOMAIN s : s[k] = x})

LEMMA TimesAppended ==
  ASSUME NEW S, NEW s \in Seq(S), NEW y \in S, NEW x
  PROVE  Times(Append(s, y), x) = IF y = x THEN Times(s, x) + 1 ELSE Times(s, x)
<1> DEFINE n == Len(s)
           a == Append(s, y)
           old == {k \in 1 .. n : s[k] = x}
           new == {k \in 1 .. n + 1 : a[k] = x}
<1>1. /\ n \in Nat /\ a[n + 1] = y /\ (\A k \in 1 .. n : a[k] = s[k])
      /\ DOMAIN s = 1 .. n /\ DOMAIN a = 1 .. n + 1
      /\ \A k \in 1 .. n + 1 : k \in 1 .. n \/ k = n + 1
      /\ \A k \in 1 .. n : k \in 1 .. n + 1
      /\ n + 1 \in 1 .. n + 1 /\ n + 1 \notin 1 .. n
  BY Appended
<1>2. IsFiniteSet(old)
  <2>1. old \in SUBSET (1 .. n) /\ 1 \in Int /\ n \in Int
    BY <1>1
  <2>2. IsFiniteSet(1 .. n)
    BY <2>1, FS_Interval
  <2> HIDE DEF old, n
  <2> QED
    BY <2>1, <2>2, FS_Subset
<1> HIDE DEF a, n
<1>3. CASE y = x
  <2>1. new = old \cup {n + 1} /\ n + 1 \notin old
    BY <1>1, <1>3
  <2>2. Cardinality(new) = Cardinality(old) + 1
    BY <1>2, <2>1, FS_AddElement
  <2> QED
    BY <1>1, <1>3, <2>2 DEF Times, a
<1>4. CASE y # x
  <2>1. new = old
    BY <1>1, <1>4
  <2> QED
    BY <1>1, <1>4, <2>1 DEF Times, a
<1> QED
  BY <1>3, <1>4

LEMMA InjectiveAppended ==
  ASSUME NEW S, NEW s \in Seq(S), IsInjective(s), NEW x \in S, x \notin ToSet(s)
  PROVE  IsInjective(Append(s, x)) /\ ToSet(Append(s, x)) = ToSet(s) \cup {x}
<1> DEFINE n == Len(s)
           a == Append(s, x)
<1>1. /\ n \in Nat /\ a[n + 1] = x /\ \A k \in 1 .. n : a[k] = s[k]
      /\ DOMAIN s = 1 .. n /\ DOMAIN a = 1 .. n + 1
      /\ \A k \in 1 .. n + 1 : k \in 1 .. n \/ k = n + 1
      /\ \A k \in 1 .. n : k \in 1 .. n + 1
      /\ n + 1 \in 1 .. n + 1
  BY Appended
<1>2. \A k \in 1 .. n : s[k] # x
  BY <1>1 DEF ToSet
<1>3. \A k, m \in 1 .. n : s[k] = s[m] => k = m
  BY <1>1 DEF IsInjective
<1> HIDE DEF a, n
<1>4. IsInjective(a)
  <2> SUFFICES ASSUME NEW k \in 1 .. n + 1, NEW m \in 1 .. n + 1, a[k] = a[m] PROVE k = m
    BY <1>1 DEF IsInjective
  <2> QED
    BY <1>1, <1>2, <1>3
<1>5. ToSet(a) = ToSet(s) \cup {x}
  BY <1>1 DEF ToSet
<1> QED
  BY <1>4, <1>5 DEF a

\* There are no more global ids than posts.
LEMMA GidsSuffice == TypeOK => DOMAIN byGid \subseteq Gids
<1> SUFFICES ASSUME TypeOK PROVE DOMAIN byGid \subseteq Gids
  OBVIOUS
<1> DEFINE n == Len(byGid)
<1>1. n \in Nat /\ DOMAIN byGid = 1 .. n /\ byGid \in [1 .. n -> Posts]
  BY DEF TypeOK
<1>2. byGid \in Injection(1 .. n, Posts)
  BY <1>1 DEF TypeOK, Injection
<1>3. IsFiniteSet(Posts)
  BY ReportsAssumption
<1>4. Cardinality(1 .. n) <= Cardinality(Posts)
  BY <1>2, <1>3, FS_Injection
<1>5. Cardinality(1 .. n) = n
  <2>1. n \in Int /\ 1 \in Int /\ n >= 0
    BY <1>1
  <2>2. Cardinality(1 .. n) = IF 1 > n THEN 0 ELSE n - 1 + 1
    BY <2>1, FS_Interval
  <2> QED
    BY <2>1, <2>2
<1>6. Cardinality(Posts) \in Nat
  BY <1>3, FS_CardinalityType
<1> HIDE DEF n
<1> QED
  BY <1>1, <1>4, <1>5, <1>6 DEF Gids

LEMMA InitInv == Init => Inv
<1> SUFFICES ASSUME Init PROVE Inv
  OBVIOUS
<1>1. TypeOK
  <2>1. byGid \in Seq(Posts) /\ IsInjective(byGid)
    BY DEF Init, IsInjective
  <2>2. \A p \in Posts : [q \in Queues |-> <<>>] \in [Queues -> Seq(Ips)]
    OBVIOUS
  <2> QED
    BY <2>1, <2>2, ReportsAssumption DEF Init, TypeOK, Wishes, Nothing
<1>2. ReportsCounted
  <2>1. \A p \in Posts : \A q \in Queues : queue[q] = <<>> /\ ReportHistory[p][q] = <<>>
    BY DEF Init
  <2>2. \A p : {k \in DOMAIN <<>> : <<>>[k] = p} = {}
    OBVIOUS
  <2>3. IsInjective(<<>>) /\ ToSet(<<>>) = {}
    BY DEF IsInjective, ToSet
  <2>4. Aggregate \in Queues
    BY DEF Queues
  <2> QED
    BY <2>1, <2>2, <2>3, <2>4, FS_EmptySet DEF Init, ReportsCounted
<1>3. AutoHidden
  <2>1. \A p \in Posts : ReportHistory[p][Illegal] = <<>>
    BY DEF Init, Queues
  <2> QED
    BY <2>1 DEF AutoHidden, Enough, Init
<1>4. Moderations
  BY DEF Init, Moderations, Moderating, Unstarted
<1> QED
  BY <1>1, <1>2, <1>3, <1>4 DEF Inv

-----------------------------------------------------------------------------
(* Steps that leave the moderations alone                                  *)

\* The posts of ids stay, and hidden posts stay hidden.
LEMMA KeepModerations ==
  ASSUME Moderations, UNCHANGED modVars, Hidden \subseteq Hidden',
         \A g \in DOMAIN byGid : g \in DOMAIN byGid' /\ byGid'[g] = byGid[g]
  PROVE  Moderations'
<1>1. UNCHANGED <<pc, form, want, todo, affectedUsers, banned, shown>>
  BY DEF modVars
<1> SUFFICES ASSUME NEW s \in Staff PROVE Moderating(s)'
  BY DEF Moderations
<1>2. Moderating(s)
  BY DEF Moderations
<1>3. CASE shown[s] = {}
  BY <1>1, <1>2, <1>3 DEF Moderating, Unstarted
<1>4. CASE shown[s] # {}
  <2>1. Meant(s) /\ \A g \in form[s] : byGid'[g] = byGid[g] /\ g \in DOMAIN byGid'
    BY <1>2, <1>4 DEF Moderating, Meant
  <2>2. Meant(s)' /\ Handled(s)' = Handled(s)
    BY <1>1, <2>1 DEF Meant, Handled
  <2>3. \A p : Done(s, p) => Done(s, p)'
    BY <1>1 DEF Done, BlockFails
  <2> QED
    BY <1>1, <1>2, <2>2, <2>3 DEF Moderating, Unstarted
<1> QED
  BY <1>3, <1>4

LEMMA AddPostInv == ASSUME Inv, AddPost PROVE Inv'
<1>1. PICK p \in Posts \ ToSet(byGid) : byGid' = Append(byGid, p)
  BY DEF AddPost
<1>2. UNCHANGED <<Hidden, judged, ReportedBy, ReportHistory, queue, modVars, bounds>>
  BY DEF AddPost, reportVars
<1>3. /\ byGid' \in Seq(Posts) /\ IsInjective(byGid')
      /\ ToSet(byGid') = ToSet(byGid) \cup {p}
  BY <1>1, InjectiveAppended, Appended DEF Inv, TypeOK
<1>4. \A g \in DOMAIN byGid : g \in DOMAIN byGid' /\ byGid'[g] = byGid[g]
  BY <1>1 DEF Inv, TypeOK
<1>5. TypeOK'
  BY <1>2, <1>3 DEF Inv, TypeOK, modVars, bounds
<1>6. ReportsCounted' /\ AutoHidden'
  BY <1>2 DEF Inv, ReportsCounted, AutoHidden, Enough
<1>7. Moderations'
  BY <1>2, <1>4, KeepModerations DEF Inv
<1> QED
  BY <1>5, <1>6, <1>7 DEF Inv

LEMMA ReportInv ==
  ASSUME Inv, NEW ip \in Ips, NEW p \in Posts, NEW reason \in Reasons, Report(ip, p, reason)
  PROVE  Inv'
<1> DEFINE qs == {Aggregate, reason}
           old == ReportHistory[p]
           new == [q \in Queues |-> IF q \in qs THEN Append(old[q], ip) ELSE old[q]]
<1>1. /\ p \in ToSet(byGid) /\ reports < MaxReports /\ ip \notin ReportedBy[p]
      /\ ReportedBy' = [ReportedBy EXCEPT ![p] = @ \cup {ip}]
      /\ Hidden' = IF MustHide(p, reason) THEN Hidden \cup {p} ELSE Hidden
      /\ queue' = [q \in Queues |-> IF q \in qs THEN Append(queue[q], p) ELSE queue[q]]
      /\ ReportHistory' = [ReportHistory EXCEPT ![p] = new]
      /\ reports' = reports + 1
      /\ UNCHANGED <<byGid, judged, modVars, forms, restarts>>
  BY DEF Report
<1>2. /\ ReportHistory \in [Posts -> [Queues -> Seq(Ips)]] /\ old \in [Queues -> Seq(Ips)]
      /\ queue \in [Queues -> Seq(Posts)]
      /\ Aggregate \in Queues /\ Illegal \in Queues /\ reason \in Queues
  BY DEF Inv, TypeOK, Queues, Reasons
<1>3. \A q \in Queues : Append(old[q], ip) \in Seq(Ips) /\ Append(queue[q], p) \in Seq(Posts)
  BY <1>2
<1>4. new \in [Queues -> Seq(Ips)]
  BY <1>2, <1>3
<1>5. ReportHistory' \in [Posts -> [Queues -> Seq(Ips)]] /\ queue' \in [Queues -> Seq(Posts)]
  <2>1. queue' \in [Queues -> Seq(Posts)]
    BY <1>1, <1>2, <1>3
  <2> HIDE DEF new
  <2>2. ReportHistory' \in [Posts -> [Queues -> Seq(Ips)]]
    BY <1>1, <1>2, <1>4
  <2> QED
    BY <2>1, <2>2
<1>6. \A r \in Posts : ReportHistory'[r] = IF r = p THEN new ELSE ReportHistory[r]
  <2> HIDE DEF new
  <2> QED
    BY <1>1, <1>2
<1>7. TypeOK'
  <2>1. ReportedBy' \in [Posts -> SUBSET Ips] /\ Hidden' \subseteq ToSet(byGid')
    BY <1>1 DEF Inv, TypeOK
  <2>2. reports' \in 0 .. MaxReports
    BY <1>1, ReportsAssumption DEF Inv, TypeOK
  <2> QED
    BY <1>1, <1>5, <2>1, <2>2 DEF Inv, TypeOK, modVars
<1>8. ReportsCounted'
  <2> SUFFICES ASSUME NEW r \in Posts
               PROVE  /\ \A q \in Queues : Times(queue'[q], r) = Len(ReportHistory'[r][q])
                      /\ IsInjective(ReportHistory'[r][Aggregate])
                      /\ ToSet(ReportHistory'[r][Aggregate]) = ReportedBy'[r]
    BY DEF ReportsCounted, Times
  <2>1. /\ \A q \in Queues : Times(queue[q], r) = Len(ReportHistory[r][q])
        /\ IsInjective(ReportHistory[r][Aggregate])
        /\ ToSet(ReportHistory[r][Aggregate]) = ReportedBy[r]
    BY DEF Inv, ReportsCounted, Times
  <2>2. ASSUME NEW q \in Queues PROVE Times(queue'[q], r) = Len(ReportHistory'[r][q])
    <3>1. CASE q \notin qs
      <4>1. queue'[q] = queue[q] /\ ReportHistory'[r][q] = ReportHistory[r][q]
        BY <1>1, <1>6, <3>1
      <4> QED
        BY <2>1, <4>1
    <3>2. CASE q \in qs /\ r # p
      <4>1. queue'[q] = Append(queue[q], p) /\ ReportHistory'[r][q] = ReportHistory[r][q]
        BY <1>1, <1>6, <3>2
      <4>2. Times(Append(queue[q], p), r) = Times(queue[q], r)
        BY <1>2, <3>2, TimesAppended
      <4> QED
        BY <2>1, <4>1, <4>2
    <3>3. CASE q \in qs /\ r = p
      <4>1. queue'[q] = Append(queue[q], p) /\ ReportHistory'[r][q] = Append(old[q], ip)
        <5>1. queue'[q] = Append(queue[q], p) /\ new[q] = Append(old[q], ip)
          BY <1>1, <3>3
        <5> HIDE DEF new
        <5> QED
          BY <1>6, <3>3, <5>1
      <4>2. Times(Append(queue[q], p), r) = Times(queue[q], r) + 1
        BY <1>2, <3>3, TimesAppended
      <4>3. Len(Append(old[q], ip)) = Len(old[q]) + 1
        BY <1>2
      <4> QED
        BY <2>1, <3>3, <4>1, <4>2, <4>3
    <3> QED
      BY <3>1, <3>2, <3>3
  <2>3. /\ IsInjective(ReportHistory'[r][Aggregate])
        /\ ToSet(ReportHistory'[r][Aggregate]) = ReportedBy'[r]
    <3>1. CASE r # p
      <4>1. ReportHistory'[r] = ReportHistory[r] /\ ReportedBy'[r] = ReportedBy[r]
        BY <1>1, <1>6, <3>1 DEF Inv, TypeOK
      <4> QED
        BY <2>1, <4>1
    <3>2. CASE r = p
      <4>1. ReportHistory'[r][Aggregate] = Append(old[Aggregate], ip)
        BY <1>2, <1>6, <3>2
      <4>2. ReportedBy'[r] = ReportedBy[r] \cup {ip}
        BY <1>1, <3>2 DEF Inv, TypeOK
      <4>3. /\ IsInjective(Append(old[Aggregate], ip))
            /\ ToSet(Append(old[Aggregate], ip)) = ToSet(old[Aggregate]) \cup {ip}
        BY <1>1, <1>2, <2>1, <3>2, InjectiveAppended
      <4> QED
        BY <2>1, <3>2, <4>1, <4>2, <4>3
    <3> QED
      BY <3>1, <3>2
  <2> QED
    BY <2>2, <2>3
<1>9. AutoHidden'
  <2> SUFFICES ASSUME NEW r \in Posts
               PROVE  /\ Enough(r)' => r \in Hidden'
                      /\ r \in Hidden' \ judged' => Enough(r)'
    BY DEF AutoHidden
  <2>0. (Enough(r) => r \in Hidden) /\ (r \in Hidden \ judged => Enough(r))
    BY DEF Inv, AutoHidden
  <2>1. CASE r = p /\ reason = Illegal
    <3>1. ReportHistory'[r][Illegal] = Append(old[Illegal], ip)
      BY <1>2, <1>6, <2>1
    <3>2. /\ Len(ReportHistory'[r][Illegal]) = TimesReported(p)
          /\ TimesReported(p) = Len(ReportHistory[p][Illegal]) + 1
          /\ Len(ReportHistory[p][Illegal]) \in Nat
      BY <1>2, <3>1 DEF TimesReported
    <3>3. Enough(r)' <=> MustHide(p, reason)
      BY <2>1, <3>2, ReportsAssumption DEF MustHide, Enough
    <3>4. Enough(r) => Enough(r)'
      BY <2>1, <3>2, ReportsAssumption DEF Enough
    <3> QED
      BY <1>1, <2>0, <2>1, <3>3, <3>4
  <2>2. CASE r # p \/ reason # Illegal
    <3>1. ReportHistory'[r][Illegal] = ReportHistory[r][Illegal]
      BY <1>2, <1>6, <2>2, ReportsAssumption
    <3>2. Enough(r)' <=> Enough(r)
      BY <3>1 DEF Enough
    <3>3. r \in Hidden' <=> r \in Hidden
      BY <1>1, <2>2 DEF MustHide
    <3> QED
      BY <1>1, <2>0, <3>2, <3>3
  <2> QED
    BY <2>1, <2>2
<1>10. Moderations'
  BY <1>1, KeepModerations DEF Inv
<1> QED
  BY <1>7, <1>8, <1>9, <1>10 DEF Inv

-----------------------------------------------------------------------------
(* Steps of one moderation                                                 *)

\* The others go on as they were.
LEMMA OtherModerations ==
  ASSUME Moderations, NEW s \in Staff, UNCHANGED <<byGid, reportVars>>, Hidden \subseteq Hidden',
         \A o \in Staff : o # s =>
           /\ pc'[o] = pc[o] /\ form'[o] = form[o] /\ want'[o] = want[o] /\ todo'[o] = todo[o]
           /\ affectedUsers'[o] = affectedUsers[o] /\ banned'[o] = banned[o]
           /\ shown'[o] = shown[o],
         Moderating(s)'
  PROVE  Moderations'
<1> SUFFICES ASSUME NEW o \in Staff, o # s PROVE Moderating(o)'
  BY DEF Moderations
<1>1. Moderating(o)
  BY DEF Moderations
<1>2. Meant(o)' = Meant(o) /\ Handled(o)' = Handled(o)
  BY DEF Meant, Handled
<1>3. \A p : Done(o, p) => Done(o, p)'
  BY DEF Done, BlockFails
<1> QED
  BY <1>1, <1>2, <1>3 DEF Moderating, Unstarted

\* Hidden posts stay hidden, and what is hidden now was judged.
LEMMA KeepReports ==
  ASSUME ReportsCounted, AutoHidden, UNCHANGED reportVars,
         Hidden \subseteq Hidden', Hidden' \ judged' \subseteq Hidden \ judged
  PROVE  ReportsCounted' /\ AutoHidden'
<1>1. UNCHANGED <<ReportedBy, ReportHistory, queue>>
  BY DEF reportVars
<1>2. \A p : Enough(p)' <=> Enough(p)
  BY <1>1 DEF Enough
<1> QED
  BY <1>1, <1>2 DEF ReportsCounted, AutoHidden

LEMMA LandingInv == ASSUME Inv, NEW s \in Staff, Landing(s) PROVE Inv'
<1>1. PICK ids \in SUBSET DOMAIN byGid \ {{}} :
        /\ form' = [form EXCEPT ![s] = ids]
        /\ shown' = [shown EXCEPT ![s] = {byGid[g] : g \in ids}]
  BY DEF Landing
<1>2. /\ pc[s] = "idle" /\ forms < MaxForms /\ pc' = [pc EXCEPT ![s] = "form"] /\ forms' = forms + 1
      /\ UNCHANGED <<byGid, Hidden, judged, reportVars, want, todo, affectedUsers, banned, reports, restarts>>
  BY DEF Landing, postVars
<1>3. Moderating(s)
  BY DEF Inv, Moderations
<1>4. TypeOK'
  <2>1. form' \in [Staff -> SUBSET Gids]
    BY <1>1, GidsSuffice DEF Inv, TypeOK
  <2>2. {byGid[g] : g \in ids} \in SUBSET Posts
    BY DEF Inv, TypeOK
  <2>3. shown' \in [Staff -> SUBSET Posts]
    BY <1>1, <2>2 DEF Inv, TypeOK
  <2>4. \A o \in Staff : todo'[o] \subseteq form'[o]
    BY <1>1, <1>2, <1>3 DEF Inv, TypeOK, Moderating, Unstarted
  <2>5. forms' \in 0 .. MaxForms
    BY <1>2, ReportsAssumption DEF Inv, TypeOK
  <2> QED
    BY <1>2, <2>1, <2>3, <2>4, <2>5 DEF Inv, TypeOK, reportVars
<1>5. Moderating(s)'
  <2>1. /\ pc'[s] = "form" /\ form'[s] = ids /\ shown'[s] = {byGid[g] : g \in ids}
    BY <1>1, <1>2 DEF Inv, TypeOK
  <2> QED
    BY <1>2, <1>3, <2>1 DEF Moderating, Unstarted, Meant
<1>6. Moderations'
  BY <1>1, <1>2, <1>5, OtherModerations DEF Inv, TypeOK
<1> QED
  BY <1>2, <1>4, <1>6, KeepReports DEF Inv

LEMMA SubmitInv == ASSUME Inv, NEW s \in Staff, Submit(s) PROVE Inv'
<1>1. PICK w \in Wishes : want' = [want EXCEPT ![s] = w]
  BY ReportsAssumption DEF Submit
<1>2. /\ pc[s] = "form" /\ pc' = [pc EXCEPT ![s] = "posts"] /\ todo' = [todo EXCEPT ![s] = form[s]]
      /\ UNCHANGED <<byGid, Hidden, judged, reportVars, form, affectedUsers, banned, shown, bounds>>
  BY DEF Submit, postVars
<1>3. Moderating(s)
  BY DEF Inv, Moderations
<1>4. TypeOK'
  BY <1>1, <1>2 DEF Inv, TypeOK, reportVars, bounds
<1>5. Moderating(s)'
  <2>1. pc'[s] = "posts" /\ todo'[s] = form[s] /\ form' = form
    BY <1>2 DEF Inv, TypeOK
  <2>2. Handled(s)' = {}
    BY <2>1 DEF Handled
  <2>3. Meant(s)' = Meant(s)
    BY <1>2 DEF Meant
  <2>4. affectedUsers'[s] = {} /\ banned'[s] = {} /\ shown'[s] = shown[s]
    BY <1>2, <1>3 DEF Moderating, Unstarted
  <2> QED
    BY <1>2, <1>3, <2>1, <2>2, <2>3, <2>4 DEF Moderating, Unstarted
<1>6. Moderations'
  BY <1>1, <1>2, <1>5, OtherModerations DEF Inv, TypeOK
<1> QED
  BY <1>2, <1>4, <1>6, KeepReports DEF Inv

LEMMA ModPostInv == ASSUME Inv, NEW s \in Staff, ModPost(s) PROVE Inv'
<1>1. PICK g \in todo[s] :
        /\ todo' = [todo EXCEPT ![s] = @ \ {g}]
        /\ IF g \in DOMAIN byGid
           THEN /\ affectedUsers' = [affectedUsers EXCEPT ![s] = @ \cup {Author[byGid[g]]}]
                /\ Hidden' = Hidden \cup Deleted(s, byGid[g])
                /\ judged' = judged \cup Deleted(s, byGid[g])
           ELSE UNCHANGED <<affectedUsers, Hidden, judged>>
  BY DEF ModPost
<1>2. /\ pc[s] = "posts"
      /\ UNCHANGED <<byGid, reportVars, pc, form, want, banned, shown, bounds>>
  BY DEF ModPost
<1>3. Moderating(s)
  BY DEF Inv, Moderations
<1>4. todo[s] \subseteq form[s] /\ form[s] \subseteq Gids
  BY DEF Inv, TypeOK
<1>5. /\ Hidden \subseteq Hidden' /\ Hidden' \subseteq ToSet(byGid)
      /\ judged' \subseteq Hidden' /\ Hidden' \ judged' \subseteq Hidden \ judged
  <2>1. CASE g \in DOMAIN byGid
    <3>1. PICK D \in SUBSET {byGid[g]} : Hidden' = Hidden \cup D /\ judged' = judged \cup D
      BY <1>1, <2>1 DEF Deleted
    <3>2. byGid[g] \in ToSet(byGid)
      BY <2>1 DEF ToSet
    <3> QED
      BY <3>1, <3>2 DEF Inv, TypeOK
  <2>2. CASE g \notin DOMAIN byGid
    BY <1>1, <2>2 DEF Inv, TypeOK
  <2> QED
    BY <2>1, <2>2
<1>6. g \in DOMAIN byGid => byGid[g] \in Posts /\ Author[byGid[g]] \in Addrs
  BY DEF Inv, TypeOK, Addrs
<1>7. TypeOK'
  <2>1. affectedUsers' \in [Staff -> SUBSET Addrs] /\ \A o \in Staff : affectedUsers[o] \subseteq affectedUsers'[o]
    <3>1. affectedUsers \in [Staff -> SUBSET Addrs]
      BY DEF Inv, TypeOK
    <3>2. CASE g \in DOMAIN byGid
      <4>1. PICK x \in Addrs : affectedUsers' = [affectedUsers EXCEPT ![s] = @ \cup {x}]
        BY <1>1, <1>6, <3>2
      <4> QED
        BY <3>1, <4>1
    <3> QED
      BY <1>1, <3>1, <3>2
  <2>2. \A o \in Staff : todo'[o] \subseteq todo[o]
    BY <1>1 DEF Inv, TypeOK
  <2>3. \A o \in Staff : todo'[o] \subseteq form'[o] /\ banned'[o] \subseteq affectedUsers'[o]
    BY <1>2, <2>1, <2>2 DEF Inv, TypeOK
  <2>4. todo' \in [Staff -> SUBSET Gids]
    BY <1>1 DEF Inv, TypeOK
  <2> QED
    BY <1>2, <1>5, <2>1, <2>3, <2>4 DEF Inv, TypeOK, reportVars, bounds
<1>8. Moderating(s)'
  <2>1. pc'[s] = "posts" /\ banned'[s] = {} /\ shown'[s] = shown[s]
    BY <1>2, <1>3 DEF Moderating
  <2>2. ASSUME shown[s] # {}
        PROVE  /\ Meant(s)'
               /\ affectedUsers'[s] = {Author[p] : p \in Handled(s)'}
               /\ \A p \in Handled(s)' : Done(s, p)'
    <3>1. Meant(s) /\ Meant(s)' /\ g \in DOMAIN byGid
      BY <1>2, <1>3, <1>4, <2>2 DEF Moderating, Meant
    <3>2. todo'[s] = todo[s] \ {g}
      BY <1>1 DEF Inv, TypeOK
    <3>3. Handled(s)' = Handled(s) \cup {byGid[g]}
      BY <1>2, <1>4, <3>2 DEF Handled
    <3>4. affectedUsers'[s] = affectedUsers[s] \cup {Author[byGid[g]]}
      BY <1>1, <3>1 DEF Inv, TypeOK
    <3>5. affectedUsers[s] = {Author[p] : p \in Handled(s)} /\ \A p \in Handled(s) : Done(s, p)
      BY <1>2, <1>3, <2>2 DEF Moderating
    <3>6. affectedUsers'[s] = {Author[p] : p \in Handled(s)'}
      BY <3>3, <3>4, <3>5
    <3>7. Done(s, byGid[g])'
      BY <1>1, <1>2, <3>1 DEF Done, Deleted, BlockFails
    <3>8. \A p : Done(s, p) => Done(s, p)'
      BY <1>2, <1>5 DEF Done, BlockFails
    <3>9. \A p \in Handled(s)' : p \in Handled(s) \/ p = byGid[g]
      BY <3>3
    <3>10. \A p \in Handled(s)' : Done(s, p)'
      BY <1>2, <3>5, <3>7, <3>8, <3>9
    <3> QED
      BY <3>1, <3>6, <3>10
  <2> QED
    BY <2>1, <2>2 DEF Moderating
<1>9. Moderations'
  BY <1>1, <1>2, <1>5, <1>8, OtherModerations DEF Inv, TypeOK
<1> QED
  BY <1>2, <1>5, <1>7, <1>9, KeepReports DEF Inv

LEMMA EndsInv == ASSUME Inv, NEW s \in Staff, PostsDone(s) \/ BansDone(s) PROVE Inv'
<1>1. /\ pc[s] \in {"posts", "bans"} /\ todo[s] = {}
      /\ pc' = [pc EXCEPT ![s] = pc'[s]]
      /\ UNCHANGED <<byGid, Hidden, judged, reportVars, form, want, todo, affectedUsers, banned, shown, bounds>>
  BY DEF PostsDone, BansDone, postVars, Inv, TypeOK, Moderations, Moderating
<1>2. \/ pc'[s] = "bans" /\ want[s].ban /\ s \in CanBan
      \/ /\ pc'[s] = "done"
         /\ banned[s] = IF want[s].ban /\ s \in CanBan THEN affectedUsers[s] ELSE {}
  BY DEF PostsDone, BansDone, Inv, TypeOK, Moderations, Moderating
<1>3. TypeOK'
  BY <1>1, <1>2 DEF Inv, TypeOK, reportVars, bounds
<1>4. Moderating(s)'
  <2>1. Moderating(s)
    BY DEF Inv, Moderations
  <2>2. /\ Meant(s)' = Meant(s) /\ Handled(s)' = Handled(s)
        /\ \A p : Done(s, p)' = Done(s, p)
    BY <1>1 DEF Meant, Handled, Done, BlockFails
  <2> QED
    BY <1>1, <1>2, <2>1, <2>2 DEF Moderating
<1>5. Moderations'
  BY <1>1, <1>4, OtherModerations DEF Inv, TypeOK
<1> QED
  BY <1>1, <1>3, <1>5, KeepReports DEF Inv

LEMMA BanUserInv == ASSUME Inv, NEW s \in Staff, BanUser(s) PROVE Inv'
<1>1. PICK ip \in affectedUsers[s] \ banned[s] : banned' = [banned EXCEPT ![s] = @ \cup {ip}]
  BY DEF BanUser
<1>2. /\ pc[s] = "bans"
      /\ UNCHANGED <<byGid, Hidden, judged, reportVars, pc, form, want, todo, affectedUsers, shown, bounds>>
  BY DEF BanUser, postVars
<1>3. TypeOK'
  <2>1. ip \in Addrs /\ \A o \in Staff : banned'[o] \subseteq affectedUsers[o]
    BY <1>1 DEF Inv, TypeOK
  <2>2. banned' \in [Staff -> SUBSET Addrs]
    BY <1>1, <2>1 DEF Inv, TypeOK
  <2> QED
    BY <1>2, <2>1, <2>2 DEF Inv, TypeOK, reportVars, bounds
<1>4. Moderating(s)'
  <2>1. Moderating(s)
    BY DEF Inv, Moderations
  <2>2. /\ Meant(s)' = Meant(s) /\ Handled(s)' = Handled(s)
        /\ \A p : Done(s, p)' = Done(s, p)
    BY <1>2 DEF Meant, Handled, Done, BlockFails
  <2> QED
    BY <1>2, <2>1, <2>2 DEF Moderating
<1>5. Moderations'
  BY <1>1, <1>2, <1>4, OtherModerations DEF Inv, TypeOK
<1> QED
  BY <1>2, <1>3, <1>5, KeepReports DEF Inv

LEMMA AnswerInv == ASSUME Inv, NEW s \in Staff, Answer(s) PROVE Inv'
<1>1. /\ pc' = [pc EXCEPT ![s] = "idle"]
      /\ form' = [form EXCEPT ![s] = {}] /\ shown' = [shown EXCEPT ![s] = {}]
      /\ want' = [want EXCEPT ![s] = Nothing] /\ todo' = [todo EXCEPT ![s] = {}]
      /\ affectedUsers' = [affectedUsers EXCEPT ![s] = {}]
      /\ banned' = [banned EXCEPT ![s] = {}]
      /\ UNCHANGED <<byGid, Hidden, judged, reportVars, bounds>>
  BY DEF Answer, Clear, postVars
<1>2. TypeOK'
  <2>1. Nothing \in Wishes
    BY DEF Nothing, Wishes
  <2>2. \A o \in Staff : todo'[o] \subseteq form'[o] /\ banned'[o] \subseteq affectedUsers'[o]
    BY <1>1 DEF Inv, TypeOK
  <2> QED
    BY <1>1, <2>1, <2>2 DEF Inv, TypeOK, reportVars, bounds
<1>3. Moderating(s)'
  BY <1>1 DEF Inv, TypeOK, Moderating, Unstarted
<1>4. Moderations'
  BY <1>1, <1>3, OtherModerations DEF Inv, TypeOK
<1> QED
  BY <1>1, <1>2, <1>4, KeepReports DEF Inv

-----------------------------------------------------------------------------
LEMMA RestartInv == ASSUME Inv, Restart PROVE Inv'
<1>1. /\ restarts < MaxRestarts /\ restarts' = restarts + 1
      /\ Hidden' \in SUBSET (Hidden \cap ToSet(byGid')) /\ judged' = Hidden'
      /\ pc' = [s \in Staff |-> IF pc[s] = "form" THEN "form" ELSE "idle"]
      /\ form' = [s \in Staff |-> IF pc[s] = "form" THEN form[s] ELSE {}]
      /\ shown' = [s \in Staff |-> {}]
      /\ want' = [s \in Staff |-> Nothing] /\ todo' = [s \in Staff |-> {}]
      /\ affectedUsers' = [s \in Staff |-> {}] /\ banned' = affectedUsers'
      /\ UNCHANGED <<reports, forms>>
  BY DEF Restart
<1>2. /\ ReportedBy' = [p \in Posts |-> {}]
      /\ ReportHistory' = [p \in Posts |-> [q \in Queues |-> <<>>]]
      /\ queue' = [q \in Queues |-> <<>>]
  BY DEF Restart, NoReports
<1>3. byGid' \in Seq(Posts) /\ IsInjective(byGid')
  <2>0. PICK n \in 0 .. Len(byGid) : \E back \in [1 .. n -> DOMAIN byGid] :
          /\ \A k, m \in 1 .. n : k < m => back[k] < back[m]
          /\ byGid' = [g \in 1 .. n |-> byGid[back[g]]]
    BY DEF Restart
  <2>1. PICK back \in [1 .. n -> DOMAIN byGid] :
          /\ \A k, m \in 1 .. n : k < m => back[k] < back[m]
          /\ byGid' = [g \in 1 .. n |-> byGid[back[g]]]
    BY <2>0
  <2>2. byGid \in Seq(Posts) /\ IsInjective(byGid) /\ DOMAIN byGid = 1 .. Len(byGid) /\ n \in Nat
    BY DEF Inv, TypeOK
  <2>3. \A k \in 1 .. n : byGid[back[k]] \in Posts /\ back[k] \in Int /\ back[k] \in DOMAIN byGid
    BY <2>2
  <2>4. byGid' \in Seq(Posts)
    BY <2>1, <2>2, <2>3
  <2>5. IsInjective(byGid')
    <3> SUFFICES ASSUME NEW k \in 1 .. n, NEW m \in 1 .. n, byGid[back[k]] = byGid[back[m]]
                 PROVE  k = m
      BY <2>1 DEF IsInjective
    <3>1. back[k] = back[m]
      BY <2>2, <2>3 DEF IsInjective
    <3>2. ~(k < m) /\ ~(m < k)
      BY <2>1, <2>3, <3>1
    <3> QED
      BY <3>2
  <2> QED
    BY <2>4, <2>5
<1>4. TypeOK'
  <2>1. Nothing \in Wishes
    BY DEF Nothing, Wishes
  <2>2. restarts' \in 0 .. MaxRestarts
    BY <1>1, ReportsAssumption DEF Inv, TypeOK
  <2>3. [q \in Queues |-> <<>>] \in [Queues -> Seq(Ips)] /\ queue' \in [Queues -> Seq(Posts)]
    BY <1>2
  <2>4. ReportHistory' \in [Posts -> [Queues -> Seq(Ips)]]
    <3> DEFINE none == [q \in Queues |-> <<>>]
    <3> HIDE DEF none
    <3> QED
      BY <1>2, <2>3 DEF none
  <2>5. form' \in [Staff -> SUBSET Gids] /\ pc' \in [Staff -> {"idle", "form", "posts", "bans", "done"}]
    BY <1>1 DEF Inv, TypeOK
  <2> QED
    BY <1>1, <1>2, <1>3, <2>1, <2>2, <2>3, <2>4, <2>5 DEF Inv, TypeOK
<1>5. \A p \in Posts : \A q \in Queues : queue'[q] = <<>> /\ ReportHistory'[p][q] = <<>>
  BY <1>2
<1>6. Aggregate \in Queues /\ Illegal \in Queues
  BY DEF Queues
<1>7. ReportsCounted'
  <2>1. \A p : {k \in DOMAIN <<>> : <<>>[k] = p} = {}
    OBVIOUS
  <2>2. IsInjective(<<>>) /\ ToSet(<<>>) = {}
    BY DEF IsInjective, ToSet
  <2> QED
    BY <1>2, <1>5, <1>6, <2>1, <2>2, FS_EmptySet DEF ReportsCounted
<1>8. AutoHidden'
  BY <1>1, <1>5, <1>6 DEF AutoHidden, Enough
<1>9. Moderations'
  BY <1>1 DEF Moderations, Moderating, Unstarted
<1> QED
  BY <1>4, <1>7, <1>8, <1>9 DEF Inv

LEMMA StepInv == Inv /\ [Next]_vars => Inv'
<1> SUFFICES ASSUME Inv, [Next]_vars PROVE Inv'
  OBVIOUS
<1>1. CASE UNCHANGED vars
  <2>1. UNCHANGED <<byGid, Hidden, judged, ReportedBy, ReportHistory, queue, modVars, bounds>>
    BY <1>1 DEF vars, postVars, reportVars
  <2>2. TypeOK'
    BY <2>1 DEF Inv, TypeOK, modVars, bounds
  <2>3. ReportsCounted' /\ AutoHidden' /\ Moderations'
    BY <2>1, KeepReports, KeepModerations DEF Inv, reportVars
  <2> QED
    BY <2>2, <2>3 DEF Inv
<1>2. CASE AddPost
  BY <1>2, AddPostInv
<1>3. CASE \E ip \in Ips, p \in Posts, reason \in Reasons : Report(ip, p, reason)
  BY <1>3, ReportInv
<1>4. CASE \E s \in Staff : \/ Landing(s) \/ Submit(s) \/ ModPost(s) \/ PostsDone(s)
                            \/ BanUser(s) \/ BansDone(s) \/ Answer(s)
  BY <1>4, LandingInv, SubmitInv, ModPostInv, EndsInv, BanUserInv, AnswerInv
<1>5. CASE Restart
  BY <1>5, RestartInv
<1> QED
  BY <1>1, <1>2, <1>3, <1>4, <1>5 DEF Next

(* Every reachable state of the posts, queues and moderations is of its    *)
(* type.                                                                   *)
THEOREM ReportsType == Spec => []TypeOK
<1>1. Inv => TypeOK
  BY DEF Inv
<1> QED
  BY InitInv, StepInv, <1>1, PTL DEF Spec

(* A queue shows a post once for each report, and an address counts once.  *)
THEOREM ReportsCountedOnce == Spec => []ReportsCounted
<1>1. Inv => ReportsCounted
  BY DEF Inv
<1> QED
  BY InitInv, StepInv, <1>1, PTL DEF Spec

(* Two reports for illegal contents, or as many as the setting says if it  *)
(* says more, hide a post, and fewer hide none.                            *)
THEOREM ReportedEnoughHidden == Spec => []AutoHidden
<1>1. Inv => AutoHidden
  BY DEF Inv
<1> QED
  BY InitInv, StepInv, <1>1, PTL DEF Spec

(* A moderation that has ended has banned the authors of the posts on its  *)
(* form and nobody else, and has hidden the posts.                         *)
THEOREM ModerationsComplete == Spec => []ModeratedFully
<1>1. Inv => ModeratedFully
  <2> SUFFICES ASSUME Inv, NEW s \in Staff, pc[s] = "done", shown[s] # {}
               PROVE  /\ banned[s] = IF want[s].ban /\ s \in CanBan
                                     THEN {Author[p] : p \in shown[s]} ELSE {}
                      /\ want[s].delete /\ s \in CanDelete =>
                           \A p \in shown[s] : p \in Hidden \/ BlockFails(s, p)
    BY DEF ModeratedFully
  <2>1. Moderating(s)
    BY DEF Inv, Moderations
  <2>2. Handled(s) = shown[s]
    BY <2>1 DEF Moderating, Meant, Handled
  <2> QED
    BY <2>1, <2>2 DEF Moderating, Done
<1> QED
  BY InitInv, StepInv, <1>1, PTL DEF Spec
=============================================================================
