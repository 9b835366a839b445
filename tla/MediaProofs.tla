------------------------------ MODULE MediaProofs ------------------------------
(***************************************************************************)
(* What the media library serves is whole, what is blocked stays blocked,  *)
(* a post's media has a row or one on its way, and the cache is accounted  *)
(* for, with any uploads, sizes, limits, numbers of handlers and restarts. *)
(*                                                                         *)
(* The argument is that every hash the process knows of, in the library,   *)
(* with a handler, in the queue or in the table, was written to a file,    *)
(* had its file removed, or found no room (Stored).  Which objects are     *)
(* evicted does not matter for that.  Blocked media have no file and are   *)
(* in the library, which therefore never writes one (Blocks).              *)
(*                                                                         *)
(* For the accounts it does: the list is cut in two by clearSpace, and its *)
(* size is the sum of the parts (TotalSplit).                              *)
(***************************************************************************)
EXTENDS Media, FiniteSetTheorems, WellFoundedInduction, TLAPS

Known == Hashes \cup (1 .. Len(hashOf))

\* The objects of rows to come.
Queue == ToSet(persistMedia) \ {None}

Shape ==
  /\ hashOf \in Seq(Hashes) /\ Len(hashOf) <= MaxUploads
  /\ byHash \in [Hashes -> Known \cup {None}]
  /\ \A h \in Hashes : byHash[h] # None => Hash(byHash[h]) = h
  /\ blocked \subseteq Known /\ posted \subseteq Known
  /\ persistMedia \in Seq(Known \cup {None})
  /\ tx \subseteq Hashes /\ rows \subseteq Hashes
  /\ pc \in [Handlers -> {"idle", "work", "probe", "send", "post", "read", "write"}]
  /\ obj \in [Handlers -> Known \cup {None}]
  /\ \A c \in Handlers : pc[c] \notin {"idle", "send"} => obj[c] # None

Stored == disk \cup removed \cup unfit

FilesKept ==
  /\ \A h \in Hashes : byHash[h] # None => h \in Stored
  /\ \A c \in Handlers : obj[c] # None => Hash(obj[c]) \in Stored
  /\ \A o \in Queue : Hash(o) \in Stored
  /\ tx \subseteq Stored /\ rows \subseteq Stored

\* The row of h is there, or on its way.
HasRow(h) == h \in rows \cup tx \cup {Hash(o) : o \in Queue}

RowsFirst ==
  /\ \A c \in Handlers : pc[c] = "post" => HasRow(Hash(obj[c]))
  /\ \A o \in posted : HasRow(Hash(o))

Inv == Shape /\ FilesKept /\ RowsFirst /\ ServedWhole

-----------------------------------------------------------------------------
LEMMA SetAppended ==
  ASSUME NEW S, NEW s \in Seq(S), NEW x \in S
  PROVE  ToSet(Append(s, x)) = ToSet(s) \cup {x}
<1> DEFINE a == Append(s, x)
           n == Len(s)
<1>1. /\ DOMAIN s = 1 .. n /\ DOMAIN a = 1 .. n + 1 /\ n \in Nat
      /\ a[n + 1] = x /\ \A k \in 1 .. n : a[k] = s[k]
  OBVIOUS
<1>2. (\A k \in 1 .. n + 1 : k \in 1 .. n \/ k = n + 1) /\ \A k \in 1 .. n : k \in 1 .. n + 1
  BY <1>1
<1>3. n + 1 \in 1 .. n + 1
  BY <1>1
<1> HIDE DEF a, n
<1> QED
  BY <1>1, <1>2, <1>3 DEF ToSet, a

LEMMA SetTaken ==
  ASSUME NEW S, NEW s \in Seq(S), s # <<>>
  PROVE  /\ Head(s) \in S /\ Tail(s) \in Seq(S)
         /\ ToSet(s) = {Head(s)} \cup ToSet(Tail(s))
<1> DEFINE t == Tail(s)
           n == Len(s)
<1>1. /\ DOMAIN s = 1 .. n /\ DOMAIN t = 1 .. n - 1 /\ n \in Nat \ {0}
      /\ Head(s) = s[1] /\ \A k \in 1 .. n - 1 : t[k] = s[k + 1]
      /\ Head(s) \in S /\ t \in Seq(S)
  OBVIOUS
<1>2. /\ \A k \in 1 .. n : k = 1 \/ (k - 1 \in 1 .. n - 1 /\ t[k - 1] = s[k])
      /\ \A k \in 1 .. n - 1 : k + 1 \in 1 .. n
      /\ 1 \in 1 .. n
  BY <1>1
<1>3. ToSet(s) = {s[k] : k \in 1 .. n} /\ ToSet(t) = {t[k] : k \in 1 .. n - 1}
  BY <1>1 DEF ToSet
<1> HIDE DEF t, n
<1>4. \A y \in ToSet(s) : y = s[1] \/ y \in ToSet(t)
  BY <1>2, <1>3
<1>5. s[1] \in ToSet(s) /\ \A y \in ToSet(t) : y \in ToSet(s)
  BY <1>1, <1>2, <1>3
<1>6. ToSet(s) = {s[1]} \cup ToSet(t)
  BY <1>4, <1>5
<1> QED
  BY <1>1, <1>6 DEF t

LEMMA Objects1 ==
  ASSUME Shape
  PROVE  /\ None \notin Known /\ Len(hashOf) \in Nat
         /\ \A o \in Known : Hash(o) \in Hashes
         /\ \A h \in Hashes : Hash(h) = h
         /\ Queue \subseteq Known
<1>1. \A k \in 1 .. Len(hashOf) : k \in 1 .. MaxUploads /\ hashOf[k] \in Hashes
  BY MediaAssumption DEF Shape
<1>2. None \notin Known
  BY <1>1, MediaAssumption DEF Known
<1>3. \A o \in Known : Hash(o) \in Hashes
  BY <1>1 DEF Known, Hash
<1>4. Queue \subseteq Known
  BY DEF Shape, Queue, ToSet
<1> QED
  BY <1>2, <1>3, <1>4 DEF Shape, Hash

LEMMA InitInv == Init => Inv
<1> SUFFICES ASSUME Init PROVE Inv
  OBVIOUS
<1>1. Shape
  BY MediaAssumption DEF Init, Shape, Known
<1>2. Queue = {}
  BY DEF Init, Queue, ToSet
<1>3. FilesKept /\ RowsFirst /\ ServedWhole
  BY <1>2 DEF Init, FilesKept, RowsFirst, ServedWhole, Handlers
<1> QED
  BY <1>1, <1>3 DEF Inv

-----------------------------------------------------------------------------
(* Uploads                                                                 *)

LEMMA UploadInv ==
  ASSUME Inv, NEW u \in Uploaders, NEW h \in Hashes, Upload(u, h)
  PROVE  Inv'
<1>0. PICK new : new = Len(hashOf) + 1
  OBVIOUS
<1>1. /\ pc[u] = "idle" /\ new <= MaxUploads /\ hashOf' = Append(hashOf, h)
      /\ obj' = [obj EXCEPT ![u] = new]
      /\ pc' = [pc EXCEPT ![u] = IF h \in AV THEN "work" ELSE "send"]
      /\ UNCHANGED <<blocked, posted, persistMedia, tx, rows>>
  BY <1>0 DEF Upload, Goto, dbVars
<1>2. Shape /\ hashOf \in Seq(Hashes) /\ Len(hashOf) \in Nat /\ u \in Handlers
  BY DEF Inv, Shape, Handlers
<1>3. /\ new \in 1 .. MaxUploads /\ new \notin Known /\ new # None /\ new \notin Hashes
      /\ Known' = Known \cup {new}
      /\ hashOf' \in Seq(Hashes) /\ Len(hashOf') <= MaxUploads
  <2>1. new \in 1 .. MaxUploads /\ new \notin 1 .. Len(hashOf)
    BY <1>0, <1>1, <1>2
  <2>2. Len(hashOf') = new /\ 1 .. new = (1 .. Len(hashOf)) \cup {new}
    BY <1>0, <1>1, <1>2
  <2> QED
    BY <1>1, <1>2, <2>1, <2>2, MediaAssumption DEF Known
<1>4. /\ \A o \in Known : Hash(o)' = Hash(o)
      /\ Hash(new)' = h
  BY <1>1, <1>2, <1>3 DEF Known, Hash
<1>5. PICK out :
        \/ /\ byHash[h] # None /\ out = {} /\ full' = full \cup {new} /\ lost' = lost
           /\ UNCHANGED <<byHash, disk, removed, unfit>>
        \/ /\ byHash[h] = None /\ full' = (full \ out) \cup {new}
           /\ lost' = lost \cup {v \in Viewers : pc[v] = "write" /\ obj[v] \in out}
           /\ removed' = removed
           /\ \/ /\ byHash' = [byHash EXCEPT ![h] = new] /\ disk' = disk \cup {h} /\ unfit' = unfit
              \/ /\ byHash' = byHash /\ disk' = disk /\ unfit' = unfit \cup {h}
  <2>1. CASE KeepOld(h, new)
    BY <1>1, <2>1 DEF KeepOld, libVars, histVars
  <2>2. CASE InsertFirst(h, new)
    <3>1. CASE Fits(Size[h])
      BY <2>2, <3>1 DEF InsertFirst, Emptied
    <3>2. CASE ~Fits(Size[h])
      BY <2>2, <3>2 DEF InsertFirst, Emptied
    <3> QED
      BY <3>1, <3>2
  <2> QED
    BY <1>0, <2>1, <2>2 DEF Upload
<1>6. Stored \subseteq Stored' /\ h \in Stored'
  BY <1>5 DEF Stored, Inv, FilesKept
<1>7. /\ byHash' \in [Hashes -> Known' \cup {None}]
      /\ \A g \in Hashes : \/ byHash'[g] = byHash[g]
                           \/ g = h /\ byHash[g] = None /\ byHash'[g] = new
  BY <1>2, <1>3, <1>5 DEF Shape
<1>8. Shape'
  <2>1. \A g \in Hashes : byHash'[g] # None => Hash(byHash[g])' = g
    <3> SUFFICES ASSUME NEW g \in Hashes, byHash'[g] # None PROVE Hash(byHash[g])' = g
      OBVIOUS
    <3>1. PICK o : o = byHash'[g]
      OBVIOUS
    <3>2. CASE o = byHash[g]
      <4>1. o \in Known /\ Hash(o) = g
        BY <1>2, <3>1, <3>2 DEF Shape
      <4>2. Hash(o)' = g
        BY <1>4, <4>1
      <4> QED
        BY <3>1, <4>2 DEF Hash
    <3>3. CASE g = h /\ o = new
      <4>1. Hash(o)' = g
        BY <1>4, <3>3
      <4> QED
        BY <3>1, <4>1 DEF Hash
    <3> QED
      BY <1>7, <3>1, <3>2, <3>3
  <2>2. persistMedia' \in Seq(Known' \cup {None})
    BY <1>1, <1>2, <1>3 DEF Shape
  <2>3. /\ obj' \in [Handlers -> Known' \cup {None}]
        /\ pc' \in [Handlers -> {"idle", "work", "probe", "send", "post", "read", "write"}]
        /\ \A c \in Handlers : pc'[c] \notin {"idle", "send"} => obj'[c] # None
    BY <1>1, <1>2, <1>3 DEF Shape
  <2> QED
    BY <1>1, <1>2, <1>3, <1>7, <2>1, <2>2, <2>3 DEF Shape
<1>9. Queue' = Queue /\ Queue \subseteq Known /\ \A g : HasRow(g) => HasRow(g)'
  BY <1>1, <1>2, <1>4, Objects1 DEF Queue, HasRow
<1>10. FilesKept'
  <2>1. \A g \in Hashes : byHash'[g] # None => g \in Stored'
    BY <1>6, <1>7 DEF Inv, FilesKept
  <2>2. \A c \in Handlers : obj'[c] # None => Hash(obj[c])' \in Stored'
    <3> SUFFICES ASSUME NEW c \in Handlers, obj'[c] # None PROVE Hash(obj[c])' \in Stored'
      OBVIOUS
    <3>1. CASE c = u
      <4>1. obj'[c] = new /\ Hash(new)' \in Stored'
        BY <1>1, <1>2, <1>4, <1>6, <3>1 DEF Shape
      <4> QED
        BY <4>1 DEF Hash
    <3>2. CASE c # u
      <4>1. obj'[c] = obj[c] /\ obj[c] \in Known
        BY <1>1, <1>2, <3>2 DEF Shape
      <4> QED
        BY <1>4, <1>6, <4>1 DEF Inv, FilesKept
    <3> QED
      BY <3>1, <3>2
  <2>3. \A o \in Queue' : Hash(o)' \in Stored'
    BY <1>4, <1>6, <1>9 DEF Inv, FilesKept
  <2> QED
    BY <1>1, <1>6, <2>1, <2>2, <2>3 DEF Inv, FilesKept
<1>11. RowsFirst'
  <2>1. \A c \in Handlers : pc'[c] = "post" => c # u /\ pc[c] = "post" /\ obj'[c] = obj[c]
    BY <1>1, <1>2 DEF Shape
  <2>2. \A c \in Handlers : pc[c] = "post" => obj[c] \in Known
    <3> SUFFICES ASSUME NEW c \in Handlers, pc[c] = "post" PROVE obj[c] \in Known
      OBVIOUS
    <3>1. obj[c] \in Known \cup {None} /\ obj[c] # None
      BY <1>2 DEF Shape
    <3> QED
      BY <3>1
  <2>3. \A c \in Handlers : pc'[c] = "post" => HasRow(Hash(obj[c]))'
    BY <1>4, <1>9, <2>1, <2>2 DEF Inv, RowsFirst
  <2>4. \A o \in posted' : HasRow(Hash(o))'
    BY <1>1, <1>2, <1>4, <1>9 DEF Inv, RowsFirst, Shape
  <2> QED
    BY <2>3, <2>4 DEF RowsFirst
<1>12. ServedWhole'
  <2> SUFFICES ASSUME NEW v \in Viewers, pc'[v] = "write", v \notin lost',
                      Hash(obj[v])' \notin unfit' \cup removed'
               PROVE  obj'[v] \in full'
    BY DEF ServedWhole
  <2>1. v # u /\ v \in Handlers /\ pc[v] = "write" /\ obj'[v] = obj[v] /\ obj[v] \in Known
    BY <1>1, <1>2 DEF Shape, Handlers
  <2>2. v \notin lost /\ Hash(obj[v]) \notin unfit \cup removed
    BY <1>4, <1>5, <2>1
  <2>3. obj[v] \in full
    BY <2>1, <2>2 DEF Inv, ServedWhole
  <2>4. obj[v] \notin out
    BY <1>5, <2>1
  <2> QED
    BY <1>5, <2>1, <2>3, <2>4
<1> QED
  BY <1>8, <1>10, <1>11, <1>12 DEF Inv

\* A step that leaves the library, the queue and the table alone.
LEMMA Frame ==
  ASSUME Inv, UNCHANGED <<hashOf, byHash, blocked, disk, persistMedia, tx, rows, unfit, removed, posted>>,
         pc' \in [Handlers -> {"idle", "work", "probe", "send", "post", "read", "write"}],
         obj' \in [Handlers -> Known \cup {None}],
         \A c \in Handlers : pc'[c] \notin {"idle", "send"} => obj'[c] # None,
         \A c \in Handlers : obj'[c] # None => Hash(obj'[c]) \in Stored,
         \A c \in Handlers : pc'[c] = "post" => pc[c] = "post" /\ obj'[c] = obj[c]
  PROVE  Shape' /\ FilesKept' /\ RowsFirst' /\ Known' = Known /\ \A o : Hash(o)' = Hash(o)
<1>1. Known' = Known /\ Queue' = Queue /\ Stored' = Stored /\ \A o : Hash(o)' = Hash(o)
  BY DEF Known, Queue, Stored, Hash
<1>2. \A h : HasRow(h)' = HasRow(h)
  BY <1>1 DEF HasRow
<1>3. Shape'
  BY <1>1 DEF Inv, Shape
<1>4. FilesKept'
  BY <1>1 DEF Inv, FilesKept
<1>5. RowsFirst'
  BY <1>1, <1>2 DEF Inv, RowsFirst
<1> QED
  BY <1>1, <1>3, <1>4, <1>5

LEMMA ProbeInv == ASSUME Inv, NEW u \in Uploaders, StartProbe(u) \/ EndProbe(u) PROVE Inv'
<1>1. /\ UNCHANGED <<hashOf, byHash, full, blocked, posted, disk, persistMedia, tx, rows, unfit, removed, lost>>
      /\ \/ pc' = [pc EXCEPT ![u] = "probe"] /\ obj' = obj /\ pc[u] = "work"
         \/ pc' = [pc EXCEPT ![u] = "send"] /\ obj' \in {obj, [obj EXCEPT ![u] = None]} /\ pc[u] = "probe"
  BY DEF StartProbe, EndProbe, Goto, libVars, dbVars, histVars
<1>2. Shape /\ u \in Handlers
  BY DEF Inv, Handlers
<1>3. /\ pc' \in [Handlers -> {"idle", "work", "probe", "send", "post", "read", "write"}]
      /\ obj' \in [Handlers -> Known \cup {None}]
      /\ \A c \in Handlers : obj'[c] = obj[c] \/ obj'[c] = None
      /\ \A c \in Handlers : pc'[c] \notin {"idle", "send"} => obj'[c] # None
      /\ \A c \in Handlers : pc'[c] \in {"post", "write"} => pc[c] = pc'[c] /\ obj'[c] = obj[c]
  BY <1>1, <1>2 DEF Shape
<1>4. Shape' /\ FilesKept' /\ RowsFirst' /\ Known' = Known /\ \A o : Hash(o)' = Hash(o)
  BY <1>1, <1>3, Frame DEF Inv, FilesKept
<1>5. ServedWhole'
  BY <1>1, <1>3, <1>4 DEF Inv, ServedWhole, Handlers
<1> QED
  BY <1>4, <1>5 DEF Inv

LEMMA SendInv == ASSUME Inv, NEW u \in Uploaders, Send(u) PROVE Inv'
<1>1. /\ pc[u] = "send" /\ persistMedia' = Append(persistMedia, obj[u])
      /\ pc' = [pc EXCEPT ![u] = IF obj[u] = None THEN "idle" ELSE "post"]
      /\ UNCHANGED <<hashOf, byHash, full, blocked, posted, disk, tx, rows, obj, unfit, removed, lost>>
  BY DEF Send, Goto, libVars, histVars
<1>2. Shape /\ u \in Handlers
  BY DEF Inv, Handlers
<1>3. Known' = Known /\ Stored' = Stored /\ \A o : Hash(o)' = Hash(o)
  BY <1>1 DEF Known, Stored, Hash
<1>4. /\ persistMedia' \in Seq(Known \cup {None})
      /\ Queue' = Queue \cup ({obj[u]} \ {None})
  <2> DEFINE K == Known \cup {None}
  <2>1. persistMedia \in Seq(K) /\ obj[u] \in K
    BY <1>2 DEF Shape
  <2> HIDE DEF K
  <2>2. persistMedia' \in Seq(K) /\ ToSet(persistMedia') = ToSet(persistMedia) \cup {obj[u]}
    BY <1>1, <2>1, SetAppended
  <2> QED
    BY <2>2 DEF Queue, K
<1>5. \A h : HasRow(h) => HasRow(h)'
  BY <1>1, <1>3, <1>4 DEF HasRow
<1>6. obj[u] # None => HasRow(Hash(obj[u]))'
  <2>1. obj' = obj /\ hashOf' = hashOf
    BY <1>1
  <2>2. obj[u] # None => Hash(obj[u]) \in {Hash(o) : o \in Queue'}
    BY <1>4
  <2> QED
    BY <2>1, <2>2 DEF HasRow, Hash
<1>7. Shape'
  BY <1>1, <1>2, <1>3, <1>4 DEF Shape
<1>8. FilesKept'
  BY <1>1, <1>2, <1>3, <1>4 DEF Inv, FilesKept
<1>9. RowsFirst'
  BY <1>1, <1>2, <1>3, <1>5, <1>6 DEF Inv, RowsFirst, Shape
<1>10. ServedWhole'
  BY <1>1, <1>2, <1>3 DEF Inv, ServedWhole, Handlers, Shape
<1> QED
  BY <1>7, <1>8, <1>9, <1>10 DEF Inv

LEMMA PostInv == ASSUME Inv, NEW u \in Uploaders, Post(u) PROVE Inv'
<1>1. /\ pc[u] = "post" /\ posted' \in {posted, posted \cup {obj[u]}}
      /\ pc' = [pc EXCEPT ![u] = "idle"] /\ obj' = [obj EXCEPT ![u] = None]
      /\ UNCHANGED <<hashOf, byHash, full, blocked, disk, persistMedia, tx, rows, unfit, removed, lost>>
  BY DEF Post, Done, Goto, libVars, dbVars, histVars
<1>2. Shape /\ u \in Handlers /\ obj[u] \in Known
  BY <1>1 DEF Inv, Handlers, Shape
<1>3. Known' = Known /\ Queue' = Queue /\ Stored' = Stored /\ \A o : Hash(o)' = Hash(o)
  BY <1>1 DEF Known, Queue, Stored, Hash
<1>4. \A h : HasRow(h)' = HasRow(h)
  BY <1>1, <1>3 DEF HasRow
<1>5. \A c \in Handlers : c # u => pc'[c] = pc[c] /\ obj'[c] = obj[c]
  BY <1>1, <1>2 DEF Shape
<1>6. pc'[u] = "idle" /\ obj'[u] = None
  BY <1>1, <1>2 DEF Shape
<1>7. Shape'
  BY <1>1, <1>2, <1>3 DEF Shape
<1>8. FilesKept'
  BY <1>1, <1>3, <1>5, <1>6 DEF Inv, FilesKept
<1>9. RowsFirst'
  <2>1. \A c \in Handlers : pc'[c] = "post" => HasRow(Hash(obj[c]))'
    BY <1>3, <1>4, <1>5, <1>6 DEF Inv, RowsFirst
  <2>2. HasRow(Hash(obj[u]))
    BY <1>1, <1>2 DEF Inv, RowsFirst
  <2>3. \A o \in posted' : HasRow(Hash(o))'
    BY <1>1, <1>3, <1>4, <2>2 DEF Inv, RowsFirst
  <2> QED
    BY <2>1, <2>3 DEF RowsFirst
<1>10. ServedWhole'
  BY <1>1, <1>3, <1>5, <1>6 DEF Inv, ServedWhole, Handlers
<1> QED
  BY <1>7, <1>8, <1>9, <1>10 DEF Inv

-----------------------------------------------------------------------------
(* Requests, and Block                                                     *)

LEMMA LookupInv == ASSUME Inv, NEW v \in Viewers, NEW h \in Hashes, Lookup(v, h) PROVE Inv'
<1>1. /\ pc[v] = "idle" /\ byHash[h] # None
      /\ obj' = [obj EXCEPT ![v] = byHash[h]] /\ pc' = [pc EXCEPT ![v] = "read"]
      /\ UNCHANGED <<hashOf, byHash, full, blocked, posted, disk, persistMedia, tx, rows, unfit, removed, lost>>
  BY DEF Lookup, Goto, libVars, dbVars, histVars
<1>2. Shape /\ v \in Handlers /\ byHash[h] \in Known /\ Hash(byHash[h]) = h /\ h \in Stored
  BY <1>1 DEF Inv, Handlers, Shape, FilesKept
<1>3. /\ \A c \in Handlers : c # v => pc'[c] = pc[c] /\ obj'[c] = obj[c]
      /\ pc'[v] = "read" /\ obj'[v] = byHash[h]
      /\ pc' \in [Handlers -> {"idle", "work", "probe", "send", "post", "read", "write"}]
      /\ obj' \in [Handlers -> Known \cup {None}]
  BY <1>1, <1>2 DEF Shape
<1>4. \A c \in Handlers : pc'[c] \notin {"idle", "send"} => obj'[c] # None
  BY <1>1, <1>2, <1>3 DEF Shape
<1>5. \A c \in Handlers : obj'[c] # None => Hash(obj'[c]) \in Stored
  BY <1>2, <1>3 DEF Inv, FilesKept
<1>6. Shape' /\ FilesKept' /\ RowsFirst' /\ Known' = Known /\ \A o : Hash(o)' = Hash(o)
  BY <1>1, <1>3, <1>4, <1>5, Frame
<1>7. ServedWhole'
  BY <1>1, <1>3, <1>6 DEF Inv, ServedWhole, Handlers
<1> QED
  BY <1>6, <1>7 DEF Inv

LEMMA ReadInv == ASSUME Inv, NEW v \in Viewers, ReadFromDisk(v) PROVE Inv'
<1>1. /\ pc[v] = "read" /\ pc' = [pc EXCEPT ![v] = "write"]
      /\ full' = IF Hash(obj[v]) \in disk THEN full \cup {obj[v]} ELSE full
      /\ UNCHANGED <<hashOf, byHash, blocked, posted, disk, persistMedia, tx, rows, obj, unfit, removed, lost>>
  BY DEF ReadFromDisk, Goto, libVars, dbVars
<1>2. Shape /\ v \in Handlers /\ obj[v] # None /\ obj[v] \in Known
  BY <1>1 DEF Inv, Handlers, Shape
<1>3. /\ \A c \in Handlers : c # v => pc'[c] = pc[c]
      /\ pc'[v] = "write" /\ pc[v] = "read"
      /\ pc' \in [Handlers -> {"idle", "work", "probe", "send", "post", "read", "write"}]
      /\ obj' \in [Handlers -> Known \cup {None}]
  BY <1>1, <1>2 DEF Shape
<1>4. \A c \in Handlers : pc'[c] \notin {"idle", "send"} => obj'[c] # None
  BY <1>1, <1>2, <1>3 DEF Shape
<1>5. \A c \in Handlers : obj[c] # None => Hash(obj[c]) \in Stored
  BY DEF Inv, FilesKept
<1>6. Shape' /\ FilesKept' /\ RowsFirst' /\ Known' = Known /\ \A o : Hash(o)' = Hash(o)
  BY <1>1, <1>3, <1>4, <1>5, Frame
<1>7. ServedWhole'
  <2> SUFFICES ASSUME NEW w \in Viewers, pc'[w] = "write", w \notin lost,
                      Hash(obj[w]) \notin unfit \cup removed
               PROVE  obj[w] \in full'
    BY <1>1, <1>6 DEF ServedWhole
  <2>1. CASE w = v
    BY <1>1, <1>2, <1>5, <2>1 DEF Stored
  <2>2. CASE w # v
    BY <1>1, <1>3, <2>2 DEF Inv, ServedWhole, Handlers
  <2> QED
    BY <2>1, <2>2
<1> QED
  BY <1>6, <1>7 DEF Inv

LEMMA WriteInv == ASSUME Inv, NEW v \in Viewers, Write(v) PROVE Inv'
<1>1. /\ pc[v] = "write" /\ lost' = lost \ {v}
      /\ pc' = [pc EXCEPT ![v] = "idle"] /\ obj' = [obj EXCEPT ![v] = None]
      /\ UNCHANGED <<hashOf, byHash, full, blocked, posted, disk, persistMedia, tx, rows, unfit, removed>>
  BY DEF Write, Done, Goto, libVars, dbVars
<1>2. Shape /\ v \in Handlers
  BY DEF Inv, Handlers
<1>3. /\ \A c \in Handlers : c # v => pc'[c] = pc[c] /\ obj'[c] = obj[c]
      /\ pc'[v] = "idle" /\ obj'[v] = None
      /\ pc' \in [Handlers -> {"idle", "work", "probe", "send", "post", "read", "write"}]
      /\ obj' \in [Handlers -> Known \cup {None}]
  BY <1>1, <1>2 DEF Shape
<1>4. \A c \in Handlers : pc'[c] \notin {"idle", "send"} => obj'[c] # None
  BY <1>2, <1>3 DEF Shape
<1>5. \A c \in Handlers : obj'[c] # None => Hash(obj'[c]) \in Stored
  BY <1>3 DEF Inv, FilesKept
<1>6. Shape' /\ FilesKept' /\ RowsFirst' /\ Known' = Known /\ \A o : Hash(o)' = Hash(o)
  BY <1>1, <1>3, <1>4, <1>5, Frame
<1>7. ServedWhole'
  BY <1>1, <1>3, <1>6 DEF Inv, ServedWhole, Handlers
<1> QED
  BY <1>6, <1>7 DEF Inv

LEMMA BlockInv == ASSUME Inv, NEW o \in Objects, Block(o) PROVE Inv'
<1>1. /\ o \in posted /\ disk' = disk \ {Hash(o)} /\ removed' = removed \cup {Hash(o)}
      /\ full' = full \ {o} /\ blocked' = blocked \cup {o}
      /\ lost' = lost \cup {v \in Viewers : pc[v] = "write" /\ obj[v] \in {o}}
      /\ UNCHANGED <<hashOf, byHash, posted, persistMedia, tx, rows, pc, obj, unfit>>
  BY DEF Block, Emptied, libVars, dbVars
<1>2. Shape /\ o \in Known
  BY <1>1 DEF Inv, Shape
<1>3. Known' = Known /\ Queue' = Queue /\ Stored' \in {Stored \cup {Hash(o)}} /\ \A q : Hash(q)' = Hash(q)
  BY <1>1 DEF Known, Queue, Stored, Hash
<1>4. \A h : HasRow(h)' = HasRow(h)
  BY <1>1, <1>3 DEF HasRow
<1>5. Shape'
  BY <1>1, <1>2, <1>3 DEF Shape
<1>6. FilesKept'
  BY <1>1, <1>3 DEF Inv, FilesKept
<1>7. RowsFirst'
  BY <1>1, <1>3, <1>4 DEF Inv, RowsFirst
<1>8. ServedWhole'
  BY <1>1, <1>3 DEF Inv, ServedWhole
<1> QED
  BY <1>5, <1>6, <1>7, <1>8 DEF Inv

-----------------------------------------------------------------------------
(* The dump loop, and the next start                                       *)

\* A row on its way goes on, and a row is there for good.
LEMMA DumpInv == ASSUME Inv, Wake \/ InsertMedia \/ Commit PROVE Inv'
<1>1. UNCHANGED <<hashOf, byHash, full, blocked, posted, disk, pc, obj, unfit, removed, lost>>
  BY DEF Wake, InsertMedia, Commit, libVars, histVars
<1>2. Known' = Known /\ Stored' = Stored /\ \A o : Hash(o)' = Hash(o)
  BY <1>1 DEF Known, Stored, Hash
<1>3. /\ persistMedia' \in Seq(Known \cup {None}) /\ Queue' \subseteq Queue
      /\ tx' \cup rows' \subseteq tx \cup rows \cup {Hash(o) : o \in Queue}
      /\ \A h : HasRow(h) => HasRow(h)'
  <2>1. CASE Wake
    BY <1>2, <2>1 DEF Wake, Queue, HasRow, Inv, Shape
  <2>2. CASE InsertMedia
    <3> DEFINE q == Head(persistMedia)
               K == Known \cup {None}
    <3>1. /\ persistMedia # <<>> /\ q # None /\ persistMedia' = Tail(persistMedia)
          /\ tx' = tx \cup {Hash(q)} /\ rows' = rows
      BY <2>2 DEF InsertMedia
    <3>2. persistMedia \in Seq(K)
      BY DEF Inv, Shape
    <3> HIDE DEF K
    <3>3. persistMedia' \in Seq(K) /\ ToSet(persistMedia) = {q} \cup ToSet(persistMedia')
      BY <3>1, <3>2, SetTaken
    <3>4. Queue = {q} \cup Queue'
      BY <3>1, <3>3 DEF Queue
    <3>5. \A h : HasRow(h) => HasRow(h)'
      BY <1>2, <3>1, <3>4 DEF HasRow
    <3> QED
      BY <3>1, <3>3, <3>4, <3>5 DEF K
  <2>3. CASE Commit
    BY <1>2, <2>3 DEF Commit, Queue, HasRow, Inv, Shape
  <2> QED
    BY <2>1, <2>2, <2>3
<1>4. Queue \subseteq Known /\ \A o \in Queue : Hash(o) \in Hashes
  BY Objects1 DEF Inv
<1>5. Shape'
  BY <1>1, <1>2, <1>3, <1>4 DEF Inv, Shape
<1>6. FilesKept'
  BY <1>1, <1>2, <1>3 DEF Inv, FilesKept
<1>7. RowsFirst'
  BY <1>1, <1>2, <1>3 DEF Inv, RowsFirst
<1>8. ServedWhole'
  BY <1>1, <1>2 DEF Inv, ServedWhole
<1> QED
  BY <1>5, <1>6, <1>7, <1>8 DEF Inv

LEMMA NewStartInv == ASSUME Inv, NewStart PROVE Inv'
<1>1. /\ byHash' = [h \in Hashes |-> IF h \in rows THEN h ELSE None]
      /\ full' = {} /\ blocked' \subseteq rows
      /\ posted' \in SUBSET (rows \cap {Hash(o) : o \in posted})
      /\ persistMedia' = <<>> /\ tx' = {}
      /\ pc' = [c \in Handlers |-> "idle"] /\ obj' = [c \in Handlers |-> None]
      /\ UNCHANGED <<hashOf, disk, rows, unfit, removed>>
  BY DEF NewStart
<1>2. Known' = Known /\ Stored' = Stored /\ \A o : Hash(o)' = Hash(o)
  BY <1>1 DEF Known, Stored, Hash
<1>3. Queue' = {}
  BY <1>1 DEF Queue, ToSet
<1>4. \A h \in Hashes : Hash(h) = h
  BY DEF Hash
<1>5. rows \subseteq Hashes /\ rows \subseteq Stored /\ Hashes \subseteq Known
  BY DEF Inv, Shape, FilesKept, Known
<1>6. Shape'
  <2>1. byHash' \in [Hashes -> Known \cup {None}]
    BY <1>1, <1>5
  <2>2. \A h \in Hashes : byHash'[h] # None => Hash(byHash'[h]) = h
    BY <1>1, <1>4
  <2> QED
    BY <1>1, <1>2, <1>5, <2>1, <2>2 DEF Inv, Shape
<1>7. FilesKept'
  BY <1>1, <1>2, <1>3, <1>5 DEF FilesKept
<1>8. RowsFirst'
  <2>1. \A o \in posted' : o \in rows /\ Hash(o) = o
    BY <1>1, <1>4, <1>5
  <2> QED
    BY <1>1, <1>2, <2>1 DEF RowsFirst, HasRow
<1>9. ServedWhole'
  BY <1>1 DEF ServedWhole, Handlers
<1> QED
  BY <1>6, <1>7, <1>8, <1>9 DEF Inv

LEMMA StepInv == Inv /\ [Next]_vars => Inv'
<1> SUFFICES ASSUME Inv, [Next]_vars PROVE Inv'
  OBVIOUS
<1>1. CASE UNCHANGED vars
  <2>1. /\ UNCHANGED <<hashOf, byHash, full, blocked, posted, disk, persistMedia, tx, rows>>
        /\ UNCHANGED <<pc, obj, unfit, removed, lost>>
    BY <1>1 DEF vars, libVars, dbVars, histVars
  <2>2. Shape' /\ FilesKept' /\ RowsFirst' /\ \A o : Hash(o)' = Hash(o)
    BY <2>1, Frame DEF Inv, Shape, FilesKept
  <2>3. ServedWhole'
    BY <2>1, <2>2 DEF Inv, ServedWhole
  <2> QED
    BY <2>2, <2>3 DEF Inv
<1>2. CASE \E u \in Uploaders, h \in Hashes : Upload(u, h)
  BY <1>2, UploadInv
<1>3. CASE \E u \in Uploaders : Uploading(u)
  BY <1>3, ProbeInv, SendInv, PostInv DEF Uploading
<1>4. CASE \E v \in Viewers, h \in Hashes : Lookup(v, h)
  BY <1>4, LookupInv
<1>5. CASE \E v \in Viewers : Viewing(v)
  BY <1>5, ReadInv, WriteInv DEF Viewing
<1>6. CASE \E o \in Objects : Block(o)
  BY <1>6, BlockInv
<1>7. CASE Dumper \/ Restart
  BY <1>7, DumpInv, NewStartInv DEF Dumper, Restart, InsertNil
<1> QED
  BY <1>1, <1>2, <1>3, <1>4, <1>5, <1>6, <1>7 DEF Next

(* Whoever asks for media is written all of it, unless the file was        *)
(* removed, there was no room for it, or it was emptied while he waited.   *)
THEOREM MediaServedWhole == Spec => []ServedWhole
<1>1. Inv => ServedWhole
  BY DEF Inv
<1> QED
  BY InitInv, StepInv, <1>1, PTL DEF Spec

(* The media of a post has a row, or is in the queue before the post.      *)
THEOREM PostsHaveMedia == Spec => []MediaAgree
<1>1. Inv => MediaAgree
  BY DEF Inv, RowsFirst, HasRow, Queue, MediaAgree
<1> QED
  BY InitInv, StepInv, <1>1, PTL DEF Spec

-----------------------------------------------------------------------------
(* Sums                                                                    *)

LEMMA NatSetInduction ==
  ASSUME NEW T, 0 \in T, \A n \in Nat : n \in T => n + 1 \in T
  PROVE  Nat \subseteq T
<1> SUFFICES ASSUME Nat \ T # {} PROVE FALSE
  OBVIOUS
<1>1. PICK x \in Nat \ T : \A y \in Nat \ T : ~(<<y, x>> \in OpToRel(<, Nat))
  BY WFMin, NatLessThanWellFounded
<1>2. x # 0 /\ x - 1 \in Nat
  OBVIOUS
<1>3. x - 1 \in T
  <2> SUFFICES ASSUME x - 1 \notin T PROVE FALSE
    OBVIOUS
  <2>1. <<x - 1, x>> \in OpToRel(<, Nat)
    BY <1>2 DEF OpToRel
  <2> QED
    BY <2>1, <1>1, <1>2
<1> QED
  BY <1>2, <1>3

\* The sums of the first numbers of ns.
Partial(f, ns) ==
  /\ f \in [0 .. Len(ns) -> Int] /\ f[0] = 0
  /\ \A i \in 1 .. Len(ns) : f[i] = f[i - 1] + ns[i]

LEMMA PartialExists ==
  ASSUME NEW ns \in Seq(Nat)
  PROVE  \E f \in [0 .. Len(ns) -> Nat] : Partial(f, ns)
<1> DEFINE n == Len(ns)
           Upto(f, m) == /\ f \in [0 .. m -> Nat] /\ f[0] = 0
                         /\ \A i \in 1 .. m : f[i] = f[i - 1] + ns[i]
           T == {m \in Nat : m <= n => \E f : Upto(f, m)}
<1>0. n \in Nat /\ \A i \in 1 .. n : ns[i] \in Nat
  OBVIOUS
<1> HIDE DEF n
<1>1. 0 \in T
  <2>1. Upto([i \in 0 .. 0 |-> 0], 0)
    OBVIOUS
  <2> QED
    BY <2>1
<1>2. ASSUME NEW m \in Nat, m \in T PROVE m + 1 \in T
  <2> SUFFICES ASSUME m + 1 <= n PROVE \E f : Upto(f, m + 1)
    <3>1. m + 1 \in Nat
      OBVIOUS
    <3> HIDE DEF Upto
    <3> QED
      BY <3>1
  <2>0. m <= n /\ m + 1 \in 1 .. n
    BY <1>0
  <2>1. PICK f : Upto(f, m)
    BY <1>2, <2>0
  <2> DEFINE g == [i \in 0 .. m + 1 |-> IF i = m + 1 THEN f[m] + ns[m + 1] ELSE f[i]]
  <2>2. f[m] \in Nat /\ ns[m + 1] \in Nat
    BY <1>0, <2>0, <2>1
  <2>3. g \in [0 .. m + 1 -> Nat] /\ g[0] = 0
    BY <2>1, <2>2
  <2>4. ASSUME NEW i \in 1 .. m + 1 PROVE g[i] = g[i - 1] + ns[i]
    <3>1. CASE i = m + 1
      <4>1. g[i] = f[m] + ns[m + 1] /\ g[i - 1] = f[m]
        BY <3>1
      <4> QED
        BY <3>1, <4>1
    <3>2. CASE i # m + 1
      <4>1. i \in 1 .. m /\ g[i] = f[i] /\ g[i - 1] = f[i - 1]
        BY <3>2
      <4> QED
        BY <4>1, <2>1
    <3> QED
      BY <3>1, <3>2
  <2>5. Upto(g, m + 1)
    BY <2>3, <2>4
  <2> QED
    BY <2>5
<1>3. n \in T
  <2> HIDE DEF T
  <2> QED
    BY <1>0, <1>1, <1>2, NatSetInduction
<1>4. PICK f : Upto(f, n)
  BY <1>0, <1>3
<1> QED
  BY <1>4 DEF Partial, n

LEMMA TotalIs ==
  ASSUME NEW ns \in Seq(Nat), NEW f, Partial(f, ns)
  PROVE  Total(ns) = f[Len(ns)]
<1> DEFINE n == Len(ns)
           Q(g) == g = [i \in 0 .. n |-> IF i = 0 THEN 0 ELSE g[i - 1] + ns[i]]
           sum == CHOOSE g : Q(g)
<1>1. n \in Nat /\ f[0] = 0 /\ \A i \in 1 .. n : f[i] = f[i - 1] + ns[i]
  BY DEF Partial
<1>2. Q(f)
  <2>1. f = [i \in 0 .. n |-> f[i]]
    BY DEF Partial
  <2>2. ASSUME NEW i \in 0 .. n PROVE f[i] = IF i = 0 THEN 0 ELSE f[i - 1] + ns[i]
    <3>1. CASE i = 0
      BY <1>1, <3>1
    <3>2. CASE i # 0
      <4>1. i \in 1 .. n
        BY <1>1, <3>2
      <4> QED
        BY <1>1, <3>2, <4>1
    <3> QED
      BY <3>1, <3>2
  <2> QED
    BY <2>1, <2>2, Zenon
<1>3. Q(sum)
  <2> HIDE DEF Q
  <2> QED
    BY <1>2
<1>4. Total(ns) = sum[n]
  BY DEF Total
<1>5. sum[0] = 0 /\ \A i \in 1 .. n : sum[i] = sum[i - 1] + ns[i]
  <2> HIDE DEF sum, n
  <2>1. 0 \in 0 .. n /\ \A i \in 1 .. n : i \in 0 .. n /\ i # 0
    BY <1>1
  <2>2. \A i \in 0 .. n : sum[i] = IF i = 0 THEN 0 ELSE sum[i - 1] + ns[i]
    BY <1>3, Zenon
  <2> QED
    BY <2>1, <2>2
<1> HIDE DEF sum
<1> DEFINE T == {m \in Nat : m <= n => sum[m] = f[m]}
<1>6. 0 \in T
  BY <1>1, <1>5
<1>7. ASSUME NEW m \in Nat, m \in T PROVE m + 1 \in T
  <2> SUFFICES ASSUME m + 1 <= n PROVE sum[m + 1] = f[m + 1]
    OBVIOUS
  <2>1. m + 1 \in 1 .. n /\ (m + 1) - 1 = m /\ sum[m] = f[m]
    BY <1>1, <1>7
  <2> QED
    BY <1>1, <1>5, <2>1
<1>8. n \in T
  <2> HIDE DEF T
  <2> QED
    BY <1>1, <1>6, <1>7, NatSetInduction
<1> QED
  BY <1>1, <1>4, <1>8

LEMMA TotalNat == ASSUME NEW ns \in Seq(Nat) PROVE Total(ns) \in Nat
<1>1. PICK f \in [0 .. Len(ns) -> Nat] : Partial(f, ns)
  BY PartialExists
<1>2. f[Len(ns)] \in Nat
  OBVIOUS
<1> QED
  BY <1>1, <1>2, TotalIs

LEMMA TotalEmpty == Total(<<>>) = 0
<1> DEFINE f == [i \in 0 .. 0 |-> 0]
<1>1. Partial(f, <<>>) /\ <<>> \in Seq(Nat) /\ Len(<<>>) = 0 /\ f[0] = 0
  BY DEF Partial
<1> HIDE DEF f
<1> QED
  BY <1>1, TotalIs

LEMMA TotalAppend ==
  ASSUME NEW ns \in Seq(Nat), NEW x \in Nat
  PROVE  Total(Append(ns, x)) = Total(ns) + x
<1> DEFINE n == Len(ns)
           ms == Append(ns, x)
<1>1. PICK f \in [0 .. n -> Nat] : Partial(f, ns)
  BY PartialExists
<1> DEFINE g == [i \in 0 .. n + 1 |-> IF i = n + 1 THEN f[n] + x ELSE f[i]]
<1>2. n \in Nat /\ ms \in Seq(Nat) /\ Len(ms) = n + 1 /\ ms[n + 1] = x /\ \A i \in 1 .. n : ms[i] = ns[i]
  OBVIOUS
<1>3. f[n] \in Nat /\ f[0] = 0 /\ \A i \in 1 .. n : f[i] = f[i - 1] + ns[i]
  BY <1>1, <1>2 DEF Partial
<1>4. g \in [0 .. n + 1 -> Int] /\ g[0] = 0 /\ g[n + 1] = f[n] + x
  BY <1>1, <1>2, <1>3
<1>5. ASSUME NEW i \in 1 .. n + 1 PROVE g[i] = g[i - 1] + ms[i]
  <2>1. CASE i = n + 1
    <3>1. g[i] = f[n] + x /\ g[i - 1] = f[n] /\ ms[i] = x
      BY <1>2, <2>1
    <3> QED
      BY <3>1
  <2>2. CASE i # n + 1
    <3>1. i \in 1 .. n /\ g[i] = f[i] /\ g[i - 1] = f[i - 1]
      BY <1>2, <2>2
    <3> QED
      BY <1>2, <1>3, <3>1
  <2> QED
    BY <2>1, <2>2
<1> HIDE DEF ms
<1>6. Partial(g, ms)
  <2> HIDE DEF g
  <2> QED
    BY <1>2, <1>4, <1>5 DEF Partial
<1> HIDE DEF g
<1>7. Total(ms) = g[n + 1]
  BY <1>2, <1>6, TotalIs
<1>8. Total(ns) = f[n]
  BY <1>1, TotalIs
<1> QED
  BY <1>4, <1>7, <1>8 DEF ms

LEMMA TotalSplit ==
  ASSUME NEW ns \in Seq(Nat), NEW k \in 0 .. Len(ns)
  PROVE  Total(ns) = Total(SubSeq(ns, 1, k)) + Total(SubSeq(ns, k + 1, Len(ns)))
<1> DEFINE n == Len(ns)
           as == SubSeq(ns, 1, k)
           bs == SubSeq(ns, k + 1, n)
<1>1. PICK f \in [0 .. n -> Nat] : Partial(f, ns)
  BY PartialExists
<1>2. n \in Nat /\ k \in Nat /\ k <= n /\ n - k \in Nat
  OBVIOUS
<1>3. /\ as \in Seq(Nat) /\ Len(as) = k /\ \A i \in 1 .. k : as[i] = ns[i]
      /\ bs \in Seq(Nat) /\ Len(bs) = n - k /\ \A i \in 1 .. n - k : bs[i] = ns[k + i]
  OBVIOUS
<1>4. f[0] = 0 /\ \A i \in 1 .. n : f[i] = f[i - 1] + ns[i]
  BY <1>1 DEF Partial
<1>5. \A i \in 0 .. n : f[i] \in Int
  BY <1>1
<1> HIDE DEF n, as, bs
<1> DEFINE g == [i \in 0 .. k |-> f[i]]
           d == [i \in 0 .. n - k |-> f[k + i] - f[k]]
<1>6. Partial(g, as)
  <2>1. g \in [0 .. k -> Int] /\ g[0] = 0
    BY <1>2, <1>4, <1>5
  <2>2. ASSUME NEW i \in 1 .. k PROVE g[i] = g[i - 1] + as[i]
    <3>1. i \in 1 .. n /\ g[i] = f[i] /\ g[i - 1] = f[i - 1]
      BY <1>2
    <3> QED
      BY <1>3, <1>4, <3>1
  <2> HIDE DEF g
  <2> QED
    BY <1>3, <2>1, <2>2 DEF Partial
<1>7. Partial(d, bs)
  <2>1. d \in [0 .. n - k -> Int]
    <3>1. \A i \in 0 .. n - k : k + i \in 0 .. n
      BY <1>2
    <3>2. f[k] \in Int
      BY <1>2, <1>5
    <3> QED
      BY <1>5, <3>1, <3>2
  <2>2. d[0] = 0
    <3>1. d[0] = f[k + 0] - f[k] /\ k + 0 = k /\ f[k] \in Int
      BY <1>2, <1>5
    <3> QED
      BY <3>1
  <2>3. ASSUME NEW i \in 1 .. n - k PROVE d[i] = d[i - 1] + bs[i]
    <3>1. /\ k + i \in 1 .. n /\ (k + i) - 1 = k + (i - 1)
          /\ d[i] = f[k + i] - f[k] /\ d[i - 1] = f[k + (i - 1)] - f[k]
      BY <1>2
    <3>2. f[k + i] = f[k + (i - 1)] + bs[i]
      BY <1>3, <1>4, <3>1
    <3>3. f[k + (i - 1)] \in Int /\ f[k] \in Int /\ bs[i] \in Int
      <4>1. k + (i - 1) \in 0 .. n /\ k \in 0 .. n
        BY <1>2
      <4>2. bs[i] \in Int
        BY <1>3
      <4> QED
        BY <1>5, <4>1, <4>2
    <3> QED
      BY <3>1, <3>2, <3>3
  <2> HIDE DEF d
  <2> QED
    BY <1>3, <2>1, <2>2, <2>3 DEF Partial
<1>8. g[k] = f[k] /\ d[n - k] = f[n] - f[k]
  <2>1. k + (n - k) = n
    BY <1>2
  <2> QED
    BY <1>2, <2>1
<1> HIDE DEF g, d
<1>9. Total(as) = f[k] /\ Total(bs) = f[n] - f[k]
  BY <1>3, <1>6, <1>7, <1>8, TotalIs
<1>10. Total(ns) = f[n] /\ f[n] \in Int /\ f[k] \in Int
  BY <1>1, <1>2, <1>5, TotalIs DEF n
<1> QED
  BY <1>9, <1>10 DEF n, as, bs

LEMMA Least ==
  ASSUME NEW T \in SUBSET Nat, T # {}
  PROVE  \E x \in T : \A y \in T : x <= y
<1>1. PICK x \in T : \A y \in T : ~(<<y, x>> \in OpToRel(<, Nat))
  BY WFMin, NatLessThanWellFounded
<1>2. \A y \in T : ~(y < x)
  BY <1>1 DEF OpToRel
<1> QED
  BY <1>2

-----------------------------------------------------------------------------
(* The accounts of the library                                             *)

LEMMA Parts ==
  ASSUME NEW S, NEW s \in Seq(S), NEW k \in 0 .. Len(s)
  PROVE  LET out  == SubSeq(s, 1, k)
             rest == SubSeq(s, k + 1, Len(s))
         IN  /\ out \in Seq(S) /\ rest \in Seq(S)
             /\ ToSet(s) = ToSet(out) \cup ToSet(rest)
             /\ IsInjective(s) => IsInjective(rest)
<1> DEFINE n == Len(s)
           out == SubSeq(s, 1, k)
           rest == SubSeq(s, k + 1, n)
<1>1. /\ n \in Nat /\ k \in 0 .. n /\ DOMAIN s = 1 .. n
      /\ out \in Seq(S) /\ DOMAIN out = 1 .. k /\ \A i \in 1 .. k : out[i] = s[i]
      /\ rest \in Seq(S) /\ DOMAIN rest = 1 .. n - k /\ \A i \in 1 .. n - k : rest[i] = s[k + i]
  OBVIOUS
<1> HIDE DEF n, out, rest
<1>2. ToSet(out) \subseteq ToSet(s)
  <2>1. \A i \in 1 .. k : i \in 1 .. n
    BY <1>1
  <2> QED
    BY <1>1, <2>1 DEF ToSet
<1>3. ToSet(rest) \subseteq ToSet(s)
  <2>1. \A i \in 1 .. n - k : k + i \in 1 .. n
    BY <1>1
  <2> QED
    BY <1>1, <2>1 DEF ToSet
<1>4. ToSet(s) \subseteq ToSet(out) \cup ToSet(rest)
  <2> SUFFICES ASSUME NEW i \in 1 .. n PROVE s[i] \in ToSet(out) \cup ToSet(rest)
    BY <1>1 DEF ToSet
  <2>1. CASE i <= k
    <3>1. i \in 1 .. k
      BY <1>1, <2>1
    <3> QED
      BY <1>1, <3>1 DEF ToSet
  <2>2. CASE ~(i <= k)
    <3>1. i - k \in 1 .. n - k /\ k + (i - k) = i
      BY <1>1, <2>2
    <3>2. rest[i - k] = s[i]
      BY <1>1, <3>1
    <3> QED
      BY <1>1, <3>1, <3>2 DEF ToSet
  <2> QED
    BY <2>1, <2>2
<1>5. ASSUME IsInjective(s) PROVE IsInjective(rest)
  <2> SUFFICES ASSUME NEW i \in 1 .. n - k, NEW j \in 1 .. n - k, rest[i] = rest[j] PROVE i = j
    BY <1>1 DEF IsInjective
  <2>1. k + i \in 1 .. n /\ k + j \in 1 .. n /\ s[k + i] = s[k + j]
    BY <1>1
  <2>2. k + i = k + j
    BY <1>1, <1>5, <2>1 DEF IsInjective
  <2> QED
    BY <1>1, <2>2
<1> QED
  BY <1>1, <1>2, <1>3, <1>4, <1>5 DEF n, out, rest

Sizes(os) == [i \in DOMAIN os |-> Size[Hash(os[i])]]

LEMMA SizesAre ==
  ASSUME Shape, NEW os \in Seq(Known)
  PROVE  /\ Sizes(os) \in Seq(Nat) /\ Len(Sizes(os)) = Len(os)
         /\ Bytes(os) = Total(Sizes(os)) /\ Bytes(os) \in Nat
<1>1. \A o \in Known : Size[Hash(o)] \in Nat
  BY Objects1, MediaAssumption
<1>2. DOMAIN os = 1 .. Len(os) /\ Len(os) \in Nat /\ \A i \in 1 .. Len(os) : os[i] \in Known
  OBVIOUS
<1>3. Sizes(os) \in [1 .. Len(os) -> Nat]
  BY <1>1, <1>2 DEF Sizes
<1>4. Sizes(os) \in Seq(Nat) /\ Len(Sizes(os)) = Len(os)
  BY <1>2, <1>3
<1>5. Bytes(os) = Total(Sizes(os))
  BY DEF Bytes, Sizes
<1> QED
  BY <1>4, <1>5, TotalNat

LEMMA BytesSplit ==
  ASSUME Shape, NEW os \in Seq(Known), NEW k \in 0 .. Len(os)
  PROVE  Bytes(os) = Bytes(SubSeq(os, 1, k)) + Bytes(SubSeq(os, k + 1, Len(os)))
<1> DEFINE n == Len(os)
           ns == Sizes(os)
           out == SubSeq(os, 1, k)
           rest == SubSeq(os, k + 1, n)
<1>1. /\ n \in Nat /\ k \in 0 .. n /\ DOMAIN os = 1 .. n
      /\ out \in Seq(Known) /\ DOMAIN out = 1 .. k /\ \A i \in 1 .. k : out[i] = os[i]
      /\ rest \in Seq(Known) /\ DOMAIN rest = 1 .. n - k /\ \A i \in 1 .. n - k : rest[i] = os[k + i]
  OBVIOUS
<1>2. ns \in Seq(Nat) /\ Len(ns) = n /\ Bytes(os) = Total(ns)
  BY SizesAre
<1>3. \A i \in 1 .. n : ns[i] = Size[Hash(os[i])]
  BY <1>1 DEF Sizes
<1> HIDE DEF n, ns, out, rest
<1>4. SubSeq(ns, 1, k) = Sizes(out)
  <2>1. SubSeq(ns, 1, k) = [i \in 1 .. k |-> ns[i]]
    BY <1>1, <1>2
  <2>2. Sizes(out) = [i \in 1 .. k |-> Size[Hash(os[i])]]
    BY <1>1 DEF Sizes
  <2>3. \A i \in 1 .. k : i \in 1 .. n
    BY <1>1
  <2> QED
    BY <1>3, <2>1, <2>2, <2>3
<1>5. SubSeq(ns, k + 1, n) = Sizes(rest)
  <2>1. SubSeq(ns, k + 1, n) = [i \in 1 .. n - k |-> ns[k + i]]
    BY <1>1, <1>2
  <2>2. Sizes(rest) = [i \in 1 .. n - k |-> Size[Hash(os[k + i])]]
    BY <1>1 DEF Sizes
  <2>3. \A i \in 1 .. n - k : k + i \in 1 .. n
    BY <1>1
  <2> QED
    BY <1>3, <2>1, <2>2, <2>3
<1>6. Total(ns) = Total(SubSeq(ns, 1, k)) + Total(SubSeq(ns, k + 1, n))
  BY <1>1, <1>2, TotalSplit
<1>7. Bytes(out) = Total(Sizes(out)) /\ Bytes(rest) = Total(Sizes(rest))
  BY <1>1, SizesAre
<1> QED
  BY <1>2, <1>4, <1>5, <1>6, <1>7 DEF n, out, rest

LEMMA BytesEmpty == Bytes(<<>>) = 0
<1>1. [i \in DOMAIN <<>> |-> Size[Hash(<<>>[i])]] = <<>>
  OBVIOUS
<1> QED
  BY <1>1, TotalEmpty DEF Bytes

LEMMA BytesAppend ==
  ASSUME Shape, NEW os \in Seq(Known), NEW o \in Known
  PROVE  Bytes(Append(os, o)) = Bytes(os) + Size[Hash(o)]
<1> DEFINE n == Len(os)
           more == Append(os, o)
           x == Size[Hash(o)]
<1>1. /\ n \in Nat /\ DOMAIN os = 1 .. n /\ more \in Seq(Known) /\ DOMAIN more = 1 .. n + 1
      /\ more[n + 1] = o /\ \A i \in 1 .. n : more[i] = os[i]
  OBVIOUS
<1>2. Sizes(os) \in Seq(Nat) /\ Len(Sizes(os)) = n /\ Bytes(os) = Total(Sizes(os))
  BY SizesAre
<1>3. Bytes(more) = Total(Sizes(more))
  BY <1>1, SizesAre
<1>4. x \in Nat
  BY Objects1, MediaAssumption
<1>5. Sizes(more) = Append(Sizes(os), x)
  <2>1. Append(Sizes(os), x) = [i \in 1 .. n + 1 |-> IF i = n + 1 THEN x ELSE Sizes(os)[i]]
    BY <1>1, <1>2, <1>4
  <2>2. Sizes(more) = [i \in 1 .. n + 1 |-> Size[Hash(more[i])]]
    BY <1>1 DEF Sizes
  <2>3. ASSUME NEW i \in 1 .. n + 1
        PROVE  Size[Hash(more[i])] = IF i = n + 1 THEN x ELSE Sizes(os)[i]
    <3>1. CASE i = n + 1
      BY <1>1, <3>1
    <3>2. CASE i # n + 1
      <4>1. i \in 1 .. n
        BY <1>1, <3>2
      <4>2. Sizes(os)[i] = Size[Hash(os[i])]
        BY <1>1, <4>1 DEF Sizes
      <4> QED
        BY <1>1, <3>2, <4>1, <4>2
    <3> QED
      BY <3>1, <3>2
  <2> QED
    BY <2>1, <2>2, <2>3
<1> QED
  BY <1>2, <1>3, <1>4, <1>5, TotalAppend

LEMMA BytesAppendNext ==
  ASSUME NEW os, NEW o
  PROVE  (Shape /\ os \in Seq(Known) /\ o \in Known
            => Bytes(Append(os, o)) = Bytes(os) + Size[Hash(o)])'
<1>1. Shape /\ os \in Seq(Known) /\ o \in Known => Bytes(Append(os, o)) = Bytes(os) + Size[Hash(o)]
  BY BytesAppend
<1> QED
  BY <1>1, PTL

LEMMA BytesKept ==
  ASSUME NEW os \in Seq(Known), \A o \in Known : Hash(o)' = Hash(o)
  PROVE  Bytes(os)' = Bytes(os)
<1>1. \A i \in DOMAIN os : os[i] \in Known
  OBVIOUS
<1>2. \A i \in DOMAIN os : Hash(os[i])' = Hash(os[i])
  BY <1>1
<1> QED
  BY <1>2 DEF Bytes

\* clearSpace: either there is room behind what is taken out, or nothing or
\* everything is.
LEMMA EvictionsAre ==
  ASSUME CachedMedia \in Seq(Known), NEW n \in Nat
  PROVE  /\ Evictions(n) \in 0 .. Len(CachedMedia)
         /\ Fits(n) => RoomAfter(Evictions(n), n)
         /\ ~Fits(n) => Evictions(n) \in {0, Len(CachedMedia)}
<1> DEFINE enough == {k \in 0 .. Len(CachedMedia) : RoomAfter(k, n)}
<1>1. CacheMax \in Nat /\ Len(CachedMedia) \in Nat
  BY MediaAssumption
<1>2. CASE CacheMax < n
  <2>1. Evictions(n) = 0
    BY <1>2 DEF Evictions
  <2> QED
    BY <1>1, <2>1 DEF Fits
<1>3. CASE ~(CacheMax < n) /\ enough = {}
  <2>1. Evictions(n) = Len(CachedMedia)
    BY <1>3 DEF Evictions
  <2> QED
    BY <1>1, <2>1 DEF Fits
<1>4. CASE ~(CacheMax < n) /\ enough # {}
  <2>1. Evictions(n) = CHOOSE k \in enough : \A j \in enough : k <= j
    BY <1>4 DEF Evictions
  <2>2. enough \in SUBSET Nat
    BY <1>1
  <2> HIDE DEF enough
  <2>3. \E k \in enough : \A j \in enough : k <= j
    BY <1>4, <2>2, Least
  <2>4. Evictions(n) \in enough
    BY <2>1, <2>3
  <2>5. Evictions(n) \in 0 .. Len(CachedMedia) /\ RoomAfter(Evictions(n), n)
    BY <2>4 DEF enough
  <2>6. Fits(n)
    BY <1>1, <1>4, <2>5 DEF Fits
  <2> QED
    BY <2>5, <2>6
<1> QED
  BY <1>2, <1>3, <1>4

Accounts ==
  /\ CachedMedia \in Seq(Known) /\ full \subseteq Known /\ reread \subseteq Known
  /\ CacheAccounted

LEMMA InitAccounts == Init => Accounts
<1> SUFFICES ASSUME Init PROVE Accounts
  OBVIOUS
<1>1. CachedMedia = <<>> /\ CacheSize = 0 /\ full = {} /\ reread = {}
  BY DEF Init
<1>2. CacheAccounted
  BY <1>1, BytesEmpty, MediaAssumption DEF CacheAccounted, IsInjective
<1> QED
  BY <1>1, <1>2 DEF Accounts

\* The library stays; objects may be emptied, or read back.
LEMMA AccountsFrame ==
  ASSUME Accounts, UNCHANGED <<hashOf, byHash, CachedMedia, CacheSize>>,
         full' \subseteq Known, reread' \subseteq Known,
         \A o \in full' : o \in full \/ o \in ToSet(CachedMedia) \cup reread',
         \A o \in reread : o \in full' => o \in reread'
  PROVE  Accounts'
<1>1. Known' = Known /\ Bytes(CachedMedia)' = Bytes(CachedMedia)
  BY DEF Known, Bytes, Hash
<1>2. \A h \in Hashes : byHash[h] \in full' => byHash[h] \in ToSet(CachedMedia) \cup reread'
  BY DEF Accounts, CacheAccounted
<1> QED
  BY <1>1, <1>2 DEF Accounts, CacheAccounted

LEMMA UploadAccounts ==
  ASSUME Inv, Inv', Accounts, NEW u \in Uploaders, NEW h \in Hashes, Upload(u, h)
  PROVE  Accounts'
<1>0. PICK new : new = Len(hashOf) + 1
  OBVIOUS
<1>1. hashOf' = Append(hashOf, h) /\ (KeepOld(h, new) \/ InsertFirst(h, new))
  BY <1>0 DEF Upload
<1>2. Shape /\ Shape' /\ hashOf \in Seq(Hashes) /\ Len(hashOf) \in Nat
  BY DEF Inv, Shape
<1>3. new \notin Known /\ new # None /\ Known' = Known \cup {new}
  <2>1. new \in 1 .. MaxUploads /\ new \notin 1 .. Len(hashOf)
    BY <1>0, <1>2 DEF Upload
  <2>2. Len(hashOf') = new /\ 1 .. new = (1 .. Len(hashOf)) \cup {new}
    BY <1>0, <1>1, <1>2
  <2> QED
    BY <2>1, <2>2, MediaAssumption DEF Known
<1>4. (\A o \in Known : Hash(o)' = Hash(o)) /\ Hash(new)' = h
  <2>1. new \notin Hashes
    BY <1>3 DEF Known
  <2> QED
    BY <1>0, <1>1, <1>2, <2>1 DEF Known, Hash
<1>5. \A os \in Seq(Known) : Bytes(os)' = Bytes(os)
  BY <1>4, BytesKept
<1>6. /\ CachedMedia \in Seq(Known) /\ CacheSize = Bytes(CachedMedia) /\ IsInjective(CachedMedia)
      /\ full \subseteq Known /\ reread \subseteq Known
  BY DEF Accounts, CacheAccounted
<1>7. CASE KeepOld(h, new)
  <2>1. /\ UNCHANGED <<byHash, CachedMedia, CacheSize, reread>> /\ full' = full \cup {new}
    BY <1>7 DEF KeepOld, libVars, histVars
  <2>2. CachedMedia \in Seq(Known')
    BY <1>3, <1>6
  <2>3. CacheSize' = Bytes(CachedMedia)'
    <3>1. PICK os : os = CachedMedia
      OBVIOUS
    <3>2. Bytes(CachedMedia)' = Bytes(os)'
      BY <2>1, <3>1 DEF Bytes, Hash
    <3> QED
      BY <1>5, <1>6, <2>1, <3>1, <3>2
  <2>4. \A g \in Hashes : byHash[g] # new
    BY <1>2, <1>3 DEF Shape
  <2> QED
    BY <1>3, <1>6, <2>1, <2>2, <2>3, <2>4 DEF Accounts, CacheAccounted
<1>8. CASE InsertFirst(h, new)
  <2> DEFINE n == Size[h]
             e == Evictions(n)
             c == CachedMedia
             out == SubSeq(c, 1, e)
             rest == SubSeq(c, e + 1, Len(c))
             fits == Fits(n)
  <2>1. /\ full' = (full \ ToSet(out)) \cup {new} /\ reread' = reread \ ToSet(out)
        /\ c' = rest \o (IF fits THEN <<new>> ELSE <<>>)
        /\ CacheSize' = CacheSize - Bytes(out) + (IF fits THEN n ELSE 0)
        /\ byHash' = IF fits THEN [byHash EXCEPT ![h] = new] ELSE byHash
    BY <1>8 DEF InsertFirst, Out, Rest, Emptied
  <2>2. n \in Nat \ {0} /\ CacheMax \in Nat
    BY MediaAssumption
  <2>3. e \in 0 .. Len(c) /\ (fits => RoomAfter(e, n)) /\ (~fits => e \in {0, Len(c)})
    BY <1>6, <2>2, EvictionsAre
  <2> HIDE DEF n, e, fits
  <2>4. /\ out \in Seq(Known) /\ rest \in Seq(Known) /\ IsInjective(rest)
        /\ ToSet(c) = ToSet(out) \cup ToSet(rest)
    BY <1>6, <2>3, Parts
  <2>5. /\ Bytes(c) = Bytes(out) + Bytes(rest)
        /\ Bytes(c) \in Nat /\ Bytes(out) \in Nat /\ Bytes(rest) \in Nat
    BY <1>2, <1>6, <2>3, <2>4, BytesSplit, SizesAre
  <2>6. ~fits => (rest = c /\ CacheSize' = CacheSize) \/ (rest = <<>> /\ CacheSize' = 0)
    <3>1. ASSUME ~fits, e = 0 PROVE rest = c /\ CacheSize' = CacheSize
      <4>1. rest = c /\ out = <<>>
        BY <1>6, <3>1
      <4>2. Bytes(out) = 0
        BY <4>1, BytesEmpty
      <4> QED
        BY <1>6, <2>1, <2>5, <3>1, <4>1, <4>2
    <3>2. ASSUME ~fits, e = Len(c) PROVE rest = <<>> /\ CacheSize' = 0
      <4>1. rest = <<>>
        BY <1>6, <3>2
      <4>2. Bytes(rest) = 0
        BY <4>1, BytesEmpty
      <4> QED
        BY <1>6, <2>1, <2>5, <3>2, <4>1, <4>2
    <3> QED
      BY <2>3, <3>1, <3>2
  <2> HIDE DEF out, rest
  <2>7. fits => c' = Append(rest, new)
    BY <2>1, <2>4
  <2>8. ~fits => c' = rest
    BY <2>1, <2>4
  <2>9. c' \in Seq(Known') /\ full' \subseteq Known' /\ reread' \subseteq Known'
    <3>1. rest \in Seq(Known') /\ new \in Known'
      BY <1>3, <2>4
    <3>2. c' \in Seq(Known')
      BY <2>7, <2>8, <3>1
    <3> QED
      BY <1>3, <1>6, <2>1, <3>2
  <2>10. CacheSize' = Bytes(CachedMedia)'
    <3>1. PICK r : r = rest
      OBVIOUS
    <3>2. r \in Seq(Known) /\ Bytes(r)' = Bytes(rest)
      BY <1>5, <2>4, <3>1
    <3>3. CASE fits
      <4>1. c' = Append(r, new) /\ CacheSize' = Bytes(rest) + n
        BY <1>6, <2>1, <2>2, <2>5, <2>7, <3>1, <3>3
      <4>2. Bytes(Append(r, new))' = Bytes(r)' + Size[Hash(new)']
        BY <1>2, <1>3, <3>2, BytesAppendNext
      <4>3. Bytes(CachedMedia)' = Bytes(Append(r, new))'
        BY <4>1 DEF Bytes, Hash
      <4> QED
        BY <1>4, <3>2, <4>1, <4>2, <4>3 DEF n
    <3>4. CASE ~fits
      <4>1. c' = r /\ CacheSize' = Bytes(rest)
        BY <1>6, <2>1, <2>5, <2>8, <3>1, <3>4
      <4>2. Bytes(CachedMedia)' = Bytes(r)'
        BY <4>1 DEF Bytes, Hash
      <4> QED
        BY <3>2, <4>1, <4>2
    <3> QED
      BY <3>3, <3>4
  <2>11. ToSet(c') \cap Hashes = {} => CacheSize' <= CacheMax
    <3>1. CASE fits
      <4>1. CacheMax - (CacheSize - Bytes(out)) > n
        BY <2>3, <3>1 DEF RoomAfter, out
      <4> QED
        BY <1>6, <2>1, <2>2, <2>5, <3>1, <4>1
    <3>2. CASE ~fits
      BY <2>2, <2>6, <2>8, <3>2 DEF Accounts, CacheAccounted
    <3> QED
      BY <3>1, <3>2
  <2>12. ToSet(Append(rest, new)) = ToSet(rest) \cup {new}
    <3>1. PICK K : K = Known \cup {new}
      OBVIOUS
    <3>2. rest \in Seq(K) /\ new \in K
      BY <2>4, <3>1
    <3> QED
      BY <3>2, SetAppended
  <2>13. IsInjective(c') /\ ToSet(rest) \subseteq ToSet(c')
    <3>1. CASE fits
      <4>1. DOMAIN rest = 1 .. Len(rest) /\ Len(rest) \in Nat /\ \A i \in 1 .. Len(rest) : rest[i] \in Known
        BY <2>4
      <4>2. /\ DOMAIN c' = 1 .. Len(rest) + 1 /\ c'[Len(rest) + 1] = new
            /\ \A i \in 1 .. Len(rest) : c'[i] = rest[i]
        BY <2>4, <2>7, <3>1
      <4>3. IsInjective(c')
        <5> SUFFICES ASSUME NEW i \in 1 .. Len(rest) + 1, NEW j \in 1 .. Len(rest) + 1, c'[i] = c'[j]
                     PROVE  i = j
          BY <4>2 DEF IsInjective
        <5>1. /\ i \in 1 .. Len(rest) \/ i = Len(rest) + 1
              /\ j \in 1 .. Len(rest) \/ j = Len(rest) + 1
          BY <4>1
        <5>2. CASE i \in 1 .. Len(rest) /\ j \in 1 .. Len(rest)
          BY <2>4, <4>1, <4>2, <5>2 DEF IsInjective
        <5> QED
          BY <1>3, <4>1, <4>2, <5>1, <5>2
      <4>4. ToSet(c') = ToSet(rest) \cup {new}
        BY <2>7, <2>12, <3>1
      <4> QED
        BY <4>3, <4>4
    <3>2. CASE ~fits
      BY <2>4, <2>8, <3>2
    <3> QED
      BY <3>1, <3>2
  <2>14. ASSUME NEW g \in Hashes, byHash'[g] \in full' PROVE byHash'[g] \in ToSet(c') \cup reread'
    <3>1. CASE byHash'[g] = new
      <4>1. fits
        BY <1>2, <1>3, <2>1, <3>1 DEF Shape
      <4>2. new \in ToSet(c')
        BY <2>7, <2>12, <4>1
      <4> QED
        BY <3>1, <4>2
    <3>2. CASE byHash'[g] # new
      <4>1. byHash'[g] = byHash[g]
        BY <1>2, <2>1, <3>2 DEF Shape
      <4>2. byHash[g] \in full /\ byHash[g] \notin ToSet(out)
        BY <2>1, <2>14, <3>2, <4>1
      <4>3. byHash[g] \in ToSet(c) \cup reread
        BY <4>2 DEF Accounts, CacheAccounted
      <4> QED
        BY <2>1, <2>4, <2>13, <4>1, <4>2, <4>3
    <3> QED
      BY <3>1, <3>2
  <2> QED
    BY <2>9, <2>10, <2>11, <2>13, <2>14 DEF Accounts, CacheAccounted
<1> QED
  BY <1>1, <1>7, <1>8

LEMMA ReadAccounts ==
  ASSUME Inv, Accounts, NEW v \in Viewers, ReadFromDisk(v)
  PROVE  Accounts'
<1>1. /\ pc[v] = "read" /\ UNCHANGED <<hashOf, byHash, CachedMedia, CacheSize>>
      /\ \/ /\ full' = full \cup {obj[v]} /\ reread' = reread \cup ({obj[v]} \ ToSet(CachedMedia))
         \/ UNCHANGED <<full, reread>>
  BY DEF ReadFromDisk, libVars
<1>2. obj[v] \in Known
  BY <1>1 DEF Inv, Shape, Handlers
<1>3. full \subseteq Known /\ reread \subseteq Known
  BY DEF Accounts
<1> QED
  BY <1>1, <1>2, <1>3, AccountsFrame

LEMMA BlockAccounts ==
  ASSUME Inv, Accounts, NEW o \in Objects, Block(o)
  PROVE  Accounts'
<1>1. /\ UNCHANGED <<hashOf, byHash, CachedMedia, CacheSize>>
      /\ full' = full \ {o} /\ reread' = reread \ {o}
  BY DEF Block, Emptied, libVars
<1>2. full \subseteq Known /\ reread \subseteq Known
  BY DEF Accounts
<1> QED
  BY <1>1, <1>2, AccountsFrame

LEMMA NewStartAccounts ==
  ASSUME Inv, Inv', Accounts, IsFiniteSet(rows), NewStart
  PROVE  Accounts'
<1>1. PICK l \in SetToSeqs(rows) : CachedMedia' = l /\ CacheSize' = Bytes(l)
  BY DEF NewStart
<1>2. full' = {} /\ reread' = {} /\ hashOf' = hashOf
  BY DEF NewStart
<1>3. rows \subseteq Hashes /\ Cardinality(rows) \in Nat
  BY FS_CardinalityType DEF Inv, Shape
<1>4. l \in [1 .. Cardinality(rows) -> rows] /\ IsInjective(l)
  BY DEF SetToSeqs, IsInjective
<1>5. l \in Seq(rows) /\ rows \subseteq Known
  BY <1>3, <1>4 DEF Known
<1>6. Known' = Known /\ l \in Seq(Known)
  BY <1>2, <1>5 DEF Known
<1>7. CacheSize' = Bytes(CachedMedia)'
  BY <1>1, <1>2 DEF Bytes, Hash
<1>8. ToSet(CachedMedia') \cap Hashes = {} => CacheSize' <= CacheMax
  <2> SUFFICES ASSUME ToSet(l) \cap Hashes = {} PROVE CacheSize' <= CacheMax
    BY <1>1
  <2>1. Cardinality(rows) = 0
    <3> SUFFICES ASSUME Cardinality(rows) # 0 PROVE FALSE
      OBVIOUS
    <3>1. 1 \in DOMAIN l /\ l[1] \in rows
      BY <1>3, <1>4
    <3> QED
      BY <1>3, <3>1 DEF ToSet
  <2>2. l = <<>>
    BY <1>4, <1>5, <2>1
  <2> QED
    BY <1>1, <2>2, BytesEmpty, MediaAssumption
<1>9. \A h \in Hashes : byHash'[h] \notin full'
  BY <1>2
<1> QED
  BY <1>1, <1>2, <1>4, <1>6, <1>7, <1>8, <1>9 DEF Accounts, CacheAccounted

-----------------------------------------------------------------------------
(* What is blocked                                                         *)

\* clearSpace finds room for whatever is smaller than the cache.
LEMMA FitsIs ==
  ASSUME Shape, Accounts, NEW n \in Nat
  PROVE  Fits(n) <=> CacheMax > n
<1>1. CacheMax \in Nat /\ CachedMedia \in Seq(Known) /\ CacheSize = Bytes(CachedMedia)
  BY MediaAssumption DEF Accounts, CacheAccounted
<1>2. PICK m : m = Len(CachedMedia) /\ m \in Nat
  BY <1>1
<1>3. ASSUME Fits(n) PROVE CacheMax > n
  <2>1. PICK k \in 0 .. m : RoomAfter(k, n)
    BY <1>1, <1>2, <1>3, EvictionsAre
  <2>2. /\ SubSeq(CachedMedia, 1, k) \in Seq(Known)
        /\ SubSeq(CachedMedia, k + 1, m) \in Seq(Known)
    BY <1>1, <1>2, <2>1
  <2>3. /\ Bytes(CachedMedia) = Bytes(SubSeq(CachedMedia, 1, k)) + Bytes(SubSeq(CachedMedia, k + 1, m))
        /\ Bytes(SubSeq(CachedMedia, 1, k)) \in Nat
        /\ Bytes(SubSeq(CachedMedia, k + 1, m)) \in Nat
    BY <1>1, <1>2, <2>1, <2>2, BytesSplit, SizesAre
  <2>4. CacheMax - (CacheSize - Bytes(SubSeq(CachedMedia, 1, k))) > n
    BY <2>1 DEF RoomAfter
  <2> QED
    BY <1>1, <2>3, <2>4
<1>4. ASSUME CacheMax > n PROVE Fits(n)
  <2>1. SubSeq(CachedMedia, 1, m) = CachedMedia
    BY <1>1, <1>2
  <2>2. Bytes(CachedMedia) \in Nat
    BY <1>1, SizesAre
  <2>3. RoomAfter(m, n)
    <3>1. PICK b : b = Bytes(SubSeq(CachedMedia, 1, m))
      OBVIOUS
    <3>2. b = CacheSize /\ b \in Nat
      BY <1>1, <2>1, <2>2, <3>1
    <3>3. CacheMax - (CacheSize - b) > n
      BY <1>1, <1>4, <3>2
    <3> QED
      BY <3>1, <3>3 DEF RoomAfter
  <2>4. ASSUME ~Fits(n) PROVE RoomAfter(Evictions(n), n)
    <3> DEFINE enough == {k \in 0 .. Len(CachedMedia) : RoomAfter(k, n)}
    <3>1. m \in enough /\ enough \in SUBSET Nat
      BY <1>2, <2>3
    <3>2. Evictions(n) = CHOOSE k \in enough : \A j \in enough : k <= j
      BY <1>1, <1>4, <3>1 DEF Evictions
    <3> HIDE DEF enough
    <3>3. Evictions(n) \in enough
      BY <3>1, <3>2, Least
    <3> QED
      BY <3>3 DEF enough
  <2> QED
    BY <1>1, <1>4, <2>4 DEF Fits
<1> QED
  BY <1>3, <1>4

\* A hash of this process is in the library, or will never be.
Settled(h) == byHash[h] # None \/ ~(CacheMax > Size[h])

\* It has no file, and DirectInsert will not write one.
NoFile(h) == h \notin disk /\ byHash[h] # None

Blocks ==
  /\ \A h \in disk : CacheMax > Size[h]
  /\ \A c \in Handlers : obj[c] # None => Settled(Hash(obj[c]))
  /\ \A o \in posted : Settled(Hash(o))
  /\ \A o \in blocked : o \notin full /\ NoFile(Hash(o))
  /\ banned \subseteq rows \cup tx
  /\ \A h \in banned : NoFile(h)

LEMMA InitBlocks == Init => Blocks
BY DEF Init, Blocks, Handlers

LEMMA UploadBlocks ==
  ASSUME Inv, Accounts, Blocks, NEW u \in Uploaders, NEW h \in Hashes, Upload(u, h)
  PROVE  Blocks'
<1>0. PICK new : new = Len(hashOf) + 1
  OBVIOUS
<1>1. /\ hashOf' = Append(hashOf, h) /\ obj' = [obj EXCEPT ![u] = new]
      /\ UNCHANGED <<blocked, posted, tx, rows, banned>>
      /\ KeepOld(h, new) \/ InsertFirst(h, new)
  BY <1>0 DEF Upload, dbVars
<1>2. Shape /\ hashOf \in Seq(Hashes) /\ Len(hashOf) \in Nat
  BY DEF Inv, Shape
<1>3. new \notin Known /\ new # None
  <2>1. new \in 1 .. MaxUploads /\ new \notin 1 .. Len(hashOf)
    BY <1>0, <1>2 DEF Upload
  <2> QED
    BY <2>1, MediaAssumption DEF Known
<1>4. (\A o \in Known : Hash(o)' = Hash(o)) /\ Hash(new)' = h
  <2>1. new \notin Hashes
    BY <1>3 DEF Known
  <2> QED
    BY <1>0, <1>1, <1>2, <2>1 DEF Known, Hash
<1>5. /\ \A g \in Hashes : byHash[g] # None => byHash'[g] = byHash[g]
      /\ disk' = disk \/ (disk' = disk \cup {h} /\ byHash[h] = None /\ CacheMax > Size[h])
      /\ full' \subseteq full \cup {new}
      /\ byHash'[h] # None \/ ~(CacheMax > Size[h])
  <2>1. CASE KeepOld(h, new)
    BY <2>1 DEF KeepOld, libVars
  <2>2. CASE InsertFirst(h, new)
    <3>1. Fits(Size[h]) <=> CacheMax > Size[h]
      BY <1>2, FitsIs, MediaAssumption
    <3>2. /\ byHash[h] = None /\ full' = (full \ ToSet(Out(Size[h]))) \cup {new}
          /\ byHash' = IF Fits(Size[h]) THEN [byHash EXCEPT ![h] = new] ELSE byHash
          /\ disk' = IF Fits(Size[h]) THEN disk \cup {h} ELSE disk
      BY <2>2 DEF InsertFirst
    <3> QED
      BY <1>2, <1>3, <3>1, <3>2 DEF Shape
  <2> QED
    BY <1>1, <2>1, <2>2
<1>6. /\ \A g \in Hashes : Settled(g) => Settled(g)'
      /\ \A g \in Hashes : NoFile(g) => NoFile(g)'
      /\ Settled(h)'
  BY <1>5 DEF Settled, NoFile
<1>7. \A o \in Known : Hash(o) \in Hashes
  BY <1>2, Objects1
<1>8. \A c \in Handlers : obj'[c] # None => Settled(Hash(obj[c]))'
  <2> SUFFICES ASSUME NEW c \in Handlers, obj'[c] # None PROVE Settled(Hash(obj[c]))'
    OBVIOUS
  <2>1. PICK o, g : o = obj'[c] /\ g = Hash(obj[c])'
    OBVIOUS
  <2>2. g = Hash(o)'
    BY <2>1 DEF Hash
  <2>3. CASE o = new
    BY <1>4, <1>6, <2>1, <2>2, <2>3 DEF Settled
  <2>4. CASE o # new
    <3>1. o = obj[c] /\ o \in Known
      BY <1>1, <1>2, <2>1, <2>4 DEF Shape
    <3>2. g = Hash(o) /\ g \in Hashes /\ Settled(g)
      BY <1>4, <1>7, <2>1, <2>2, <3>1 DEF Blocks
    <3> QED
      BY <1>6, <2>1, <3>2 DEF Settled
  <2> QED
    BY <2>3, <2>4
<1>9. \A o \in posted' : Settled(Hash(o))'
  <2> SUFFICES ASSUME NEW o \in posted PROVE Settled(Hash(o))'
    BY <1>1
  <2>1. PICK g : g = Hash(o) /\ g = Hash(o)'
    BY <1>2, <1>4 DEF Shape
  <2>2. g \in Hashes /\ Settled(g)
    BY <1>2, <1>7, <2>1 DEF Shape, Blocks
  <2> QED
    BY <1>6, <2>1, <2>2 DEF Settled
<1>10. \A o \in blocked' : o \notin full' /\ NoFile(Hash(o))'
  <2> SUFFICES ASSUME NEW o \in blocked PROVE o \notin full' /\ NoFile(Hash(o))'
    BY <1>1
  <2>1. PICK g : g = Hash(o) /\ g = Hash(o)'
    BY <1>2, <1>4 DEF Shape
  <2>2. o \in Known /\ g \in Hashes /\ NoFile(g) /\ o \notin full
    BY <1>2, <1>7, <2>1 DEF Shape, Blocks
  <2>3. NoFile(g)'
    BY <1>6, <2>2
  <2> QED
    BY <1>3, <1>5, <2>1, <2>2, <2>3 DEF NoFile
<1>11. \A g \in banned' : NoFile(g)'
  BY <1>1, <1>2, <1>6 DEF Blocks, Shape
<1> QED
  BY <1>1, <1>5, <1>8, <1>9, <1>10, <1>11 DEF Blocks

\* A step that leaves the library and its files alone.
LEMMA BlocksFrame ==
  ASSUME Blocks, UNCHANGED <<hashOf, byHash, disk>>,
         \A c \in Handlers : obj'[c] # None => Settled(Hash(obj'[c])),
         \A o \in posted' : Settled(Hash(o)),
         \A o \in blocked' : o \notin full' /\ NoFile(Hash(o)),
         banned' \subseteq rows' \cup tx', \A h \in banned' : NoFile(h)
  PROVE  Blocks'
<1>1. /\ \A o : Hash(o)' = Hash(o)
      /\ \A h : Settled(h)' = Settled(h) /\ NoFile(h)' = NoFile(h)
  BY DEF Hash, Settled, NoFile
<1>2. \A c \in Handlers : obj'[c] # None => Settled(Hash(obj[c]))'
  BY <1>1 DEF Hash, Settled
<1>3. \A o : Settled(Hash(o))' = Settled(Hash(o)) /\ NoFile(Hash(o))' = NoFile(Hash(o))
  BY <1>1 DEF Settled, NoFile
<1> QED
  BY <1>1, <1>2, <1>3 DEF Blocks

LEMMA HandlerBlocks ==
  ASSUME Inv, Blocks, NEW c \in Handlers,
         \/ StartProbe(c) \/ EndProbe(c) \/ Send(c) \/ Post(c)
         \/ (\E h \in Hashes : Lookup(c, h)) \/ ReadFromDisk(c) \/ Write(c)
  PROVE  Blocks'
<1>1. UNCHANGED <<hashOf, byHash, disk, blocked, tx, rows, banned>>
  BY DEF StartProbe, EndProbe, Send, Post, Lookup, ReadFromDisk, Write, libVars, dbVars
<1>2. Shape
  BY DEF Inv
<1>3. PICK o : /\ obj' \in {obj, [obj EXCEPT ![c] = o]}
               /\ o # None => Settled(Hash(o))
  <2>1. CASE \E h \in Hashes : Lookup(c, h)
    <3>1. PICK h, q : /\ h \in Hashes /\ byHash[h] # None /\ q = byHash[h]
                      /\ obj' = [obj EXCEPT ![c] = q]
      BY <2>1 DEF Lookup
    <3>2. Hash(q) = h
      BY <1>2, <3>1 DEF Shape
    <3>3. Settled(Hash(q))
      BY <3>1, <3>2 DEF Settled
    <3>4. obj' \in {obj, [obj EXCEPT ![c] = q]}
      BY <3>1
    <3> QED
      BY <3>3, <3>4
  <2>2. CASE ~\E h \in Hashes : Lookup(c, h)
    <3>1. obj' \in {obj, [obj EXCEPT ![c] = None]}
      BY <2>2 DEF StartProbe, EndProbe, Send, Post, ReadFromDisk, Write, Done
    <3> QED
      BY <3>1
  <2> QED
    BY <2>1, <2>2
<1>4. \A d \in Handlers : obj'[d] # None => Settled(Hash(obj'[d]))
  BY <1>2, <1>3 DEF Blocks, Shape
<1>5. \A p \in posted' : Settled(Hash(p))
  <2>1. CASE Post(c)
    <3>1. pc[c] = "post" /\ posted' \in {posted, posted \cup {obj[c]}}
      BY <2>1 DEF Post
    <3>2. Settled(Hash(obj[c]))
      BY <1>2, <3>1 DEF Shape, Blocks
    <3> QED
      BY <3>1, <3>2 DEF Blocks
  <2>2. CASE ~Post(c)
    <3>1. posted' = posted
      BY <2>2 DEF StartProbe, EndProbe, Send, Lookup, ReadFromDisk, Write
    <3> QED
      BY <3>1 DEF Blocks
  <2> QED
    BY <2>1, <2>2
<1>6. \A p \in blocked' : p \notin full' /\ NoFile(Hash(p))
  <2>1. full' = full \/ (full' = full \cup {obj[c]} /\ Hash(obj[c]) \in disk)
    BY DEF StartProbe, EndProbe, Send, Post, Lookup, ReadFromDisk, Write
  <2> QED
    BY <1>1, <2>1 DEF Blocks, NoFile
<1> QED
  BY <1>1, <1>4, <1>5, <1>6, BlocksFrame DEF Blocks

LEMMA BlockBlocks ==
  ASSUME Inv, Blocks, NEW o \in Objects, Block(o)
  PROVE  Blocks'
<1>1. /\ o \in posted /\ Hash(o) \in disk /\ disk' = disk \ {Hash(o)}
      /\ full' = full \ {o} /\ blocked' = blocked \cup {o}
      /\ UNCHANGED <<hashOf, byHash, posted, tx, rows, banned, obj>>
  BY DEF Block, libVars, dbVars
<1>2. /\ \A q : Hash(q)' = Hash(q)
      /\ \A h : Settled(h)' = Settled(h) /\ (NoFile(h) => NoFile(h)')
  BY <1>1 DEF Hash, Settled, NoFile
<1>3. byHash[Hash(o)] # None
  BY <1>1 DEF Blocks, Settled
<1>4. NoFile(Hash(o))'
  <2>1. PICK h : h = Hash(o) /\ h = Hash(o)'
    BY <1>2
  <2> QED
    BY <1>1, <1>3, <2>1 DEF NoFile
<1>5. \A q : /\ Settled(Hash(q)) => Settled(Hash(q))'
             /\ NoFile(Hash(q)) => NoFile(Hash(q))'
  BY <1>1, <1>2 DEF Settled, NoFile
<1>6. \A c \in Handlers : obj'[c] # None => Settled(Hash(obj[c]))'
  BY <1>1 DEF Blocks, Settled, Hash
<1>7. \A q \in blocked' : q \notin full' /\ NoFile(Hash(q))'
  BY <1>1, <1>4, <1>5 DEF Blocks
<1> QED
  BY <1>1, <1>2, <1>5, <1>6, <1>7 DEF Blocks

LEMMA DumpBlocks == ASSUME Inv, Blocks, Wake \/ InsertMedia \/ Commit PROVE Blocks'
<1>1. UNCHANGED <<hashOf, byHash, disk, full, blocked, posted, obj>>
  BY DEF Wake, InsertMedia, Commit, libVars
<1>2. banned' \subseteq rows' \cup tx' /\ \A h \in banned' : NoFile(h)
  <2>1. CASE Wake \/ Commit
    BY <2>1 DEF Wake, Commit, Blocks
  <2>2. CASE InsertMedia
    <3>1. PICK q : /\ tx' = tx \cup {Hash(q)} /\ rows' = rows
                   /\ banned' = banned \cup {h \in {Hash(q)} : q \in blocked /\ h \notin rows \cup tx}
      BY <2>2 DEF InsertMedia
    <3> QED
      BY <3>1 DEF Blocks
  <2> QED
    BY <2>1, <2>2
<1> QED
  BY <1>1, <1>2, BlocksFrame DEF Blocks

\* What comes back blocked has no file, and its hash is in the library.
LEMMA NewStartBlocks == ASSUME Inv, Blocks, NewStart PROVE Blocks'
<1>1. /\ byHash' = [h \in Hashes |-> IF h \in rows THEN h ELSE None]
      /\ full' = {} /\ blocked' = banned \cap rows /\ banned' = banned \cap rows
      /\ posted' \subseteq rows /\ obj' = [c \in Handlers |-> None]
      /\ UNCHANGED <<hashOf, disk, rows>>
  BY DEF NewStart
<1>2. rows \subseteq Hashes /\ \A h \in Hashes : Hash(h)' = h /\ h # None
  BY MediaAssumption DEF Inv, Shape, Hash
<1>3. \A h \in rows : byHash'[h] # None
  BY <1>1, <1>2
<1>4. \A h \in rows : Settled(h)' /\ Settled(Hash(h))'
  BY <1>2, <1>3 DEF Settled
<1>5. \A h \in banned \cap rows : NoFile(h)' /\ NoFile(Hash(h))'
  BY <1>1, <1>2, <1>3 DEF NoFile, Blocks
<1> QED
  BY <1>1, <1>4, <1>5 DEF Blocks

LEMMA StepBlocks == ASSUME Inv, Accounts, Blocks, [Next]_vars PROVE Blocks'
<1>1. CASE UNCHANGED vars
  <2>1. UNCHANGED <<hashOf, byHash, disk, full, blocked, posted, tx, rows, banned, obj>>
    BY <1>1 DEF vars, libVars, dbVars
  <2> QED
    BY <2>1, BlocksFrame DEF Blocks
<1>2. CASE \E u \in Uploaders, h \in Hashes : Upload(u, h)
  BY <1>2, UploadBlocks
<1>3. CASE \/ \E u \in Uploaders : Uploading(u)
           \/ \E v \in Viewers, h \in Hashes : Lookup(v, h)
           \/ \E v \in Viewers : Viewing(v)
  BY <1>3, HandlerBlocks DEF Uploading, Viewing, Handlers
<1>4. CASE \E o \in Objects : Block(o)
  BY <1>4, BlockBlocks
<1>5. CASE Dumper \/ Restart
  BY <1>5, DumpBlocks, NewStartBlocks DEF Dumper, Restart, InsertNil
<1> QED
  BY <1>1, <1>2, <1>3, <1>4, <1>5 DEF Next

-----------------------------------------------------------------------------
(* Types and limits                                                        *)

\* What the invariants so far say of them.
Types ==
  /\ hashOf \in Seq(Hashes) /\ Len(hashOf) <= MaxUploads
  /\ byHash \in [Hashes -> Objects \cup {None}]
  /\ CachedMedia \in Seq(Objects) /\ CacheSize \in Nat
  /\ full \subseteq Objects /\ blocked \subseteq Objects /\ posted \subseteq Objects
  /\ rows \subseteq Hashes /\ tx \subseteq Hashes
  /\ persistMedia \in Seq(Objects \cup {None})
  /\ pc \in [Handlers -> {"idle", "work", "probe", "send", "post", "read", "write"}]
  /\ obj \in [Handlers -> Objects \cup {None}]
  /\ reread \subseteq Objects

\* The rest.
Limits ==
  /\ disk \subseteq Hashes /\ unfit \subseteq Hashes /\ removed \subseteq Hashes
  /\ lost \subseteq Viewers
  /\ Len(persistMedia) <= MediaQueueSize /\ phase \in {"wait", "dump"}
  /\ restarts \in 0 .. MaxRestarts
  /\ IsFiniteSet(tx) /\ IsFiniteSet(rows)
  /\ IsFiniteSet(Probing) /\ Cardinality(Probing) <= Workers

LEMMA Typed == Inv /\ Accounts => Types
<1> SUFFICES ASSUME Inv, Accounts PROVE Types
  OBVIOUS
<1>1. Shape
  BY DEF Inv
<1>2. Known \subseteq Objects
  <2>1. \A k \in 1 .. Len(hashOf) : k \in 1 .. MaxUploads
    BY <1>1, MediaAssumption DEF Shape
  <2> QED
    BY <2>1 DEF Known, Objects
<1>3. CachedMedia \in Seq(Known) /\ CacheSize = Bytes(CachedMedia) /\ full \subseteq Known /\ reread \subseteq Known
  BY DEF Accounts, CacheAccounted
<1>4. CacheSize \in Nat
  BY <1>1, <1>3, SizesAre
<1>5. \A S : S \subseteq Known => S \subseteq Objects
  BY <1>2
<1>6. CachedMedia \in Seq(Objects) /\ persistMedia \in Seq(Objects \cup {None})
  BY <1>1, <1>2, <1>3 DEF Shape
<1>7. byHash \in [Hashes -> Objects \cup {None}] /\ obj \in [Handlers -> Objects \cup {None}]
  BY <1>1, <1>2 DEF Shape
<1> QED
  BY <1>1, <1>3, <1>4, <1>5, <1>6, <1>7 DEF Types, Shape

LEMMA TypedNext == Inv' /\ Accounts' => Types'
BY Typed, PTL

LEMMA TypeOKIs == Types /\ Limits /\ Blocks => TypeOK
BY DEF Types, Limits, Blocks, TypeOK, Probing

LEMMA InitLimits == Init => Limits
<1> SUFFICES ASSUME Init PROVE Limits
  OBVIOUS
<1>1. Probing = {}
  BY DEF Init, Probing, Handlers
<1>2. IsFiniteSet({}) /\ Cardinality({}) = 0
  BY FS_EmptySet
<1> QED
  BY <1>1, <1>2, MediaAssumption DEF Init, Limits

\* Fewer probe, or as many.
LEMMA FewerProbe ==
  ASSUME Limits, Probing' \subseteq Probing
  PROVE  IsFiniteSet(Probing') /\ Cardinality(Probing') <= Workers
<1>1. IsFiniteSet(Probing') /\ Cardinality(Probing') <= Cardinality(Probing)
  BY FS_Subset DEF Limits
<1>2. Cardinality(Probing') \in Nat /\ Cardinality(Probing) \in Nat
  BY <1>1, FS_CardinalityType DEF Limits
<1> QED
  BY <1>1, <1>2, MediaAssumption DEF Limits

LEMMA UploadLimits ==
  ASSUME Inv, Limits, NEW u \in Uploaders, NEW h \in Hashes, Upload(u, h)
  PROVE  Limits'
<1>1. /\ pc[u] = "idle" /\ pc' = [pc EXCEPT ![u] = IF h \in AV THEN "work" ELSE "send"]
      /\ disk' \in {disk, disk \cup {h}} /\ unfit' \in {unfit, unfit \cup {h}} /\ removed' = removed
      /\ lost' \subseteq lost \cup Viewers
      /\ UNCHANGED <<persistMedia, phase, tx, rows, restarts>>
  <2>1. PICK new : KeepOld(h, new) \/ InsertFirst(h, new)
    BY DEF Upload
  <2>2. /\ disk' \in {disk, disk \cup {h}} /\ unfit' \in {unfit, unfit \cup {h}} /\ removed' = removed
        /\ lost' \subseteq lost \cup Viewers
    <3>1. CASE KeepOld(h, new)
      BY <3>1 DEF KeepOld, histVars
    <3>2. CASE InsertFirst(h, new)
      BY <3>2 DEF InsertFirst, Emptied
    <3> QED
      BY <2>1, <3>1, <3>2
  <2> QED
    BY <2>2 DEF Upload, Goto, dbVars
<1>2. Probing' \subseteq Probing
  BY <1>1 DEF Probing, Inv, Shape, Handlers
<1>3. IsFiniteSet(Probing') /\ Cardinality(Probing') <= Workers
  BY <1>2, FewerProbe
<1> QED
  BY <1>1, <1>3 DEF Limits

\* A worker is taken, if there is one.
LEMMA StartProbeLimits ==
  ASSUME Inv, Limits, NEW u \in Uploaders, StartProbe(u)
  PROVE  Limits'
<1>1. /\ pc[u] = "work" /\ pc' = [pc EXCEPT ![u] = "probe"] /\ Cardinality(Probing) < Workers
      /\ UNCHANGED <<disk, unfit, removed, lost, persistMedia, phase, tx, rows, restarts>>
  BY DEF StartProbe, Goto, dbVars, histVars
<1>2. Probing' = Probing \cup {u} /\ u \notin Probing
  BY <1>1 DEF Probing, Inv, Shape, Handlers
<1>3. IsFiniteSet(Probing') /\ Cardinality(Probing') = Cardinality(Probing) + 1
  BY <1>2, FS_AddElement DEF Limits
<1>4. Cardinality(Probing') <= Workers
  BY <1>1, <1>3, FS_CardinalityType, MediaAssumption DEF Limits
<1> QED
  BY <1>1, <1>3, <1>4 DEF Limits

LEMMA HandlerLimits ==
  ASSUME Inv, Limits, NEW c \in Handlers,
         \/ EndProbe(c) \/ Send(c) \/ Post(c)
         \/ (\E h \in Hashes : Lookup(c, h)) \/ ReadFromDisk(c) \/ Write(c)
  PROVE  Limits'
<1>1. UNCHANGED <<disk, unfit, removed, phase, tx, rows, restarts>> /\ lost' \subseteq lost
  BY DEF EndProbe, Send, Post, Lookup, ReadFromDisk, Write, dbVars, histVars
<1>2. PICK l : l # "probe" /\ pc' = [pc EXCEPT ![c] = l]
  BY DEF EndProbe, Send, Post, Lookup, ReadFromDisk, Write, Goto, Done
<1>3. Probing' \subseteq Probing
  BY <1>2 DEF Probing, Inv, Shape, Handlers
<1>4. IsFiniteSet(Probing') /\ Cardinality(Probing') <= Workers
  BY <1>3, FewerProbe
<1>5. Len(persistMedia') <= MediaQueueSize
  <2>1. CASE Send(c)
    <3>1. persistMedia' = Append(persistMedia, obj[c]) /\ Len(persistMedia) < MediaQueueSize
      BY <2>1 DEF Send
    <3>2. persistMedia \in Seq(Known \cup {None}) /\ obj[c] \in Known \cup {None}
      BY DEF Inv, Shape
    <3>3. Len(persistMedia') = Len(persistMedia) + 1 /\ Len(persistMedia) \in Nat
      BY <3>1, <3>2
    <3> QED
      BY <3>1, <3>3, MediaAssumption
  <2>2. CASE ~Send(c)
    BY <2>2 DEF EndProbe, Post, Lookup, ReadFromDisk, Write, dbVars, Limits
  <2> QED
    BY <2>1, <2>2
<1> QED
  BY <1>1, <1>4, <1>5 DEF Limits

LEMMA OtherLimits ==
  ASSUME Inv, Inv', Limits, (\E o \in Objects : Block(o)) \/ Dumper \/ Restart
  PROVE  Limits'
<1>1. CASE \E o \in Objects : Block(o)
  <2>1. PICK o \in Objects : Block(o)
    BY <1>1
  <2>2. /\ disk' \subseteq disk /\ Hash(o) \in disk /\ removed' = removed \cup {Hash(o)}
        /\ lost' \subseteq lost \cup Viewers
        /\ UNCHANGED <<unfit, persistMedia, phase, tx, rows, pc, restarts>>
    BY <2>1 DEF Block, Emptied, dbVars
  <2>3. Probing' = Probing
    BY <2>2 DEF Probing
  <2> QED
    BY <2>2, <2>3 DEF Limits
<1>2. CASE Wake \/ InsertMedia \/ Commit
  <2>1. /\ UNCHANGED <<disk, unfit, removed, lost, pc, restarts>> /\ phase' \in {"wait", "dump"}
    BY <1>2 DEF Wake, InsertMedia, Commit, histVars, Limits
  <2>2. Probing' = Probing
    BY <2>1 DEF Probing
  <2>3. Len(persistMedia') <= MediaQueueSize
    <3>1. CASE InsertMedia
      <4>1. persistMedia # <<>> /\ persistMedia' = Tail(persistMedia) /\ persistMedia \in Seq(Known \cup {None})
        BY <3>1 DEF InsertMedia, Inv, Shape
      <4> QED
        BY <4>1, MediaAssumption DEF Limits
    <3>2. CASE Wake \/ Commit
      BY <3>2 DEF Wake, Commit, Limits
    <3> QED
      BY <1>2, <3>1, <3>2
  <2>4. IsFiniteSet(tx') /\ IsFiniteSet(rows')
    <3>1. IsFiniteSet(tx) /\ IsFiniteSet(rows)
      BY DEF Limits
    <3>2. CASE Wake
      BY <3>1, <3>2 DEF Wake
    <3>3. CASE InsertMedia
      BY <3>1, <3>3, FS_AddElement DEF InsertMedia
    <3>4. CASE Commit
      BY <3>1, <3>4, FS_Union, FS_EmptySet DEF Commit
    <3> QED
      BY <1>2, <3>2, <3>3, <3>4
  <2> QED
    BY <2>1, <2>2, <2>3, <2>4 DEF Limits
<1>3. CASE InsertNil \/ Restart
  <2>1. /\ persistMedia' = <<>> /\ phase' = "wait" /\ tx' = {} /\ lost' = {}
        /\ pc' = [c \in Handlers |-> "idle"] /\ UNCHANGED <<disk, rows, unfit, removed>>
    BY <1>3 DEF InsertNil, Restart, NewStart
  <2>2. restarts' \in 0 .. MaxRestarts
    <3>1. restarts \in 0 .. MaxRestarts
      BY DEF Limits
    <3>2. restarts' = restarts \/ (restarts < MaxRestarts /\ restarts' = restarts + 1)
      BY <1>3 DEF InsertNil, Restart
    <3> QED
      BY <3>1, <3>2, MediaAssumption
  <2>3. Probing' = {}
    BY <2>1 DEF Probing, Handlers
  <2>4. IsFiniteSet({}) /\ Cardinality({}) = 0
    BY FS_EmptySet
  <2>5. 0 <= Workers /\ Len(persistMedia') <= MediaQueueSize
    BY <2>1, MediaAssumption
  <2> QED
    BY <2>1, <2>2, <2>3, <2>4, <2>5 DEF Limits
<1> QED
  BY <1>1, <1>2, <1>3 DEF Dumper

LEMMA StepLimits ==
  ASSUME Inv, Inv', Limits, [Next]_vars
  PROVE  Limits'
<1>1. CASE UNCHANGED vars
  <2>1. UNCHANGED <<disk, unfit, removed, lost, persistMedia, phase, tx, rows, pc, restarts>>
    BY <1>1 DEF vars, dbVars, histVars
  <2> QED
    BY <2>1 DEF Limits, Probing
<1>2. CASE \E u \in Uploaders, h \in Hashes : Upload(u, h)
  BY <1>2, UploadLimits
<1>3. CASE \E u \in Uploaders : Uploading(u)
  BY <1>3, StartProbeLimits, HandlerLimits DEF Uploading, Handlers
<1>4. CASE \E v \in Viewers, h \in Hashes : Lookup(v, h)
  BY <1>4, HandlerLimits DEF Handlers
<1>5. CASE \E v \in Viewers : Viewing(v)
  BY <1>5, HandlerLimits DEF Viewing, Handlers
<1>6. CASE (\E o \in Objects : Block(o)) \/ Dumper \/ Restart
  BY <1>6, OtherLimits
<1> QED
  BY <1>1, <1>2, <1>3, <1>4, <1>5, <1>6 DEF Next

LEMMA StepAccounts ==
  ASSUME Inv, Inv', Accounts, Limits, [Next]_vars
  PROVE  Accounts'
<1>1. CASE UNCHANGED <<hashOf, libVars, full, reread>>
  <2>1. UNCHANGED <<hashOf, byHash, CachedMedia, CacheSize, full, reread>>
    BY <1>1 DEF libVars
  <2> QED
    BY <2>1, AccountsFrame DEF Accounts
<1>2. CASE UNCHANGED vars
  BY <1>1, <1>2 DEF vars, histVars
<1>3. CASE \E u \in Uploaders, h \in Hashes : Upload(u, h)
  BY <1>3, UploadAccounts
<1>4. CASE \E u \in Uploaders : Uploading(u)
  BY <1>1, <1>4 DEF Uploading, StartProbe, EndProbe, Send, Post, histVars
<1>5. CASE \E v \in Viewers, h \in Hashes : Lookup(v, h)
  BY <1>1, <1>5 DEF Lookup, histVars
<1>6. CASE \E v \in Viewers : Viewing(v)
  BY <1>1, <1>6, ReadAccounts DEF Viewing, Write
<1>7. CASE \E o \in Objects : Block(o)
  BY <1>7, BlockAccounts
<1>8. CASE Wake \/ InsertMedia \/ Commit
  BY <1>1, <1>8 DEF Wake, InsertMedia, Commit, histVars
<1>9. CASE InsertNil \/ Restart
  BY <1>9, NewStartAccounts DEF InsertNil, Restart, Limits
<1> QED
  BY <1>2, <1>3, <1>4, <1>5, <1>6, <1>7, <1>8, <1>9 DEF Next, Dumper

IndInv == Inv /\ Accounts /\ Limits /\ Blocks

LEMMA IndInvInit == Init => IndInv
BY InitInv, InitAccounts, InitLimits, InitBlocks DEF IndInv

LEMMA IndInvStep == IndInv /\ [Next]_vars => IndInv'
BY StepInv, StepAccounts, StepLimits, StepBlocks DEF IndInv

(* Every variable has its type: the queue of media and the number of files *)
(* being probed are within their settings.                                 *)
THEOREM MediaTypeCorrect == Spec => []TypeOK
<1>1. IndInv => TypeOK
  BY Typed, TypeOKIs DEF IndInv
<1> QED
  BY IndInvInit, IndInvStep, <1>1, PTL DEF Spec

(* clearSpace and DirectInsert keep the books: CacheSize is the size of    *)
(* what is in the list, and within the setting unless media of an earlier  *)
(* start is among it; what the library has in memory is in the list, or    *)
(* was read back by a request.                                             *)
THEOREM CacheStaysAccounted == Spec => []CacheAccounted
<1>1. IndInv => CacheAccounted
  BY DEF IndInv, Accounts
<1> QED
  BY IndInvInit, IndInvStep, <1>1, PTL DEF Spec

(* Neither an upload nor a request under way brings blocked media back,    *)
(* nor does a start, if its row was written after the block: its file is   *)
(* gone, and no other is written while the library knows the hash.         *)
THEOREM BlockedStaysBlocked == Spec => []BlockHolds
<1>1. IndInv => BlockHolds
  <2> SUFFICES ASSUME IndInv, NEW h \in Hashes, byHash[h] \in blocked
               PROVE  byHash[h] \notin full /\ h \notin disk
    BY DEF BlockHolds
  <2>1. Hash(byHash[h]) = h
    BY Objects1 DEF IndInv, Inv, Shape
  <2> QED
    BY <2>1 DEF IndInv, Blocks, NoFile
<1> QED
  BY IndInvInit, IndInvStep, <1>1, PTL DEF Spec
=============================================================================
