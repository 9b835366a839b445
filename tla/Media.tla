-------------------------------- MODULE Media --------------------------------
(***************************************************************************)
(* The media library (library.go, av.go): what has been uploaded, which of *)
(* it is in memory, on disk and in the database, and what is served.       *)
(*                                                                         *)
(* Every upload makes a media struct of its own, an object; objects with   *)
(* equal contents have one hash.  The library keeps the first object of a  *)
(* hash and a list of those it accounts for, from whose front it takes the *)
(* bytes away when it needs room.  A request for the full file looks the   *)
(* object up, reads the file back and writes the bytes out in three        *)
(* critical sections of lib.mtx.  Video and audio wait for an ffmpeg       *)
(* worker between being in the library and being queued for the database.  *)
(*                                                                         *)
(* An object is the number of its upload or, if readFromDatabase made it,  *)
(* its hash.  Contents, thumbnails and descriptions are left out.          *)
(***************************************************************************)
EXTENDS Integers, FiniteSets, SequencesExt

CONSTANTS
  Hashes,       \* MD5 sums of what is uploaded
  Size,         \* the size of each
  AV,           \* those that are video or audio
  BadAudio,     \* audio with a codec that is not accepted
  CacheMax,     \* settings.Media.CacheSize
  Workers,      \* settings.Video.Workers
  MediaQueueSize,  \* settings.Database.MediaQueueSize
  Uploaders,    \* handlers of recordPost
  Viewers,      \* handlers of showFullMedia
  None,         \* no object, nil
  MaxUploads,   \* bound: uploads
  MaxRestarts   \* bound: restarts by a signal

ASSUME MediaAssumption ==
  /\ Size \in [Hashes -> Nat \ {0}]
  /\ AV \subseteq Hashes /\ BadAudio \subseteq AV
  /\ Hashes \cap (1 .. MaxUploads) = {} /\ None \notin Hashes \cup (1 .. MaxUploads)
  /\ CacheMax \in Nat /\ Workers \in Nat \ {0} /\ MediaQueueSize \in Nat \ {0}
  /\ MaxUploads \in Nat /\ MaxRestarts \in Nat

VARIABLES
  hashOf,       \* the hash of each upload so far
  byHash,       \* lib.byHash
  CachedMedia,  \* lib.CachedMedia, front first
  CacheSize,    \* lib.CacheSize
  full,         \* the objects whose Full is not empty
  blocked,      \* the objects whose Blocked is set
  posted,       \* the objects that posts refer to
  disk,         \* the files in settings.Media.Path
  persistMedia, \* the channel; nil may be in it
  phase,        \* of the dump loop
  tx,           \* the hashes its transaction has inserted
  rows,         \* the table
  banned,       \* the hashes whose row, there or in tx, has a ban_reason
  pc,           \* where each handler is
  obj,          \* the object it works on
  restarts,
  unfit,        \* history: hashes there was once no room for
  removed,      \* history: hashes whose file was removed by Block
  reread,       \* history: objects that a request read back
  lost          \* history: viewers whose object was emptied before they wrote

libVars  == <<byHash, CachedMedia, CacheSize>>
dbVars   == <<persistMedia, phase, tx, rows, banned>>
histVars == <<unfit, removed, reread, lost>>
vars == <<hashOf, libVars, full, blocked, posted, disk, dbVars, pc, obj, restarts, histVars>>

Uploads  == DOMAIN hashOf
Objects  == (1 .. MaxUploads) \cup Hashes
Handlers == Uploaders \cup Viewers
Hash(o)  == IF o \in Hashes THEN o ELSE hashOf[o]

TypeOK ==
  /\ hashOf \in Seq(Hashes) /\ Len(hashOf) <= MaxUploads
  /\ byHash \in [Hashes -> Objects \cup {None}]
  /\ CachedMedia \in Seq(Objects) /\ CacheSize \in Nat
  /\ full \subseteq Objects /\ blocked \subseteq Objects /\ posted \subseteq Objects
  /\ disk \subseteq Hashes /\ rows \subseteq Hashes /\ tx \subseteq Hashes
  /\ banned \subseteq rows \cup tx
  /\ persistMedia \in Seq(Objects \cup {None}) /\ Len(persistMedia) <= MediaQueueSize
  /\ phase \in {"wait", "dump"}
  /\ pc \in [Handlers -> {"idle", "work", "probe", "send", "post", "read", "write"}]
  /\ Cardinality({u \in Uploaders : pc[u] = "probe"}) <= Workers
  /\ obj \in [Handlers -> Objects \cup {None}]
  /\ restarts \in 0 .. MaxRestarts
  /\ unfit \subseteq Hashes /\ removed \subseteq Hashes /\ reread \subseteq Objects
  /\ lost \subseteq Viewers

Init ==
  /\ hashOf = <<>>
  /\ byHash = [h \in Hashes |-> None] /\ CachedMedia = <<>> /\ CacheSize = 0
  /\ full = {} /\ blocked = {} /\ posted = {} /\ disk = {}
  /\ persistMedia = <<>> /\ phase = "wait" /\ tx = {} /\ rows = {} /\ banned = {}
  /\ pc = [c \in Handlers |-> "idle"] /\ obj = [c \in Handlers |-> None]
  /\ restarts = 0
  /\ unfit = {} /\ removed = {} /\ reread = {} /\ lost = {}

Goto(c, l) == pc' = [pc EXCEPT ![c] = l]
Done(c)    == Goto(c, "idle") /\ obj' = [obj EXCEPT ![c] = None]

\* The bytes of the objects os are taken away.
Emptied(os) ==
  /\ reread' = reread \ os
  /\ lost' = lost \cup {v \in Viewers : pc[v] = "write" /\ obj[v] \in os}

-----------------------------------------------------------------------------
(* InsertImage, InsertVideo, InsertAudio                                   *)

Total(ns) ==
  LET sum[i \in 0 .. Len(ns)] == IF i = 0 THEN 0 ELSE sum[i - 1] + ns[i]
  IN  sum[Len(ns)]

Bytes(os) == Total([i \in DOMAIN os |-> Size[Hash(os[i])]])

\* Whether there is room for n bytes once the first k objects are out.
RoomAfter(k, n) == CacheMax - (CacheSize - Bytes(SubSeq(CachedMedia, 1, k))) > n

\* How many objects clearSpace takes from the front: as few as it can; all
\* of them if that is not enough; none if it need not try.
Evictions(n) ==
  LET enough == {k \in 0 .. Len(CachedMedia) : RoomAfter(k, n)}
  IN  IF CacheMax < n THEN 0
      ELSE IF enough = {} THEN Len(CachedMedia)
      ELSE CHOOSE k \in enough : \A j \in enough : k <= j

Out(n)  == SubSeq(CachedMedia, 1, Evictions(n))
Rest(n) == SubSeq(CachedMedia, Evictions(n) + 1, Len(CachedMedia))
Fits(n) == CacheMax >= n /\ RoomAfter(Evictions(n), n)

\* Mutant: the file is written before the hash is looked up.
KeepOldWrite(h, new) ==
  /\ byHash[h] # None
  /\ full' = full \cup {new} /\ disk' = disk \cup {h}
  /\ UNCHANGED <<libVars, histVars>>

\* DirectInsert of a hash that the library has: it stays as it is, and the
\* new object lives only in its post.
KeepOld(h, new) ==
  /\ byHash[h] # None
  /\ full' = full \cup {new}
  /\ UNCHANGED <<libVars, disk, histVars>>

\* Mutant: the sizes of what is taken out are not subtracted.
InsertFirstUncounted(h, new) ==
  LET n == Size[h]  out == ToSet(Out(n)) IN
  /\ byHash[h] = None
  /\ full' = (full \ out) \cup {new} /\ Emptied(out)
  /\ CachedMedia' = Rest(n) \o (IF Fits(n) THEN <<new>> ELSE <<>>)
  /\ CacheSize' = CacheSize + (IF Fits(n) THEN n ELSE 0)
  /\ byHash' = IF Fits(n) THEN [byHash EXCEPT ![h] = new] ELSE byHash
  /\ disk' = IF Fits(n) THEN disk \cup {h} ELSE disk
  /\ unfit' = IF Fits(n) THEN unfit ELSE unfit \cup {h}
  /\ UNCHANGED removed

\* Mutant: the file is left to be written when the bytes are taken out.
InsertFirstNoFile(h, new) ==
  LET n == Size[h]  out == ToSet(Out(n)) IN
  /\ byHash[h] = None
  /\ full' = (full \ out) \cup {new} /\ Emptied(out)
  /\ CachedMedia' = Rest(n) \o (IF Fits(n) THEN <<new>> ELSE <<>>)
  /\ CacheSize' = CacheSize - Bytes(Out(n)) + (IF Fits(n) THEN n ELSE 0)
  /\ byHash' = IF Fits(n) THEN [byHash EXCEPT ![h] = new] ELSE byHash
  /\ disk' = disk \cup {Hash(o) : o \in out}
  /\ unfit' = IF Fits(n) THEN unfit ELSE unfit \cup {h}
  /\ UNCHANGED removed

\* DirectInsert of a new hash: room is made, and if there is enough the
\* object is entered and its file written.
InsertFirst(h, new) ==
  LET n == Size[h]  out == ToSet(Out(n)) IN
  /\ byHash[h] = None
  /\ full' = (full \ out) \cup {new} /\ Emptied(out)
  /\ CachedMedia' = Rest(n) \o (IF Fits(n) THEN <<new>> ELSE <<>>)
  /\ CacheSize' = CacheSize - Bytes(Out(n)) + (IF Fits(n) THEN n ELSE 0)
  /\ byHash' = IF Fits(n) THEN [byHash EXCEPT ![h] = new] ELSE byHash
  /\ disk' = IF Fits(n) THEN disk \cup {h} ELSE disk
  /\ unfit' = IF Fits(n) THEN unfit ELSE unfit \cup {h}
  /\ UNCHANGED removed

Upload(u, h) ==
  LET new == Len(hashOf) + 1 IN
  /\ pc[u] = "idle" /\ new <= MaxUploads
  /\ hashOf' = Append(hashOf, h)
  /\ KeepOld(h, new) \/ InsertFirst(h, new)
  /\ obj' = [obj EXCEPT ![u] = new]
  /\ Goto(u, IF h \in AV THEN "work" ELSE "send")
  /\ UNCHANGED <<blocked, posted, dbVars, restarts>>

Probing == {u \in Uploaders : pc[u] = "probe"}

\* Mutant: a goroutine for each file.
StartProbeAtOnce(u) ==
  /\ pc[u] = "work"
  /\ Goto(u, "probe")
  /\ UNCHANGED <<hashOf, libVars, full, blocked, posted, disk, dbVars, obj, restarts, histVars>>

\* ffmpegWork <- func() ..., when a worker takes it.
StartProbe(u) ==
  /\ pc[u] = "work" /\ Cardinality(Probing) < Workers
  /\ Goto(u, "probe")
  /\ UNCHANGED <<hashOf, libVars, full, blocked, posted, disk, dbVars, obj, restarts, histVars>>

\* wait <- true.  The closure sets i to nil if the codec is not accepted.
EndProbe(u) ==
  /\ pc[u] = "probe"
  /\ obj' = IF Hash(obj[u]) \in BadAudio THEN [obj EXCEPT ![u] = None] ELSE obj
  /\ Goto(u, "send")
  /\ UNCHANGED <<hashOf, libVars, full, blocked, posted, disk, dbVars, restarts, histVars>>

\* Mutant: an object that would have to wait is not persisted.
SendIfRoom(u) ==
  /\ pc[u] = "send"
  /\ persistMedia' = IF Len(persistMedia) < MediaQueueSize
                     THEN Append(persistMedia, obj[u]) ELSE persistMedia
  /\ Goto(u, IF obj[u] = None THEN "idle" ELSE "post")
  /\ UNCHANGED <<hashOf, libVars, full, blocked, posted, disk, phase, tx, rows, banned, obj, restarts, histVars>>

\* persistMedia <- i, nil or not; with nil there is no post.
Send(u) ==
  /\ pc[u] = "send" /\ Len(persistMedia) < MediaQueueSize
  /\ persistMedia' = Append(persistMedia, obj[u])
  /\ Goto(u, IF obj[u] = None THEN "idle" ELSE "post")
  /\ UNCHANGED <<hashOf, libVars, full, blocked, posted, disk, phase, tx, rows, banned, obj, restarts, histVars>>

\* recordPost: img.Blocked is that of the new object, which nobody can have
\* blocked yet.  AddPost may still refuse the post.
Post(u) ==
  /\ pc[u] = "post" /\ obj[u] \notin blocked
  /\ \E accepted \in BOOLEAN : posted' = IF accepted THEN posted \cup {obj[u]} ELSE posted
  /\ Done(u)
  /\ UNCHANGED <<hashOf, libVars, full, blocked, disk, dbVars, restarts, histVars>>

-----------------------------------------------------------------------------
(* WriteMedia(w, hash, true).  A hash that is not in the library ends the  *)
(* request with a nil pointer.                                             *)

Lookup(v, h) ==
  /\ pc[v] = "idle" /\ byHash[h] # None
  /\ obj' = [obj EXCEPT ![v] = byHash[h]]
  /\ Goto(v, "read")
  /\ UNCHANGED <<hashOf, libVars, full, blocked, posted, disk, dbVars, restarts, histVars>>

\* readFromDisk: the local inMemory is never set, so it is always tried.
ReadFromDisk(v) ==
  /\ pc[v] = "read"
  /\ IF Hash(obj[v]) \in disk
     THEN /\ full' = full \cup {obj[v]}
          /\ reread' = reread \cup ({obj[v]} \ ToSet(CachedMedia))
     ELSE UNCHANGED <<full, reread>>
  /\ Goto(v, "write")
  /\ UNCHANGED <<hashOf, libVars, blocked, posted, disk, dbVars, obj, restarts, unfit, removed, lost>>

\* w.Write(i.Full)
Write(v) ==
  /\ pc[v] = "write"
  /\ lost' = lost \ {v}
  /\ Done(v)
  /\ UNCHANGED <<hashOf, libVars, full, blocked, posted, disk, dbVars, restarts, unfit, removed, reread>>

-----------------------------------------------------------------------------
\* Block, from a moderation of a post.  Its INSERT has no arguments and
\* fails, but by then the file is gone and the object is empty.
Block(o) ==
  /\ o \in posted /\ Hash(o) \in disk
  /\ disk' = disk \ {Hash(o)} /\ removed' = removed \cup {Hash(o)}
  /\ full' = full \ {o} /\ Emptied({o})
  /\ blocked' = blocked \cup {o}
  /\ UNCHANGED <<hashOf, libVars, posted, dbVars, pc, obj, restarts, unfit>>

-----------------------------------------------------------------------------
(* The dump loop, and the next start                                       *)

Wake ==
  /\ phase = "wait"
  /\ phase' = "dump"
  /\ UNCHANGED <<hashOf, libVars, full, blocked, posted, disk, persistMedia, tx, rows, banned, pc, obj,
                 restarts, histVars>>

\* A hash that has a row already is refused, and the loop goes on.  The row
\* has the reason for which the object has been blocked meanwhile.
InsertMedia ==
  /\ phase = "dump" /\ persistMedia # <<>> /\ Head(persistMedia) # None
  /\ LET o == Head(persistMedia)
     IN  /\ tx' = tx \cup {Hash(o)}
         /\ banned' = banned \cup {h \in {Hash(o)} : o \in blocked /\ h \notin rows \cup tx}
  /\ persistMedia' = Tail(persistMedia)
  /\ UNCHANGED <<hashOf, libVars, full, blocked, posted, disk, phase, rows, pc, obj, restarts, histVars>>

Commit ==
  /\ phase = "dump" /\ persistMedia = <<>>
  /\ rows' = rows \cup tx /\ tx' = {}
  /\ phase' = "wait"
  /\ UNCHANGED <<hashOf, libVars, full, blocked, posted, disk, persistMedia, banned, pc, obj, restarts, histVars>>

\* readFromDatabase: every row is counted, though its bytes are on disk, and
\* is blocked if it has a reason, one that the settings still name; of the
\* posts, those whose rows were written come back.
NewStart ==
  /\ byHash' = [h \in Hashes |-> IF h \in rows THEN h ELSE None]
  /\ \E l \in SetToSeqs(rows) : CachedMedia' = l /\ CacheSize' = Bytes(l)
  /\ full' = {} /\ blocked' = banned \cap rows /\ banned' = banned \cap rows
  /\ posted' \in SUBSET (rows \cap {Hash(o) : o \in posted})
  /\ persistMedia' = <<>> /\ phase' = "wait" /\ tx' = {}
  /\ pc' = [c \in Handlers |-> "idle"] /\ obj' = [c \in Handlers |-> None]
  /\ reread' = {} /\ lost' = {}
  /\ UNCHANGED <<hashOf, disk, rows, unfit, removed>>

Restart == restarts < MaxRestarts /\ restarts' = restarts + 1 /\ NewStart

\* dbInsertMedia(nil) panics in the dump loop, which ends the process.
InsertNil ==
  /\ phase = "dump" /\ persistMedia # <<>> /\ Head(persistMedia) = None
  /\ NewStart /\ UNCHANGED restarts

-----------------------------------------------------------------------------
Uploading(u) == StartProbe(u) \/ EndProbe(u) \/ Send(u) \/ Post(u)
Viewing(v)   == ReadFromDisk(v) \/ Write(v)
Dumper       == Wake \/ InsertMedia \/ InsertNil \/ Commit

Next ==
  \/ \E u \in Uploaders, h \in Hashes : Upload(u, h)
  \/ \E u \in Uploaders : Uploading(u)
  \/ \E v \in Viewers, h \in Hashes : Lookup(v, h)
  \/ \E v \in Viewers : Viewing(v)
  \/ \E o \in Objects : Block(o)
  \/ Dumper \/ Restart

Spec == Init /\ [][Next]_vars

-----------------------------------------------------------------------------
(* CacheSize is the size of what is in the list, which holds an object of  *)
(* the library once; it is within the setting unless recovered media are   *)
(* among it; and what the library has in memory is in the list or was read *)
(* back by a request (library.go 175-179, 213-234, 287).                   *)
CacheAccounted ==
  /\ CacheSize = Bytes(CachedMedia)
  /\ ToSet(CachedMedia) \cap Hashes = {} => CacheSize <= CacheMax
  /\ IsInjective(CachedMedia)
  /\ \A h \in Hashes : byHash[h] \in full => byHash[h] \in ToSet(CachedMedia) \cup reread

(* Whoever asks for media is written all of it, evicted or not and across  *)
(* restarts, unless the file was blocked, the library had no room for it   *)
(* in the first place, or the bytes were taken away after this request had *)
(* read them (library.go 255-307).                                         *)
ServedWhole ==
  \A v \in Viewers :
    pc[v] = "write" /\ v \notin lost /\ Hash(obj[v]) \notin unfit \cup removed => obj[v] \in full

(* Blocked media stay blocked: the library's object gets neither bytes nor *)
(* a file again, whatever is uploaded and whichever requests were under    *)
(* way (library.go 182-201); nor does the one that a later start makes of  *)
(* its row, if that was written after the block (db.go 136-142).           *)
BlockHolds ==
  \A h \in Hashes : byHash[h] \in blocked => byHash[h] \notin full /\ h \notin disk

(* The media of a post has a row, or one is on its way, before the post is *)
(* made: the row of the post refers to it (library.go 148, db.go 68).      *)
MediaAgree ==
  \A o \in posted : Hash(o) \in rows \cup tx \cup {Hash(i) : i \in ToSet(persistMedia) \ {None}}

=============================================================================
