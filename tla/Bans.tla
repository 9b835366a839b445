--------------------------------- MODULE Bans ---------------------------------
(***************************************************************************)
(* The bans of users.go, on top of its thresholds: InThreshold is the      *)
(* sliding window that module Threshold implements.                        *)
(*                                                                         *)
(* A page view looks for a ban, counts the view and may issue a ban of its *)
(* own, in three critical sections; posting, the spam trap and moderation  *)
(* issue bans as well.  IssueBan puts the ban into persistBan, where it    *)
(* may have to wait for the dump loop, and only then into the user, so the *)
(* memory and the table can be changed in different orders.  A restart     *)
(* reads the table, in which the last ban of an address wins.              *)
(*                                                                         *)
(* A ban is whether it is for "Dos" and when it ends.                      *)
(***************************************************************************)
EXTENDS SlidingWindow

CONSTANTS
  Viewers,      \* goroutines that serve pages
  Issuers,      \* other callers of IssueBan: postComment, postModPosts, ...
  PageRequest,  \* the threshold of page views
  Lengths,      \* lengths of the bans that are issued by name
  DosLength,    \* length of the ban for too many views: one day
  BanQueueSize, \* settings.Database.BanQueueSize
  None,         \* no ban
  MaxBans,      \* bound: bans of Issuers
  MaxRestarts   \* bound: restarts

ASSUME BansAssumption ==
  /\ PageRequest \in Params /\ Times \in [Params -> Nat] /\ Duration \in [Params -> Nat]
  /\ IsFiniteSet(Viewers) /\ MaxTime \in Nat
  /\ Lengths \subseteq Nat \ {0} /\ DosLength \in Nat \ {0}
  /\ BanQueueSize \in Nat \ {0}
  /\ None \notin [dos : BOOLEAN, end : Nat]
  /\ MaxBans \in Nat /\ MaxRestarts \in Nat

Handlers == Viewers \cup Issuers

VARIABLES
  Ban,       \* users[addr].Ban
  persistBan,\* the channel, bans with their addresses
  phase,     \* of the dump loop: waits for the ticker, or dumps bans
  tx,        \* of the bans its transaction has inserted the last of each address
  bans,      \* the table: of the rows of each address the last
  pc,        \* where each handler is
  who,       \* the address it works for
  seen,      \* whether the ban it found at the beginning of a page view is for Dos
  new,       \* the ban it issues
  issued,    \* bans of Issuers so far
  restarts,
  crossed,   \* history: addresses that two handlers banned at once, last
  dos        \* history: the Dos bans made for each address since the start, as
             \* long as they last and no other ban was issued: the end of each,
             \* and how many with that end were made before it

thVars   == <<now, log, answer>>
dumpVars == <<phase, tx, bans>>
banVars  == <<Ban, persistBan, dumpVars, pc, who, seen, new, issued, restarts, crossed, dos>>
bvars    == <<thVars, banVars>>

BanOf   == [dos : BOOLEAN, end : Nat]
Row     == [addr : Addrs, ban : BanOf]
MaybeBan == BanOf \cup {None}

TypeOK ==
  /\ now \in 0 .. MaxTime /\ log \in [Keys -> Seq(Nat)] /\ answer \in [Keys -> BOOLEAN]
  /\ Ban \in [Addrs -> MaybeBan] /\ bans \in [Addrs -> MaybeBan]
  /\ persistBan \in Seq(Row) /\ Len(persistBan) <= BanQueueSize
  /\ tx \in [Addrs -> MaybeBan] /\ phase \in {"wait", "dump"}
  /\ pc \in [Handlers -> {"idle", "count", "send", "set", "show"}]
  /\ who \in [Handlers -> Addrs \cup {None}]
  /\ seen \in [Handlers -> BOOLEAN] /\ new \in [Handlers -> MaybeBan]
  /\ issued \in 0 .. MaxBans /\ restarts \in 0 .. MaxRestarts
  /\ crossed \subseteq Addrs /\ dos \in [Addrs -> SUBSET (Nat \X Nat)]

NoHandlers ==
  /\ pc' = [h \in Handlers |-> "idle"]
  /\ who' = [h \in Handlers |-> None]
  /\ seen' = [h \in Handlers |-> FALSE]
  /\ new' = [h \in Handlers |-> None]

BInit ==
  /\ Init
  /\ Ban = [a \in Addrs |-> None] /\ bans = Ban
  /\ persistBan = <<>> /\ phase = "wait" /\ tx = Ban
  /\ pc = [h \in Handlers |-> "idle"] /\ who = [h \in Handlers |-> None]
  /\ seen = [h \in Handlers |-> FALSE] /\ new = who
  /\ issued = 0 /\ restarts = 0
  /\ crossed = {} /\ dos = [a \in Addrs |-> {}]

Goto(h, l) == pc' = [pc EXCEPT ![h] = l]

-----------------------------------------------------------------------------
(* IsPageViewAllowed                                                       *)

\* time.Now().Before(ban.End)
Holds(b) == b # None /\ now < b.end

View(h, a) ==
  /\ pc[h] = "idle"
  /\ seen' = [seen EXCEPT ![h] = Holds(Ban[a]) /\ Ban[a].dos]
  /\ who' = [who EXCEPT ![h] = a]
  /\ Goto(h, "count")
  /\ UNCHANGED <<thVars, Ban, persistBan, dumpVars, new, issued, restarts, crossed, dos>>

\* Within the threshold.
Count(h) ==
  /\ pc[h] = "count" /\ Accept(<<who[h], PageRequest>>)
  /\ Goto(h, "show")
  /\ UNCHANGED <<Ban, persistBan, dumpVars, who, seen, new, issued, restarts, crossed, dos>>

\* Beyond it and banned for that already: no page, and no other ban.
DenyPage(h) ==
  /\ pc[h] = "count" /\ Refuse(<<who[h], PageRequest>>)
  /\ seen[h]
  /\ Goto(h, "idle")
  /\ who' = [who EXCEPT ![h] = None] /\ seen' = [seen EXCEPT ![h] = FALSE]
  /\ UNCHANGED <<Ban, persistBan, dumpVars, new, issued, restarts, crossed, dos>>

\* One more ban in bs, which ends at e.
OneMore(bs, e) == bs \cup {<<e, Cardinality({b \in bs : b[1] = e})>>}

\* createBan: the time is taken here, before the ban has to wait.
CreateDosBan(h) ==
  /\ new' = [new EXCEPT ![h] = [dos |-> TRUE, end |-> now + DosLength]]
  /\ dos' = IF issued = 0 THEN [dos EXCEPT ![who[h]] = OneMore(@, now + DosLength)] ELSE dos
  /\ Goto(h, "send")

\* Mutant: the name of the ban found is not looked at.
BanForDosAgain(h) ==
  /\ pc[h] = "count" /\ Refuse(<<who[h], PageRequest>>)
  /\ CreateDosBan(h)
  /\ UNCHANGED <<Ban, persistBan, dumpVars, who, seen, issued, restarts, crossed>>

BanForDos(h) ==
  /\ pc[h] = "count" /\ Refuse(<<who[h], PageRequest>>)
  /\ ~seen[h]
  /\ CreateDosBan(h)
  /\ UNCHANGED <<Ban, persistBan, dumpVars, who, seen, issued, restarts, crossed>>

\* The second look at the ban chooses the page; either way the view ends.
Show(h) ==
  /\ pc[h] = "show"
  /\ Goto(h, "idle")
  /\ who' = [who EXCEPT ![h] = None] /\ seen' = [seen EXCEPT ![h] = FALSE]
  /\ UNCHANGED <<thVars, Ban, persistBan, dumpVars, new, issued, restarts, crossed, dos>>

-----------------------------------------------------------------------------
(* IssueBan                                                                *)

\* A caller outside users.go, with a reason of the settings.
CreateBan(h, a) ==
  /\ pc[h] = "idle" /\ issued < MaxBans
  /\ \E n \in Lengths : new' = [new EXCEPT ![h] = [dos |-> FALSE, end |-> now + n]]
  /\ who' = [who EXCEPT ![h] = a]
  /\ issued' = issued + 1
  /\ dos' = [dos EXCEPT ![a] = {}]
  /\ Goto(h, "send")
  /\ UNCHANGED <<thVars, Ban, persistBan, dumpVars, seen, restarts, crossed>>

Setting(a) == {h \in Handlers : pc[h] = "set" /\ who[h] = a}

Overlaps(h) ==
  IF Setting(who[h]) = {} THEN crossed \ {who[h]} ELSE crossed \cup {who[h]}

\* Mutant: the queue grows as it has to.
SendBanUnbounded(h) ==
  /\ pc[h] = "send"
  /\ persistBan' = Append(persistBan, [addr |-> who[h], ban |-> new[h]])
  /\ crossed' = Overlaps(h)
  /\ Goto(h, "set")
  /\ UNCHANGED <<thVars, Ban, dumpVars, who, seen, new, issued, restarts, dos>>

\* Mutant: a ban that would have to wait is not persisted.
SendBanIfRoom(h) ==
  /\ pc[h] = "send"
  /\ persistBan' = IF Len(persistBan) < BanQueueSize
                   THEN Append(persistBan, [addr |-> who[h], ban |-> new[h]]) ELSE persistBan
  /\ crossed' = Overlaps(h)
  /\ Goto(h, "set")
  /\ UNCHANGED <<thVars, Ban, dumpVars, who, seen, new, issued, restarts, dos>>

\* persistBan <- ban
SendBan(h) ==
  /\ pc[h] = "send" /\ Len(persistBan) < BanQueueSize
  /\ persistBan' = Append(persistBan, [addr |-> who[h], ban |-> new[h]])
  /\ crossed' = Overlaps(h)
  /\ Goto(h, "set")
  /\ UNCHANGED <<thVars, Ban, dumpVars, who, seen, new, issued, restarts, dos>>

\* Under the mutex.  A page view goes on.
SetBan(h) ==
  /\ pc[h] = "set"
  /\ Ban' = [Ban EXCEPT ![who[h]] = new[h]]
  /\ new' = [new EXCEPT ![h] = None]
  /\ IF h \in Viewers
     THEN Goto(h, "show") /\ UNCHANGED who
     ELSE Goto(h, "idle") /\ who' = [who EXCEPT ![h] = None]
  /\ UNCHANGED <<thVars, persistBan, dumpVars, seen, issued, restarts, crossed, dos>>

-----------------------------------------------------------------------------
(* The dump loop, and a restart                                            *)

\* <-dumpTicker.C, up to dumpBans
Wake ==
  /\ phase = "wait"
  /\ phase' = "dump"
  /\ UNCHANGED <<thVars, Ban, persistBan, tx, bans, pc, who, seen, new, issued, restarts, crossed, dos>>

InsertBan ==
  /\ phase = "dump" /\ persistBan # <<>>
  /\ tx' = [tx EXCEPT ![Head(persistBan).addr] = Head(persistBan).ban]
  /\ persistBan' = Tail(persistBan)
  /\ UNCHANGED <<thVars, Ban, phase, bans, pc, who, seen, new, issued, restarts, crossed, dos>>

\* The table once the transaction is committed.
Inserted == [a \in Addrs |-> IF tx[a] # None THEN tx[a] ELSE bans[a]]

\* Mutant: the goroutine has no loop.
CommitAndEnd ==
  /\ phase = "dump" /\ persistBan = <<>>
  /\ bans' = Inserted
  /\ tx' = [a \in Addrs |-> None]
  /\ phase' = "ended"
  /\ UNCHANGED <<thVars, Ban, persistBan, pc, who, seen, new, issued, restarts, crossed, dos>>

Commit ==
  /\ phase = "dump" /\ persistBan = <<>>
  /\ bans' = Inserted
  /\ tx' = [a \in Addrs |-> None]
  /\ phase' = "wait"
  /\ UNCHANGED <<thVars, Ban, persistBan, pc, who, seen, new, issued, restarts, crossed, dos>>

\* readBans: expired bans are read as well.
ReadBans ==
  /\ restarts < MaxRestarts /\ restarts' = restarts + 1
  /\ Forget
  /\ Ban' = bans
  /\ persistBan' = <<>> /\ phase' = "wait" /\ tx' = [a \in Addrs |-> None]
  /\ NoHandlers
  /\ crossed' = {} /\ dos' = [a \in Addrs |-> {}]
  /\ UNCHANGED <<bans, issued>>

Later ==
  /\ Tick
  /\ dos' = [a \in Addrs |-> {b \in dos[a] : now' < b[1]}]
  /\ UNCHANGED <<Ban, persistBan, dumpVars, pc, who, seen, new, issued, restarts, crossed>>

-----------------------------------------------------------------------------
Viewing(h) == Count(h) \/ DenyPage(h) \/ BanForDos(h) \/ Show(h)
Issuing(h) == SendBan(h) \/ SetBan(h)
Dumper     == Wake \/ InsertBan \/ Commit

BNext ==
  \/ \E h \in Viewers, a \in Addrs : View(h, a)
  \/ \E h \in Issuers, a \in Addrs : CreateBan(h, a)
  \/ \E h \in Viewers : Viewing(h)
  \/ \E h \in Handlers : Issuing(h)
  \/ Dumper \/ ReadBans \/ Later

BSpec == BInit /\ [][BNext]_bvars

\* Goroutines are scheduled, the ticker ticks, and a channel serves those
\* who wait in it first come, first served.
BFairSpec ==
  /\ BSpec
  /\ \A h \in Viewers : WF_bvars(Viewing(h))
  /\ \A h \in Handlers : SF_bvars(Issuing(h))
  /\ WF_bvars(Dumper)

-----------------------------------------------------------------------------
\* The last ban for a that is in the channel, inserted, or in the table.
LastWritten(a) ==
  LET of == {i \in DOMAIN persistBan : persistBan[i].addr = a}
  IN  IF of = {} THEN Inserted[a]
      ELSE persistBan[CHOOSE i \in of : \A j \in of : j <= i].ban

(* What a restart will read is what the memory holds: the last ban written *)
(* or on its way is the one in force, unless a handler is between the two  *)
(* halves of IssueBan (users.go 79-82) or the halves of two crossed.       *)
BanAgrees ==
  \A a \in Addrs : Setting(a) = {} /\ a \notin crossed => Ban[a] = LastWritten(a)

(* Someone who keeps asking for pages does not fill the queue and the      *)
(* table: however often he asks, his bans for Dos that are not over are at *)
(* most one for each view that was under way before one was set (users.go  *)
(* 166-178).  A ban that waited in IssueBan until it was over takes the    *)
(* place of one that lasts when it is set, and lets him in once more: with *)
(* one such after another there are 1 + 2 + ... + n for n views at once.   *)
(* Another ban, in place of the one for Dos, starts this anew.             *)
DosBansBounded ==
  \A a \in Addrs : 2 * Cardinality(dos[a]) <= Cardinality(Viewers) * (Cardinality(Viewers) + 1)

(* Every page view and every ban ends, although a full queue makes the     *)
(* handler wait for the database.                                          *)
RequestsFinish == \A h \in Handlers : pc[h] # "idle" ~> pc[h] = "idle"
=============================================================================
