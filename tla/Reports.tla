------------------------------- MODULE Reports -------------------------------
(***************************************************************************)
(* Reports of posts and what staff do about them: ReportPost and HidePost  *)
(* of hive.go, postModPostsLanding and postModPosts of admin.go.           *)
(*                                                                         *)
(* A report is one step, in the sequencer.  A moderation is many: the form *)
(* lists posts by their global ids, each is handled in a hiveReq of its    *)
(* own, and then their authors are banned one by one.  Global ids are      *)
(* given anew at every start, so that a form may outlive their meaning.    *)
(***************************************************************************)
EXTENDS Integers, FiniteSets, SequencesExt

CONSTANTS
  Posts,        \* what may be posted
  Author,       \* the address each is posted from
  HasMedia,     \* those with media
  Ips,          \* who reports
  Staff,        \* handlers of postModPosts
  CanDelete,    \* staff whose role has DeletePost
  CanBan,       \* staff whose role has BanUser
  AutoDeleteThreshold,  \* settings.General.AutoDeleteThreshold
  Aggregate, Rule, Illegal,  \* the queues
  MaxReports,   \* bound: reports
  MaxForms,     \* bound: moderations
  Asked,        \* bound: what one may ask for
  MaxRestarts   \* bound: restarts

Queues == {Aggregate, Rule, Illegal}

\* The reason of a report names a queue, or none of them.
Reasons == Queues

Wishes == [block : BOOLEAN, delete : BOOLEAN, ban : BOOLEAN]

ASSUME ReportsAssumption ==
  /\ IsFiniteSet(Posts) /\ DOMAIN Author = Posts /\ HasMedia \subseteq Posts
  /\ CanDelete \cup CanBan = Staff
  /\ AutoDeleteThreshold \in Nat /\ Asked \subseteq Wishes
  /\ Aggregate # Illegal /\ Rule # Illegal /\ Aggregate # Rule
  /\ MaxReports \in Nat /\ MaxForms \in Nat /\ MaxRestarts \in Nat

VARIABLES
  byGid,         \* h.Posts: the post of each global id
  Hidden,        \* the posts whose Hidden is set
  judged,        \* history: those hidden by staff, or before the start
  ReportedBy,    \* the addresses that reported each post
  ReportHistory, \* the reports of each post in each queue
  queue,         \* the posts of each report queue
  pc,            \* where each handler is
  form,          \* the global ids on its form
  want,          \* what it was asked for
  todo,          \* ids not handled yet
  affectedUsers, \* the addresses it will ban
  banned,        \* history: the addresses it has banned
  shown,         \* history: the posts the form showed
  reports, forms, restarts

postVars  == <<byGid, Hidden, judged>>
reportVars == <<ReportedBy, ReportHistory, queue>>
modVars   == <<pc, form, want, todo, affectedUsers, banned, shown>>
bounds    == <<reports, forms, restarts>>
vars == <<postVars, reportVars, modVars, bounds>>

Gids   == 1 .. Cardinality(Posts)
Addrs  == {Author[p] : p \in Posts}
Nothing == [block |-> FALSE, delete |-> FALSE, ban |-> FALSE]

TypeOK ==
  /\ byGid \in Seq(Posts) /\ IsInjective(byGid) /\ Hidden \subseteq ToSet(byGid)
  /\ judged \subseteq Hidden
  /\ ReportedBy \in [Posts -> SUBSET Ips]
  /\ ReportHistory \in [Posts -> [Queues -> Seq(Ips)]]
  /\ queue \in [Queues -> Seq(Posts)]
  /\ pc \in [Staff -> {"idle", "form", "posts", "bans", "done"}]
  /\ form \in [Staff -> SUBSET Gids] /\ todo \in [Staff -> SUBSET Gids]
  /\ want \in [Staff -> Wishes] /\ shown \in [Staff -> SUBSET Posts]
  /\ affectedUsers \in [Staff -> SUBSET Addrs] /\ banned \in [Staff -> SUBSET Addrs]
  /\ \A s \in Staff : todo[s] \subseteq form[s] /\ banned[s] \subseteq affectedUsers[s]
  /\ reports \in 0 .. MaxReports /\ forms \in 0 .. MaxForms /\ restarts \in 0 .. MaxRestarts

NoReports ==
  /\ ReportedBy' = [p \in Posts |-> {}]
  /\ ReportHistory' = [p \in Posts |-> [q \in Queues |-> <<>>]]
  /\ queue' = [q \in Queues |-> <<>>]

Init ==
  /\ byGid = <<>> /\ Hidden = {} /\ judged = {}
  /\ ReportedBy = [p \in Posts |-> {}]
  /\ ReportHistory = [p \in Posts |-> [q \in Queues |-> <<>>]]
  /\ queue = [q \in Queues |-> <<>>]
  /\ pc = [s \in Staff |-> "idle"]
  /\ form = [s \in Staff |-> {}] /\ todo = form
  /\ want = [s \in Staff |-> Nothing]
  /\ affectedUsers = form /\ banned = form /\ shown = form
  /\ reports = 0 /\ forms = 0 /\ restarts = 0

AddPost ==
  /\ \E p \in Posts \ ToSet(byGid) : byGid' = Append(byGid, p)
  /\ UNCHANGED <<Hidden, judged, reportVars, modVars, bounds>>

-----------------------------------------------------------------------------
(* ReportPost                                                              *)

\* The reports of p for illegal contents, this one included.
TimesReported(p) == Len(ReportHistory[p][Illegal]) + 1

\* Mutant: this report is not counted.
MustHideLate(p, reason) ==
  /\ reason = Illegal
  /\ TimesReported(p) # 1 /\ TimesReported(p) - 1 >= AutoDeleteThreshold

\* A first report is mailed, and hides nothing whatever the threshold is.
MustHide(p, reason) ==
  /\ reason = Illegal
  /\ TimesReported(p) # 1 /\ TimesReported(p) >= AutoDeleteThreshold

\* Mutant: the address is remembered for the queue it reported to only.
ReportTwice(ip, p, reason) ==
  LET qs == {Aggregate, reason} IN
  /\ p \in ToSet(byGid) /\ reports < MaxReports
  /\ \E q \in qs : ip \notin ToSet(ReportHistory[p][q])
  /\ ReportedBy' = [ReportedBy EXCEPT ![p] = @ \cup {ip}]
  /\ Hidden' = IF MustHide(p, reason) THEN Hidden \cup {p} ELSE Hidden
  /\ queue' = [q \in Queues |-> IF q \in qs THEN Append(queue[q], p) ELSE queue[q]]
  /\ ReportHistory' =
       [ReportHistory EXCEPT ![p] = [q \in Queues |-> IF q \in qs THEN Append(@[q], ip) ELSE @[q]]]
  /\ reports' = reports + 1
  /\ UNCHANGED <<byGid, judged, modVars, forms, restarts>>

\* Mutant: the post is not looked up.
ReportUnchecked(ip, p, reason) ==
  LET qs == {Aggregate, reason} IN
  /\ reports < MaxReports
  /\ ip \notin ReportedBy[p]
  /\ ReportedBy' = [ReportedBy EXCEPT ![p] = @ \cup {ip}]
  /\ Hidden' = IF MustHide(p, reason) THEN Hidden \cup {p} ELSE Hidden
  /\ queue' = [q \in Queues |-> IF q \in qs THEN Append(queue[q], p) ELSE queue[q]]
  /\ ReportHistory' =
       [ReportHistory EXCEPT ![p] = [q \in Queues |-> IF q \in qs THEN Append(@[q], ip) ELSE @[q]]]
  /\ reports' = reports + 1
  /\ UNCHANGED <<byGid, judged, modVars, forms, restarts>>

\* Two queues get the post, or one if the reason is neither of the two known.
Report(ip, p, reason) ==
  LET qs == {Aggregate, reason} IN
  /\ p \in ToSet(byGid) /\ reports < MaxReports
  /\ ip \notin ReportedBy[p]
  /\ ReportedBy' = [ReportedBy EXCEPT ![p] = @ \cup {ip}]
  /\ Hidden' = IF MustHide(p, reason) THEN Hidden \cup {p} ELSE Hidden
  /\ queue' = [q \in Queues |-> IF q \in qs THEN Append(queue[q], p) ELSE queue[q]]
  /\ ReportHistory' =
       [ReportHistory EXCEPT ![p] = [q \in Queues |-> IF q \in qs THEN Append(@[q], ip) ELSE @[q]]]
  /\ reports' = reports + 1
  /\ UNCHANGED <<byGid, judged, modVars, forms, restarts>>

-----------------------------------------------------------------------------
(* postModPostsLanding, postModPosts                                       *)

\* The form shows the posts there are and keeps their ids.
Landing(s) ==
  /\ pc[s] = "idle" /\ forms < MaxForms
  /\ \E ids \in SUBSET DOMAIN byGid \ {{}} :
       /\ form' = [form EXCEPT ![s] = ids]
       /\ shown' = [shown EXCEPT ![s] = {byGid[g] : g \in ids}]
  /\ pc' = [pc EXCEPT ![s] = "form"]
  /\ forms' = forms + 1
  /\ UNCHANGED <<postVars, reportVars, want, todo, affectedUsers, banned, reports, restarts>>

Submit(s) ==
  /\ pc[s] = "form"
  /\ \E w \in Asked : want' = [want EXCEPT ![s] = w]
  /\ todo' = [todo EXCEPT ![s] = form[s]]
  /\ pc' = [pc EXCEPT ![s] = "posts"]
  /\ UNCHANGED <<postVars, reportVars, form, affectedUsers, banned, shown, bounds>>

\* Block returns an error whatever happens, and the closure returns with it.
BlockFails(s, p) == want[s].block /\ p \in HasMedia

\* What the closure for p hides.
Deleted(s, p) == IF want[s].delete /\ s \in CanDelete /\ ~BlockFails(s, p) THEN {p} ELSE {}

\* Mutant: a post whose media cannot be blocked is left out altogether.
ModPostBlockFirst(s) ==
  /\ pc[s] = "posts"
  /\ \E g \in todo[s] :
       /\ todo' = [todo EXCEPT ![s] = @ \ {g}]
       /\ IF g \in DOMAIN byGid /\ ~BlockFails(s, byGid[g])
          THEN /\ affectedUsers' = [affectedUsers EXCEPT ![s] = @ \cup {Author[byGid[g]]}]
               /\ Hidden' = Hidden \cup Deleted(s, byGid[g])
               /\ judged' = judged \cup Deleted(s, byGid[g])
          ELSE UNCHANGED <<affectedUsers, Hidden, judged>>
  /\ UNCHANGED <<byGid, reportVars, pc, form, want, banned, shown, bounds>>

\* The hiveReq for one of the ids.
ModPost(s) ==
  /\ pc[s] = "posts"
  /\ \E g \in todo[s] :
       /\ todo' = [todo EXCEPT ![s] = @ \ {g}]
       /\ IF g \in DOMAIN byGid
          THEN /\ affectedUsers' = [affectedUsers EXCEPT ![s] = @ \cup {Author[byGid[g]]}]
               /\ Hidden' = Hidden \cup Deleted(s, byGid[g])
               /\ judged' = judged \cup Deleted(s, byGid[g])
          ELSE UNCHANGED <<affectedUsers, Hidden, judged>>
  /\ UNCHANGED <<byGid, reportVars, pc, form, want, banned, shown, bounds>>

\* Without a ban, or the right to one, that was all.
PostsDone(s) ==
  /\ pc[s] = "posts" /\ todo[s] = {}
  /\ pc' = [pc EXCEPT ![s] = IF want[s].ban /\ s \in CanBan THEN "bans" ELSE "done"]
  /\ UNCHANGED <<postVars, reportVars, form, want, todo, affectedUsers, banned, shown, bounds>>

\* IssueBan, which may have to wait.
BanUser(s) ==
  /\ pc[s] = "bans"
  /\ \E ip \in affectedUsers[s] \ banned[s] : banned' = [banned EXCEPT ![s] = @ \cup {ip}]
  /\ UNCHANGED <<postVars, reportVars, pc, form, want, todo, affectedUsers, shown, bounds>>

BansDone(s) ==
  /\ pc[s] = "bans" /\ banned[s] = affectedUsers[s]
  /\ pc' = [pc EXCEPT ![s] = "done"]
  /\ UNCHANGED <<postVars, reportVars, form, want, todo, affectedUsers, banned, shown, bounds>>

Clear(s) ==
  /\ form' = [form EXCEPT ![s] = {}] /\ shown' = [shown EXCEPT ![s] = {}]
  /\ want' = [want EXCEPT ![s] = Nothing] /\ todo' = [todo EXCEPT ![s] = {}]
  /\ affectedUsers' = [affectedUsers EXCEPT ![s] = {}]
  /\ banned' = [banned EXCEPT ![s] = {}]

Answer(s) ==
  /\ pc[s] = "done"
  /\ pc' = [pc EXCEPT ![s] = "idle"]
  /\ Clear(s)
  /\ UNCHANGED <<postVars, reportVars, bounds>>

-----------------------------------------------------------------------------
\* Some of the posts come back, in their order, with new ids; hidden are
\* those hidden before their rows were written.  A form that was not sent
\* yet is still in the browser; what it showed is no longer what it means.
Restart ==
  /\ restarts < MaxRestarts /\ restarts' = restarts + 1
  /\ \E n \in 0 .. Len(byGid) : \E back \in [1 .. n -> DOMAIN byGid] :
       /\ \A k, m \in 1 .. n : k < m => back[k] < back[m]
       /\ byGid' = [g \in 1 .. n |-> byGid[back[g]]]
  /\ Hidden' \in SUBSET (Hidden \cap ToSet(byGid')) /\ judged' = Hidden'
  /\ NoReports
  /\ pc' = [s \in Staff |-> IF pc[s] = "form" THEN "form" ELSE "idle"]
  /\ form' = [s \in Staff |-> IF pc[s] = "form" THEN form[s] ELSE {}]
  /\ shown' = [s \in Staff |-> {}]
  /\ want' = [s \in Staff |-> Nothing] /\ todo' = [s \in Staff |-> {}]
  /\ affectedUsers' = [s \in Staff |-> {}] /\ banned' = affectedUsers'
  /\ UNCHANGED <<reports, forms>>

Next ==
  \/ AddPost
  \/ \E ip \in Ips, p \in Posts, reason \in Reasons : Report(ip, p, reason)
  \/ \E s \in Staff : \/ Landing(s) \/ Submit(s) \/ ModPost(s) \/ PostsDone(s)
                      \/ BanUser(s) \/ BansDone(s) \/ Answer(s)
  \/ Restart

Spec == Init /\ [][Next]_vars

-----------------------------------------------------------------------------
(* A queue shows a post once for each report of it, and every address that *)
(* reported a post counts once in all (hive.go 152-187).                   *)
ReportsCounted ==
  \A p \in Posts :
    /\ \A q \in Queues :
         Cardinality({i \in DOMAIN queue[q] : queue[q][i] = p}) = Len(ReportHistory[p][q])
    /\ IsInjective(ReportHistory[p][Aggregate])
    /\ ToSet(ReportHistory[p][Aggregate]) = ReportedBy[p]

\* The reports for illegal contents are enough: with one, none are.
Enough(p) ==
  LET n == Len(ReportHistory[p][Illegal]) IN n >= 2 /\ n >= AutoDeleteThreshold

(* "Number of reports before a thread is auto-deleted" (settings.toml 23): *)
(* a post with enough reports for illegal contents is hidden, and no post  *)
(* that no staff has hidden is hidden with fewer, whoever reported it, for *)
(* whatever else, and whatever was moderated meanwhile (hive.go 168-175).  *)
AutoHidden ==
  \A p \in Posts :
    /\ Enough(p) => p \in Hidden
    /\ p \in Hidden \ judged => Enough(p)

(* A moderation that has ended has done to every post on its form what was *)
(* asked: the author is banned, nobody else is, and the post is hidden,    *)
(* unless its media were to be blocked, whatever was posted, reported and  *)
(* moderated meanwhile; unless the form is from before a restart           *)
(* (admin.go 244-285).                                                     *)
ModeratedFully ==
  \A s \in Staff :
    pc[s] = "done" /\ shown[s] # {} =>
      /\ banned[s] = IF want[s].ban /\ s \in CanBan THEN {Author[p] : p \in shown[s]} ELSE {}
      /\ want[s].delete /\ s \in CanDelete =>
           \A p \in shown[s] : p \in Hidden \/ BlockFails(s, p)
=============================================================================
