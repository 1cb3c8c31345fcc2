------------------------------ MODULE EmptyClaim ------------------------------
(***************************************************************************)
(* The claim endpoint of one server replica among many                     *)
(* (TaskService.ClaimTaskForRuntime) and the Redis cache that lets an idle *)
(* poll skip PostgreSQL (service/empty_claim_cache.go).  The cache keeps,  *)
(* per runtime, a verdict "no queued task" tagged with the version it was  *)
(* observed under, and a version that every enqueue increments.  Claims    *)
(* and enqueues are goroutines of any replica: each Redis command and each *)
(* SQL statement is a step of its own.                                     *)
(*                                                                         *)
(* A lost claim response leaves a dispatched row nobody works on; the      *)
(* endpoint looks for such rows before it looks at the cache.  All rows    *)
(* belong to one agent, whose runtime may have changed between enqueues.   *)
(***************************************************************************)
EXTENDS Naturals

CONSTANTS
  Rows,         \* the task rows that may be enqueued (bounds the model)
  Runtimes,
  Claims,       \* claim requests in flight at once (bounds the model)
  None,
  MayLoseBump,  \* Redis refuses an INCR, or the process dies before it
  MayMerge      \* a registering daemon folds a legacy runtime into its own

ASSUME EmptyClaimAssumption ==
  /\ None \notin Nat \cup Runtimes \cup Rows
  /\ {MayLoseBump, MayMerge} \subseteq BOOLEAN

VARIABLES
  row,      \* the task rows: status and runtime
  enqueue,  \* the goroutine that inserts each row: where it is, its task.RuntimeID
  version,  \* Redis key ...:version:<runtime>, 0 when missing
  verdict,  \* Redis key ...:empty:<runtime>, None when missing
  claim,    \* the claim requests
  held,     \* the rows whose claim response reached the daemon
  runtime   \* the runtime rows: "live", "merging" or "deleted"

cacheVars == <<version, verdict>>
claimVars == <<row, enqueue, version, verdict, claim, held, runtime>>

-----------------------------------------------------------------------------
QueuedOn(r) == {t \in Rows : row[t].status = "queued" /\ row[t].runtime = r}

NoClaim == [pc |-> "idle", runtime |-> None, observed |-> 0, row |-> None]

At(c, pc) == claim[c].pc = pc

Become(t, s) == row' = [row EXCEPT ![t].status = s]

Move(c, pc) == claim' = [claim EXCEPT ![c].pc = pc]

(* IsEmpty: one MGET of both keys; a missing version is the version 0.     *)
Trusted(r) == verdict[r] # None /\ verdict[r] = version[r]

-----------------------------------------------------------------------------
(* An enqueue: INSERT, then notifyTaskAvailable.                           *)

InsertBumpFirst(t, r) ==     \* mutant: notified before the INSERT commits
  /\ enqueue[t].pc = "new" /\ runtime[r] # "deleted"
  /\ row' = [row EXCEPT ![t] = [status |-> "queued", runtime |-> r]]
  /\ enqueue' = [enqueue EXCEPT ![t] = [pc |-> "notified", runtime |-> r]]
  /\ UNCHANGED <<cacheVars, claim, held, runtime>>

InsertNoRuntime(t, r) ==     \* mutant: the returned row lacks its runtime
  /\ enqueue[t].pc = "new" /\ runtime[r] # "deleted"
  /\ row' = [row EXCEPT ![t] = [status |-> "queued", runtime |-> r]]
  /\ enqueue' = [enqueue EXCEPT ![t] = [pc |-> "inserted", runtime |-> None]]
  /\ UNCHANGED <<cacheVars, claim, held, runtime>>

(* r is the runtime the agent had when the enqueue read it.                *)
Insert(t, r) ==
  /\ enqueue[t].pc = "new" /\ runtime[r] # "deleted"
  /\ row' = [row EXCEPT ![t] = [status |-> "queued", runtime |-> r]]
  /\ enqueue' = [enqueue EXCEPT ![t] = [pc |-> "inserted", runtime |-> r]]
  /\ UNCHANGED <<cacheVars, claim, held, runtime>>

(* INCR of the version of the runtime the INSERT returned.                 *)
Bump(t) ==
  /\ enqueue[t].pc = "inserted"
  /\ version' = [version EXCEPT ![enqueue[t].runtime] = @ + 1]
  /\ enqueue' = [enqueue EXCEPT ![t].pc = "notified"]
  /\ UNCHANGED <<row, verdict, claim, held, runtime>>

(* The error is swallowed.                                                 *)
LoseBump(t) ==
  /\ MayLoseBump
  /\ enqueue[t].pc = "inserted"
  /\ enqueue' = [enqueue EXCEPT ![t].pc = "notified"]
  /\ UNCHANGED <<row, cacheVars, claim, held, runtime>>

-----------------------------------------------------------------------------
(* ClaimTaskForRuntime.                                                    *)

Dispatchable(t, r) ==
  /\ row[t] = [status |-> "dispatched", runtime |-> r]
  /\ \A c \in Claims : ~(At(c, "won") /\ claim[c].row = t)

(* ReclaimStaleDispatchedTaskForRuntime: the row was dispatched more than  *)
(* 90 s ago, so the request that dispatched it is over.                    *)
ReclaimStale(c, r, t) ==
  /\ At(c, "idle") /\ runtime[r] # "deleted"
  /\ Dispatchable(t, r)
  /\ claim' = [claim EXCEPT ![c] = [NoClaim EXCEPT !.pc = "won", !.runtime = r, !.row = t]]
  /\ UNCHANGED <<row, enqueue, cacheVars, held, runtime>>

(* Nothing to reclaim.  A row dispatched less than 90 s ago is not stale.  *)
Poll(c, r) ==
  /\ At(c, "idle") /\ runtime[r] # "deleted"
  /\ claim' = [claim EXCEPT ![c] = [NoClaim EXCEPT !.pc = "polled", !.runtime = r]]
  /\ UNCHANGED <<row, enqueue, cacheVars, held, runtime>>

EmptyCacheHit(c) ==
  /\ At(c, "polled")
  /\ Trusted(claim[c].runtime)
  /\ claim' = [claim EXCEPT ![c] = NoClaim]
  /\ UNCHANGED <<row, enqueue, cacheVars, held, runtime>>

(* CurrentVersion, 0 when Redis fails.  A failed MGET is a miss as well,   *)
(* so a miss may follow a verdict that could be trusted.                   *)
SampleVersion(c) ==
  /\ At(c, "polled")
  /\ \E v \in {version[claim[c].runtime], 0} :
       claim' = [claim EXCEPT ![c].pc = "sampled", ![c].observed = v]
  /\ UNCHANGED <<row, enqueue, cacheVars, held, runtime>>

(* ListQueuedClaimCandidatesByRuntime.                                     *)
ListCandidates(c) ==
  /\ At(c, "sampled")
  /\ Move(c, IF QueuedOn(claim[c].runtime) = {} THEN "empty" ELSE "listed")
  /\ UNCHANGED <<row, enqueue, cacheVars, held, runtime>>

MarkEmptyRereads(c) ==       \* mutant: tags the verdict with the version read now
  /\ At(c, "empty")
  /\ verdict' = [verdict EXCEPT ![claim[c].runtime] = version[claim[c].runtime]]
  /\ claim' = [claim EXCEPT ![c] = NoClaim]
  /\ UNCHANGED <<row, enqueue, version, held, runtime>>

(* SET with the version sampled before the SELECT; its error is swallowed. *)
MarkEmpty(c) ==
  /\ At(c, "empty")
  /\ \/ verdict' = [verdict EXCEPT ![claim[c].runtime] = claim[c].observed]
     \/ UNCHANGED verdict
  /\ claim' = [claim EXCEPT ![c] = NoClaim]
  /\ UNCHANGED <<row, enqueue, version, held, runtime>>

(* ClaimTask on the agent of a candidate.  It may pick a row of another    *)
(* runtime, which is dispatched and not returned.                          *)
ClaimListed(c, t) ==
  /\ At(c, "listed")
  /\ row[t].status = "queued"
  /\ Become(t, "dispatched")
  /\ claim' = [claim EXCEPT ![c] =
       IF row[t].runtime = claim[c].runtime THEN [@ EXCEPT !.pc = "won", !.row = t]
                                            ELSE NoClaim]
  /\ UNCHANGED <<enqueue, cacheVars, held, runtime>>

(* The agent is at capacity, or busy with the same issue.                  *)
ClaimNothing(c) ==
  /\ At(c, "listed")
  /\ claim' = [claim EXCEPT ![c] = NoClaim]
  /\ UNCHANGED <<row, enqueue, cacheVars, held, runtime>>

(* The response reaches the daemon, ...                                    *)
Respond(c) ==
  /\ At(c, "won")
  /\ held' = held \cup {claim[c].row}
  /\ claim' = [claim EXCEPT ![c] = NoClaim]
  /\ UNCHANGED <<row, enqueue, cacheVars, runtime>>

(* ... or any request dies on the way.                                     *)
LoseRequest(c) ==
  /\ ~At(c, "idle")
  /\ claim' = [claim EXCEPT ![c] = NoClaim]
  /\ UNCHANGED <<row, enqueue, cacheVars, held, runtime>>

-----------------------------------------------------------------------------
(* The surroundings.                                                       *)

(* The daemon starts the task (StartTask): the row is no more dispatched.  *)
DaemonStarts(t) ==
  /\ t \in held /\ row[t].status = "dispatched"
  /\ Become(t, "left")
  /\ UNCHANGED <<enqueue, cacheVars, claim, held, runtime>>

(* Cancelled, or expired in the queue.                                     *)
Cancel(t) ==
  /\ row[t].status \in {"queued", "dispatched"}
  /\ Become(t, "left")
  /\ UNCHANGED <<enqueue, cacheVars, claim, held, runtime>>

VerdictExpiresNever(r) ==    \* mutant: SET without its TTL
  FALSE /\ UNCHANGED claimVars

(* EmptyClaimCacheTTL, 3 minutes.                                          *)
VerdictExpires(r) ==
  /\ verdict[r] # None
  /\ verdict' = [verdict EXCEPT ![r] = None]
  /\ UNCHANGED <<row, enqueue, version, claim, held, runtime>>

(* emptyClaimVersionTTL, 24 hours, renewed by every INCR and GET: any      *)
(* verdict and any claim of that age is gone.                              *)
VersionExpires(r) ==
  /\ version[r] # 0
  /\ verdict[r] = None
  /\ \A c \in Claims : claim[c].runtime # r
  /\ version' = [version EXCEPT ![r] = 0]
  /\ UNCHANGED <<row, enqueue, verdict, claim, held, runtime>>

(* mergeLegacyRuntimes: ReassignTasksToRuntime, which bumps no version, ... *)
MergeTasks(old, new) ==
  /\ MayMerge /\ old # new
  /\ runtime[old] # "deleted" /\ runtime[new] = "live"
  /\ row' = [t \in Rows |-> IF row[t].runtime = old THEN [row[t] EXCEPT !.runtime = new]
                                                    ELSE row[t]]
  /\ runtime' = [runtime EXCEPT ![old] = "merging"]
  /\ UNCHANGED <<enqueue, cacheVars, claim, held>>

(* ... then DeleteAgentRuntime; the foreign key cascades to the tasks.     *)
MergeDelete(old) ==
  /\ runtime[old] = "merging"
  /\ runtime' = [runtime EXCEPT ![old] = "deleted"]
  /\ row' = [t \in Rows |-> IF row[t].runtime = old THEN [row[t] EXCEPT !.status = "dropped"]
                                                    ELSE row[t]]
  /\ UNCHANGED <<enqueue, cacheVars, claim, held>>

-----------------------------------------------------------------------------
ClaimInit ==
  /\ row = [t \in Rows |-> [status |-> "absent", runtime |-> None]]
  /\ enqueue = [t \in Rows |-> [pc |-> "new", runtime |-> None]]
  /\ version = [r \in Runtimes |-> 0]
  /\ verdict = [r \in Runtimes |-> None]
  /\ claim = [c \in Claims |-> NoClaim]
  /\ held = {}
  /\ runtime = [r \in Runtimes |-> "live"]

ClaimStep(c) ==
  \/ EmptyCacheHit(c)
  \/ SampleVersion(c)
  \/ ListCandidates(c)
  \/ MarkEmpty(c)
  \/ \E t \in Rows : ClaimListed(c, t)
  \/ ClaimNothing(c)
  \/ Respond(c)
  \/ LoseRequest(c)

ClaimNext ==
  \/ \E t \in Rows : \/ \E r \in Runtimes : Insert(t, r)
                     \/ Bump(t)
                     \/ LoseBump(t)
                     \/ DaemonStarts(t)
                     \/ Cancel(t)
  \/ \E c \in Claims : \/ ClaimStep(c)
                       \/ \E r \in Runtimes : \/ Poll(c, r)
                                              \/ \E t \in Rows : ReclaimStale(c, r, t)
  \/ \E r \in Runtimes : VerdictExpires(r) \/ VersionExpires(r) \/ MergeDelete(r)
  \/ \E old, new \in Runtimes : MergeTasks(old, new)

ClaimSpec == ClaimInit /\ [][ClaimNext]_claimVars

(* A live runtime is polled for ever, a claim in flight ends (in the code  *)
(* by its timeout at the latest), a TTL passes, a merge runs on.  What may *)
(* go wrong over and over is assumed not to do so each time (SF): a cache  *)
(* miss is followed by a listing of the queue, the agent has room in one   *)
(* of the polls that list the row, a response gets through, a stale row is *)
(* found by one of the polls of its runtime.                               *)
For(c, r) == claim[c].runtime = r

FairClaimSpec ==
  /\ ClaimSpec
  /\ \A c \in Claims : WF_claimVars(ClaimStep(c)) /\ SF_claimVars(Respond(c))
  /\ \A r \in Runtimes :
       /\ WF_claimVars(VerdictExpires(r)) /\ WF_claimVars(MergeDelete(r))
       /\ SF_claimVars(runtime[r] = "live" /\ \E c \in Claims : Poll(c, r))
       /\ SF_claimVars(\E c \in Claims : For(c, r) /\ ~Trusted(r) /\ SampleVersion(c))
       /\ SF_claimVars(\E c \in Claims : For(c, r) /\ ListCandidates(c))
  /\ \A t \in Rows : /\ WF_claimVars(DaemonStarts(t))
                     /\ SF_claimVars(\E c \in Claims : ClaimListed(c, t))
                     /\ SF_claimVars(\E c \in Claims, r \in Runtimes : ReclaimStale(c, r, t))

-----------------------------------------------------------------------------
(* Properties.                                                             *)

ClaimTypeOK ==
  /\ row \in [Rows -> [status : {"absent", "queued", "dispatched", "left", "dropped"},
                       runtime : Runtimes \cup {None}]]
  /\ enqueue \in [Rows -> [pc : {"new", "inserted", "notified"}, runtime : Runtimes \cup {None}]]
  /\ \A t \in Rows : enqueue[t].pc # "new" => enqueue[t].runtime \in Runtimes
  /\ version \in [Runtimes -> Nat]
  /\ verdict \in [Runtimes -> Nat \cup {None}]
  /\ claim \in [Claims -> [pc : {"idle", "polled", "sampled", "listed", "empty", "won"},
                           runtime : Runtimes \cup {None}, observed : Nat,
                           row : Rows \cup {None}]]
  /\ \A c \in Claims : /\ ~At(c, "idle") => claim[c].runtime \in Runtimes
                       /\ At(c, "won") => claim[c].row \in Rows
  /\ held \subseteq Rows
  /\ runtime \in [Runtimes -> {"live", "merging", "deleted"}]

(* task.go:969-973 and empty_claim_cache.go:12-34: once its enqueue has    *)
(* bumped the version, a queued task is not hidden by an empty verdict, so *)
(* the claim its wakeup causes finds it, however slow a claim that saw the *)
(* queue empty is to write its verdict.                                    *)
QueuedIsClaimable ==
  \A t \in Rows : row[t].status = "queued" /\ enqueue[t].pc = "notified"
                    => ~Trusted(row[t].runtime)

(* What the version tag rests on: no tag is ahead of the version, and a    *)
(* verdict about to be written would be believed only if the queue is      *)
(* still empty of notified tasks.                                          *)
TagBehind(r) == verdict[r] # None => verdict[r] <= version[r]

ObservedBehind(c) ==
  At(c, "sampled") \/ At(c, "empty") => claim[c].observed <= version[claim[c].runtime]

EmptySound(c) ==
  At(c, "empty") /\ claim[c].observed = version[claim[c].runtime]
    => \A t \in QueuedOn(claim[c].runtime) : enqueue[t].pc = "inserted"

VerdictSound ==
  /\ \A r \in Runtimes : TagBehind(r)
  /\ \A c \in Claims : ObservedBehind(c) /\ EmptySound(c)

(* Every queued task reaches a daemon, is cancelled or goes with its       *)
(* runtime, whatever bumps and responses are lost and runtimes merged: a   *)
(* hidden task only waits for the TTL of the verdict, and a lost claim     *)
(* response for the reclaim.                                               *)
QueuedIsDelivered ==
  \A t \in Rows : row[t].status = "queued" ~> row[t].status \in {"left", "dropped"}

=============================================================================
