--------------------------- MODULE EmptyClaimProofs ---------------------------
(***************************************************************************)
(* As long as no INCR is lost and no runtime is merged, an empty verdict   *)
(* never hides a queued task whose enqueue has been notified, for any      *)
(* number of runtimes, tasks and claims in flight.                         *)
(***************************************************************************)
EXTENDS EmptyClaim, TLAPS

(* Without merges a row stays on the runtime its enqueue bumps.            *)
RowsStayPut ==
  /\ \A r \in Runtimes : runtime[r] = "live"
  /\ \A t \in Rows : row[t].status = "queued" =>
       enqueue[t].pc # "new" /\ row[t].runtime = enqueue[t].runtime

CacheInv == ClaimTypeOK /\ RowsStayPut /\ VerdictSound /\ QueuedIsClaimable

ClaimRec == [pc : {"idle", "polled", "sampled", "listed", "empty", "won"},
             runtime : Runtimes \cup {None}, observed : Nat, row : Rows \cup {None}]

(* What the steps of a claim that leave the cache and the rows alone keep. *)
ClaimOnly == UNCHANGED <<row, enqueue, cacheVars, runtime>>

-----------------------------------------------------------------------------
LEMMA CacheInit == ASSUME ClaimInit PROVE CacheInv
<1>1. ClaimTypeOK BY EmptyClaimAssumption DEF ClaimInit, ClaimTypeOK, NoClaim, At
<1>2. RowsStayPut BY DEF ClaimInit, RowsStayPut
<1>3. VerdictSound
  BY DEF ClaimInit, VerdictSound, TagBehind, ObservedBehind, EmptySound, NoClaim, At
<1>4. QueuedIsClaimable BY DEF ClaimInit, QueuedIsClaimable
<1> QED BY <1>1, <1>2, <1>3, <1>4 DEF CacheInv

(* A claim c moves to the record rec and nothing else changes: all that is *)
(* to show is what the invariant says of rec.                              *)
LEMMA ClaimMoves ==
  ASSUME CacheInv, NEW c \in Claims, NEW rec \in ClaimRec,
         ClaimOnly, held' \subseteq Rows,
         claim' = [claim EXCEPT ![c] = rec],
         rec.pc # "idle" => rec.runtime \in Runtimes,
         rec.pc = "won" => rec.row \in Rows,
         rec.pc \in {"sampled", "empty"} => rec.observed <= version[rec.runtime],
         rec.pc = "empty" /\ rec.observed = version[rec.runtime]
           => \A t \in QueuedOn(rec.runtime) : enqueue[t].pc = "inserted"
  PROVE CacheInv'
<1> USE DEF CacheInv, ClaimOnly, cacheVars
<1>1. /\ claim'[c] = rec
      /\ \A d \in Claims \ {c} : claim'[d] = claim[d]
      /\ claim' \in [Claims -> ClaimRec]
  BY DEF ClaimTypeOK, ClaimRec
<1>2. ClaimTypeOK'
  <2>1. \A d \in Claims : /\ ~At(d, "idle")' => claim'[d].runtime \in Runtimes
                          /\ At(d, "won")' => claim'[d].row \in Rows
    BY <1>1 DEF ClaimTypeOK, At
  <2> QED BY <1>1, <2>1 DEF ClaimTypeOK, ClaimRec
<1>3. RowsStayPut' BY DEF RowsStayPut
<1>4. QueuedIsClaimable' BY DEF QueuedIsClaimable, Trusted
<1>5. VerdictSound'
  <2>1. \A r \in Runtimes : TagBehind(r)' BY DEF VerdictSound, TagBehind
  <2>2. ASSUME NEW d \in Claims, d # c PROVE ObservedBehind(d)' /\ EmptySound(d)'
    BY <2>2, <1>1 DEF At, QueuedOn, VerdictSound, ObservedBehind, EmptySound
  <2>3. ObservedBehind(c)' BY <1>1 DEF At, ObservedBehind
  <2>4. EmptySound(c)' BY <1>1 DEF At, EmptySound, QueuedOn
  <2> QED BY <2>1, <2>2, <2>3, <2>4 DEF VerdictSound
<1> QED BY <1>2, <1>3, <1>4, <1>5

LEMMA ClaimEnds ==
  ASSUME CacheInv, NEW c \in Claims, ClaimOnly, held' \subseteq Rows,
         claim' = [claim EXCEPT ![c] = NoClaim]
  PROVE CacheInv'
<1>1. NoClaim \in ClaimRec /\ NoClaim.pc = "idle" BY DEF NoClaim, ClaimRec
<1> QED BY <1>1, ClaimMoves

(* A row changes its status, never to "queued".                            *)
RowRec == [status : {"absent", "queued", "dispatched", "left", "dropped"},
           runtime : Runtimes \cup {None}]

LEMMA RowsShrink ==
  ASSUME CacheInv, NEW t \in Rows, NEW s \in {"dispatched", "left"},
         row' = [row EXCEPT ![t].status = s]
  PROVE /\ row' \in [Rows -> RowRec]
        /\ \A u \in Rows : row'[u].runtime = row[u].runtime
        /\ \A u \in Rows : row'[u].status = "queued" => row[u].status = "queued"
<1>1. PICK old \in RowRec : old = row[t] BY DEF CacheInv, ClaimTypeOK, RowRec
<1>2. [old EXCEPT !.status = s] \in RowRec BY DEF RowRec
<1>3. row' = [row EXCEPT ![t] = [old EXCEPT !.status = s]] BY <1>1
<1> QED BY <1>1, <1>2, <1>3 DEF CacheInv, ClaimTypeOK, RowRec

(* Rows leave the queue, and no row joins it: the sets the invariant       *)
(* quantifies over only shrink.                                            *)
LEMMA RowsLeave ==
  ASSUME CacheInv, NEW t \in Rows, NEW s \in {"dispatched", "left"},
         row' = [row EXCEPT ![t].status = s],
         UNCHANGED <<enqueue, cacheVars, claim, held, runtime>>
  PROVE CacheInv'
<1> USE DEF CacheInv, cacheVars
<1>1. /\ row' \in [Rows -> RowRec]
      /\ \A u \in Rows : row'[u].runtime = row[u].runtime
      /\ \A u \in Rows : row'[u].status = "queued" => row[u].status = "queued"
  BY RowsShrink
<1>2. ClaimTypeOK' BY <1>1 DEF ClaimTypeOK, RowRec, At
<1>3. RowsStayPut' BY <1>1 DEF RowsStayPut
<1>4. QueuedIsClaimable' BY <1>1 DEF QueuedIsClaimable, Trusted
<1>5. VerdictSound'
  BY <1>1 DEF VerdictSound, TagBehind, ObservedBehind, EmptySound, QueuedOn, At
<1> QED BY <1>2, <1>3, <1>4, <1>5

-----------------------------------------------------------------------------
(* The steps of an enqueue.                                                *)

LEMMA InsertKeeps ==
  ASSUME CacheInv, NEW t \in Rows, NEW r \in Runtimes, Insert(t, r)
  PROVE CacheInv'
<1> USE DEF CacheInv, cacheVars, Insert
<1>1. /\ row'[t] = [status |-> "queued", runtime |-> r]
      /\ enqueue'[t] = [pc |-> "inserted", runtime |-> r]
      /\ \A u \in Rows \ {t} : row'[u] = row[u] /\ enqueue'[u] = enqueue[u]
  BY DEF ClaimTypeOK
<1>2. ClaimTypeOK' BY <1>1 DEF ClaimTypeOK, At
<1>3. RowsStayPut' BY <1>1 DEF RowsStayPut
<1>4. QueuedIsClaimable' BY <1>1 DEF QueuedIsClaimable, Trusted
<1>5. VerdictSound'
  BY <1>1 DEF VerdictSound, TagBehind, ObservedBehind, EmptySound, QueuedOn, At
<1> QED BY <1>2, <1>3, <1>4, <1>5

(* The new version exceeds every tag and every sampled version.            *)
LEMMA BumpKeeps ==
  ASSUME CacheInv, NEW t \in Rows, Bump(t)
  PROVE CacheInv'
<1> USE DEF CacheInv, Bump
<1>0. PICK r \in Runtimes : r = enqueue[t].runtime BY DEF ClaimTypeOK
<1>1. /\ version'[r] = version[r] + 1
      /\ \A q \in Runtimes \ {r} : version'[q] = version[q]
      /\ version' \in [Runtimes -> Nat]
  BY <1>0 DEF ClaimTypeOK
<1>2. /\ enqueue'[t].pc = "notified" /\ enqueue'[t].runtime = r
      /\ \A u \in Rows \ {t} : enqueue'[u] = enqueue[u]
      /\ enqueue' \in [Rows -> [pc : {"new", "inserted", "notified"},
                                runtime : Runtimes \cup {None}]]
  <2> DEFINE Enq == [pc : {"new", "inserted", "notified"}, runtime : Runtimes \cup {None}]
  <2>1. PICK old \in Enq : old = enqueue[t] BY DEF ClaimTypeOK
  <2>2. [old EXCEPT !.pc = "notified"] \in Enq OBVIOUS
  <2>3. enqueue' = [enqueue EXCEPT ![t] = [old EXCEPT !.pc = "notified"]] BY <2>1
  <2> QED BY <1>0, <2>1, <2>2, <2>3 DEF ClaimTypeOK
<1>3. \A q \in Runtimes : version[q] \in Nat /\ version[q] <= version'[q]
  BY <1>1 DEF ClaimTypeOK
<1>4. ClaimTypeOK' BY <1>1, <1>2 DEF ClaimTypeOK, At
<1>5. RowsStayPut' BY <1>2 DEF RowsStayPut
<1>6. QueuedIsClaimable'
  <2>1. ASSUME NEW u \in Rows, row[u].status = "queued", row[u].runtime # r
        PROVE enqueue'[u] = enqueue[u]
    BY <2>1, <1>0, <1>2 DEF RowsStayPut
  <2>2. ~Trusted(r)'
    BY <1>1, EmptyClaimAssumption DEF Trusted, VerdictSound, TagBehind, ClaimTypeOK
  <2>3. \A q \in Runtimes \ {r} : Trusted(q)' = Trusted(q)
    BY <1>1 DEF Trusted
  <2>4. \A u \in Rows : row[u].status = "queued" => row[u].runtime \in Runtimes
    BY DEF RowsStayPut, ClaimTypeOK
  <2> QED BY <2>1, <2>2, <2>3, <2>4 DEF QueuedIsClaimable
<1>7. VerdictSound'
  <2>1. \A q \in Runtimes : TagBehind(q)'
    BY <1>3, EmptyClaimAssumption DEF VerdictSound, TagBehind, ClaimTypeOK
  <2>2. \A c \in Claims : ObservedBehind(c)'
    BY <1>3 DEF VerdictSound, ObservedBehind, ClaimTypeOK, At
  <2>3. ASSUME NEW c \in Claims PROVE EmptySound(c)'
    <3> DEFINE q == claim[c].runtime
    <3> SUFFICES ASSUME At(c, "empty"), claim[c].observed = version'[q]
                 PROVE \A u \in QueuedOn(q) : enqueue'[u].pc = "inserted"
      BY DEF EmptySound, At, QueuedOn
    <3>1. q \in Runtimes /\ claim[c].observed \in Nat /\ claim[c].observed <= version[q]
      BY DEF ClaimTypeOK, At, VerdictSound, ObservedBehind
    <3>2. q # r BY <3>1, <1>1, <1>3
    <3>3. \A u \in QueuedOn(q) : enqueue[u].pc = "inserted"
      BY <3>1, <3>2, <1>1 DEF VerdictSound, EmptySound
    <3>4. \A u \in QueuedOn(q) : u # t BY <3>2, <1>0 DEF QueuedOn, RowsStayPut
    <3> QED BY <3>3, <3>4, <1>2 DEF QueuedOn
  <2> QED BY <2>1, <2>2, <2>3 DEF VerdictSound
<1> QED BY <1>4, <1>5, <1>6, <1>7

-----------------------------------------------------------------------------
(* The steps that write a verdict or remove a key.                         *)

LEMMA MarkEmptyKeeps ==
  ASSUME CacheInv, NEW c \in Claims, MarkEmpty(c)
  PROVE CacheInv'
<1> USE DEF CacheInv, MarkEmpty
<1>0. PICK r \in Runtimes : r = claim[c].runtime BY DEF ClaimTypeOK, At
<1>1. CASE verdict' = [verdict EXCEPT ![r] = claim[c].observed]
  <2>1. claim[c].observed \in Nat BY DEF ClaimTypeOK, At
  <2>2. claim[c].observed <= version[r] BY <1>0 DEF VerdictSound, ObservedBehind
  <2>3. /\ verdict'[r] = claim[c].observed
        /\ \A q \in Runtimes \ {r} : verdict'[q] = verdict[q]
        /\ verdict' \in [Runtimes -> Nat \cup {None}]
    BY <1>1, <2>1 DEF ClaimTypeOK
  <2>4. /\ claim'[c] = NoClaim
        /\ \A d \in Claims \ {c} : claim'[d] = claim[d]
        /\ claim' \in [Claims -> ClaimRec]
    BY DEF ClaimTypeOK, NoClaim, ClaimRec
  <2>5. ClaimTypeOK' BY <2>3, <2>4 DEF ClaimTypeOK, ClaimRec, NoClaim, At
  <2>6. RowsStayPut' BY DEF RowsStayPut
  <2>7. QueuedIsClaimable'
    <3>1. \A q \in Runtimes \ {r} : Trusted(q)' = Trusted(q) BY <2>3 DEF Trusted
    <3>2. Trusted(r)' => \A t \in QueuedOn(r) : enqueue[t].pc = "inserted"
      BY <1>0, <2>3 DEF Trusted, VerdictSound, EmptySound
    <3>3. \A t \in Rows : row[t].status = "queued" => row[t].runtime \in Runtimes
      BY DEF RowsStayPut, ClaimTypeOK
    <3> QED BY <3>1, <3>2, <3>3 DEF QueuedIsClaimable, QueuedOn
  <2>8. VerdictSound'
    <3>1. \A q \in Runtimes : TagBehind(q)'
      BY <2>2, <2>3 DEF VerdictSound, TagBehind
    <3>2. \A d \in Claims : ObservedBehind(d)' /\ EmptySound(d)'
      BY <2>4 DEF VerdictSound, ObservedBehind, EmptySound, At, QueuedOn, NoClaim
    <3> QED BY <3>1, <3>2 DEF VerdictSound
  <2> QED BY <2>5, <2>6, <2>7, <2>8
<1>2. CASE UNCHANGED verdict
  <2>1. ClaimOnly /\ held' \subseteq Rows BY <1>2 DEF ClaimOnly, cacheVars, ClaimTypeOK
  <2> QED BY <2>1, ClaimEnds
<1> QED BY <1>0, <1>1, <1>2

LEMMA VerdictExpiresKeeps ==
  ASSUME CacheInv, NEW r \in Runtimes, VerdictExpires(r)
  PROVE CacheInv'
<1> USE DEF CacheInv, VerdictExpires
<1>1. /\ verdict'[r] = None
      /\ \A q \in Runtimes \ {r} : verdict'[q] = verdict[q]
      /\ verdict' \in [Runtimes -> Nat \cup {None}]
  BY DEF ClaimTypeOK
<1>2. ClaimTypeOK' BY <1>1 DEF ClaimTypeOK, At
<1>3. RowsStayPut' BY DEF RowsStayPut
<1>4. QueuedIsClaimable'
  <2>1. \A q \in Runtimes : Trusted(q)' => Trusted(q) BY <1>1 DEF Trusted
  <2>2. \A t \in Rows : row[t].status = "queued" => row[t].runtime \in Runtimes
    BY DEF RowsStayPut, ClaimTypeOK
  <2> QED BY <2>1, <2>2 DEF QueuedIsClaimable
<1>5. VerdictSound'
  BY <1>1 DEF VerdictSound, TagBehind, ObservedBehind, EmptySound, QueuedOn, At
<1> QED BY <1>2, <1>3, <1>4, <1>5

LEMMA VersionExpiresKeeps ==
  ASSUME CacheInv, NEW r \in Runtimes, VersionExpires(r)
  PROVE CacheInv'
<1> USE DEF CacheInv, VersionExpires
<1>1. /\ version'[r] = 0
      /\ \A q \in Runtimes \ {r} : version'[q] = version[q]
      /\ version' \in [Runtimes -> Nat]
  BY DEF ClaimTypeOK
<1>2. ClaimTypeOK' BY <1>1 DEF ClaimTypeOK, At
<1>3. RowsStayPut' BY DEF RowsStayPut
<1>4. QueuedIsClaimable'
  <2>1. \A q \in Runtimes : Trusted(q)' => Trusted(q) BY <1>1 DEF Trusted
  <2>2. \A t \in Rows : row[t].status = "queued" => row[t].runtime \in Runtimes
    BY DEF RowsStayPut, ClaimTypeOK
  <2> QED BY <2>1, <2>2 DEF QueuedIsClaimable
<1>5. VerdictSound'
  <2>1. \A q \in Runtimes : TagBehind(q)' BY <1>1 DEF VerdictSound, TagBehind
  <2>2. ASSUME NEW c \in Claims PROVE ObservedBehind(c)' /\ EmptySound(c)'
    <3>1. CASE At(c, "sampled") \/ At(c, "empty")
      <4>1. claim[c].runtime \in Runtimes \ {r} BY <3>1 DEF ClaimTypeOK, At
      <4> QED BY <4>1, <1>1 DEF VerdictSound, ObservedBehind, EmptySound, QueuedOn, At
    <3>2. CASE ~(At(c, "sampled") \/ At(c, "empty"))
      BY <3>2 DEF ObservedBehind, EmptySound, At
    <3> QED BY <3>1, <3>2
  <2> QED BY <2>1, <2>2 DEF VerdictSound
<1> QED BY <1>2, <1>3, <1>4, <1>5

-----------------------------------------------------------------------------
(* The steps of a claim that move it forward.                              *)

LEMMA PollKeeps ==
  ASSUME CacheInv, NEW c \in Claims, NEW r \in Runtimes, Poll(c, r)
  PROVE CacheInv'
<1> DEFINE rec == [NoClaim EXCEPT !.pc = "polled", !.runtime = r]
<1>1. rec \in ClaimRec /\ rec.pc = "polled" /\ rec.runtime = r BY DEF NoClaim, ClaimRec
<1>2. ClaimOnly /\ held' \subseteq Rows /\ claim' = [claim EXCEPT ![c] = rec]
  BY DEF Poll, ClaimOnly, CacheInv, ClaimTypeOK
<1> HIDE DEF rec
<1> QED BY <1>1, <1>2, ClaimMoves

LEMMA ReclaimStaleKeeps ==
  ASSUME CacheInv, NEW c \in Claims, NEW r \in Runtimes, NEW t \in Rows,
         ReclaimStale(c, r, t)
  PROVE CacheInv'
<1> DEFINE rec == [NoClaim EXCEPT !.pc = "won", !.runtime = r, !.row = t]
<1>1. rec \in ClaimRec /\ rec.pc = "won" /\ rec.runtime = r /\ rec.row = t
  BY DEF NoClaim, ClaimRec
<1>2. ClaimOnly /\ held' \subseteq Rows /\ claim' = [claim EXCEPT ![c] = rec]
  BY DEF ReclaimStale, ClaimOnly, CacheInv, ClaimTypeOK
<1> HIDE DEF rec
<1> QED BY <1>1, <1>2, ClaimMoves

(* The sampled version is at most the current one, 0 included.             *)
LEMMA SampleVersionKeeps ==
  ASSUME CacheInv, NEW c \in Claims, SampleVersion(c)
  PROVE CacheInv'
<1>1. PICK old \in ClaimRec : old = claim[c] BY DEF CacheInv, ClaimTypeOK, ClaimRec
<1>2. old.runtime \in Runtimes /\ version[old.runtime] \in Nat
  BY <1>1 DEF SampleVersion, CacheInv, ClaimTypeOK, At
<1>3. PICK v \in {version[old.runtime], 0} :
        claim' = [claim EXCEPT ![c].pc = "sampled", ![c].observed = v]
  BY <1>1 DEF SampleVersion
<1> DEFINE rec == [old EXCEPT !.pc = "sampled", !.observed = v]
<1>4. /\ rec \in ClaimRec /\ rec.pc = "sampled"
      /\ rec.runtime = old.runtime /\ rec.observed <= version[old.runtime]
  <2>1. v \in Nat /\ v <= version[old.runtime] BY <1>2, <1>3
  <2>2. rec.observed = v /\ rec.pc = "sampled" /\ rec.runtime = old.runtime BY DEF ClaimRec
  <2>3. rec \in ClaimRec BY <2>1 DEF ClaimRec
  <2> QED BY <2>1, <2>2, <2>3
<1>5. ClaimOnly /\ held' \subseteq Rows /\ claim' = [claim EXCEPT ![c] = rec]
  BY <1>1, <1>3 DEF SampleVersion, ClaimOnly, CacheInv, ClaimTypeOK
<1> HIDE DEF rec
<1> QED BY <1>2, <1>4, <1>5, ClaimMoves

(* An empty listing is what makes the verdict sound.                       *)
LEMMA ListCandidatesKeeps ==
  ASSUME CacheInv, NEW c \in Claims, ListCandidates(c)
  PROVE CacheInv'
<1>1. PICK old \in ClaimRec : old = claim[c] BY DEF CacheInv, ClaimTypeOK, ClaimRec
<1>2. PICK pc \in {"empty", "listed"} :
        /\ claim' = [claim EXCEPT ![c].pc = pc]
        /\ pc = "empty" => QueuedOn(old.runtime) = {}
  BY <1>1 DEF ListCandidates, Move
<1> DEFINE rec == [old EXCEPT !.pc = pc]
<1>3. rec \in ClaimRec /\ rec.pc = pc /\ rec.runtime = old.runtime /\ rec.observed = old.observed
  BY DEF ClaimRec
<1>4. old.runtime \in Runtimes /\ old.observed <= version[old.runtime]
  BY <1>1 DEF ListCandidates, CacheInv, ClaimTypeOK, VerdictSound, ObservedBehind, At
<1>5. ClaimOnly /\ held' \subseteq Rows /\ claim' = [claim EXCEPT ![c] = rec]
  BY <1>1, <1>2 DEF ListCandidates, ClaimOnly, CacheInv, ClaimTypeOK
<1> HIDE DEF rec
<1> QED BY <1>2, <1>3, <1>4, <1>5, ClaimMoves

(* A claimed row leaves the queue and the claim ends or holds it: the two  *)
(* changes commute, so each of the two lemmas above shows a half.          *)
LEMMA ClaimListedKeeps ==
  ASSUME CacheInv, NEW c \in Claims, NEW t \in Rows, ClaimListed(c, t)
  PROVE CacheInv'
<1> USE DEF CacheInv, cacheVars, ClaimListed, Become
<1>1. PICK old \in ClaimRec : old = claim[c] BY DEF ClaimTypeOK, ClaimRec
<1>2. old.runtime \in Runtimes BY <1>1 DEF ClaimTypeOK, At
<1>3. PICK rec \in ClaimRec :
        /\ claim' = [claim EXCEPT ![c] = rec]
        /\ rec.pc \in {"won", "idle"}
        /\ rec.pc = "won" => rec.runtime \in Runtimes /\ rec.row = t
  <2>1. CASE row[t].runtime = claim[c].runtime
    <3> DEFINE r == [old EXCEPT !.pc = "won", !.row = t]
    <3>1. r \in ClaimRec /\ r.pc = "won" /\ r.runtime = old.runtime /\ r.row = t
      BY DEF ClaimRec
    <3>2. claim' = [claim EXCEPT ![c] = r] BY <1>1, <2>1 DEF ClaimTypeOK
    <3> QED BY <1>2, <3>1, <3>2
  <2>2. CASE row[t].runtime # claim[c].runtime
    <3>1. NoClaim \in ClaimRec /\ NoClaim.pc = "idle" BY DEF NoClaim, ClaimRec
    <3>2. claim' = [claim EXCEPT ![c] = NoClaim] BY <2>2
    <3> QED BY <3>1, <3>2
  <2> QED BY <2>1, <2>2
<1>4. /\ claim'[c] = rec
      /\ \A d \in Claims \ {c} : claim'[d] = claim[d]
      /\ claim' \in [Claims -> ClaimRec]
  BY <1>3 DEF ClaimTypeOK, ClaimRec
<1>5. /\ row' \in [Rows -> RowRec]
      /\ \A u \in Rows : row'[u].runtime = row[u].runtime
      /\ \A u \in Rows : row'[u].status = "queued" => row[u].status = "queued"
  BY RowsShrink
<1>6. ClaimTypeOK' BY <1>3, <1>4, <1>5 DEF ClaimTypeOK, ClaimRec, RowRec, At
<1>7. RowsStayPut' BY <1>5 DEF RowsStayPut
<1>8. QueuedIsClaimable' BY <1>5 DEF QueuedIsClaimable, Trusted
<1>9. VerdictSound'
  BY <1>3, <1>4, <1>5
  DEF VerdictSound, TagBehind, ObservedBehind, EmptySound, QueuedOn, At
<1> QED BY <1>6, <1>7, <1>8, <1>9

-----------------------------------------------------------------------------
LEMMA CacheStep ==
  ASSUME ~MayLoseBump, ~MayMerge, CacheInv, [ClaimNext]_claimVars
  PROVE CacheInv'
<1>1. CASE \E t \in Rows : \/ \E r \in Runtimes : Insert(t, r)
                          \/ Bump(t)
                          \/ LoseBump(t)
                          \/ DaemonStarts(t)
                          \/ Cancel(t)
  BY <1>1, InsertKeeps, BumpKeeps, RowsLeave
  DEF LoseBump, DaemonStarts, Cancel, Become
<1>2. CASE \E c \in Claims : ClaimStep(c)
  <2> PICK c \in Claims : ClaimStep(c) BY <1>2
  <2>1. CASE SampleVersion(c) BY <2>1, SampleVersionKeeps
  <2>2. CASE ListCandidates(c) BY <2>2, ListCandidatesKeeps
  <2>3. CASE MarkEmpty(c) BY <2>3, MarkEmptyKeeps
  <2>4. CASE \E t \in Rows : ClaimListed(c, t) BY <2>4, ClaimListedKeeps
  <2>5. CASE EmptyCacheHit(c) \/ ClaimNothing(c) \/ LoseRequest(c)
    <3>1. ClaimOnly /\ held' \subseteq Rows /\ claim' = [claim EXCEPT ![c] = NoClaim]
      BY <2>5 DEF EmptyCacheHit, ClaimNothing, LoseRequest, ClaimOnly, CacheInv, ClaimTypeOK
    <3> QED BY <3>1, ClaimEnds
  <2>6. CASE Respond(c)
    <3>1. ClaimOnly /\ held' \subseteq Rows /\ claim' = [claim EXCEPT ![c] = NoClaim]
      BY <2>6 DEF Respond, ClaimOnly, CacheInv, ClaimTypeOK
    <3> QED BY <3>1, ClaimEnds
  <2> QED BY <2>1, <2>2, <2>3, <2>4, <2>5, <2>6 DEF ClaimStep
<1>3. CASE \E c \in Claims, r \in Runtimes :
             Poll(c, r) \/ \E t \in Rows : ReclaimStale(c, r, t)
  BY <1>3, PollKeeps, ReclaimStaleKeeps
<1>4. CASE \E r \in Runtimes : VerdictExpires(r) \/ VersionExpires(r) \/ MergeDelete(r)
  <2>1. \A r \in Runtimes : ~MergeDelete(r) BY DEF CacheInv, RowsStayPut, MergeDelete
  <2> QED BY <1>4, <2>1, VerdictExpiresKeeps, VersionExpiresKeeps
<1>5. CASE \E old, new \in Runtimes : MergeTasks(old, new) BY <1>5 DEF MergeTasks
<1>6. CASE UNCHANGED claimVars
  <2>1. ClaimTypeOK' BY <1>6 DEF claimVars, cacheVars, CacheInv, ClaimTypeOK, At
  <2>2. RowsStayPut' BY <1>6 DEF claimVars, CacheInv, RowsStayPut
  <2>3. QueuedIsClaimable'
    BY <1>6 DEF claimVars, CacheInv, QueuedIsClaimable, Trusted
  <2>4. VerdictSound'
    BY <1>6 DEF claimVars, CacheInv, VerdictSound, TagBehind, ObservedBehind, EmptySound,
                QueuedOn, At
  <2> QED BY <2>1, <2>2, <2>3, <2>4 DEF CacheInv
<1> QED BY <1>1, <1>2, <1>3, <1>4, <1>5, <1>6 DEF ClaimNext

LEMMA CacheInvariant == ~MayLoseBump /\ ~MayMerge => (ClaimSpec => []CacheInv)
<1> SUFFICES ASSUME ~MayLoseBump, ~MayMerge PROVE ClaimSpec => []CacheInv OBVIOUS
<1>1. ClaimInit => CacheInv BY CacheInit
<1>2. CacheInv /\ [ClaimNext]_claimVars => CacheInv' BY CacheStep
<1> QED BY <1>1, <1>2, PTL DEF ClaimSpec

(* empty_claim_cache.go:12-34: a queued task is claimable on the next call *)
(* once its enqueue has returned; the version tag leaves no interleaving   *)
(* of slow claims, enqueues and expiring keys in which it stalls.          *)
THEOREM NoStalledTask == ~MayLoseBump /\ ~MayMerge => (ClaimSpec => []QueuedIsClaimable)
<1>1. CacheInv => QueuedIsClaimable BY DEF CacheInv
<1> QED BY <1>1, CacheInvariant, PTL

(* What the tag rests on: no tag and no sampled version is ahead of the    *)
(* version, and a claim about to write a verdict that would be believed    *)
(* has missed only tasks whose bump is still to come.                      *)
THEOREM TagsSound == ~MayLoseBump /\ ~MayMerge => (ClaimSpec => []VerdictSound)
<1>1. CacheInv => VerdictSound BY DEF CacheInv
<1> QED BY <1>1, CacheInvariant, PTL

-----------------------------------------------------------------------------
(* Whatever bumps are lost and runtimes merged: the types, and the order   *)
(* of the versions.  A lost bump makes a verdict wrong, it never makes a   *)
(* tag newer than the version it is compared with.                         *)
TagsInOrder == (\A r \in Runtimes : TagBehind(r)) /\ (\A c \in Claims : ObservedBehind(c))

LEMMA ClaimMovesInOrder ==
  ASSUME ClaimTypeOK, TagsInOrder, NEW c \in Claims, NEW rec \in ClaimRec,
         claim' = [claim EXCEPT ![c] = rec],
         rec.pc # "idle" => rec.runtime \in Runtimes,
         rec.pc = "won" => rec.row \in Rows,
         rec.pc \in {"sampled", "empty"} => rec.observed <= version[rec.runtime],
         row' \in [Rows -> RowRec], held' \subseteq Rows,
         \A r \in Runtimes : verdict'[r] # None => verdict'[r] <= version[r],
         verdict' \in [Runtimes -> Nat \cup {None}],
         UNCHANGED <<enqueue, version, runtime>>
  PROVE  ClaimTypeOK' /\ TagsInOrder'
<1>1. /\ claim'[c] = rec
      /\ \A d \in Claims \ {c} : claim'[d] = claim[d]
      /\ claim' \in [Claims -> ClaimRec]
  BY DEF ClaimTypeOK, ClaimRec
<1>2. \A d \in Claims : /\ ~At(d, "idle")' => claim'[d].runtime \in Runtimes
                        /\ At(d, "won")' => claim'[d].row \in Rows
  BY <1>1 DEF ClaimTypeOK, At
<1>3. ClaimTypeOK'
  BY <1>1, <1>2 DEF ClaimTypeOK, ClaimRec, RowRec
<1>4. \A r \in Runtimes : TagBehind(r)'
  BY DEF TagBehind
<1>5. \A d \in Claims : ObservedBehind(d)'
  BY <1>1 DEF TagsInOrder, ObservedBehind, At
<1> QED BY <1>3, <1>4, <1>5 DEF TagsInOrder

LEMMA ClaimStepInOrder ==
  ASSUME ClaimTypeOK, TagsInOrder, NEW c \in Claims,
         \/ ClaimStep(c)
         \/ \E r \in Runtimes : Poll(c, r) \/ \E t \in Rows : ReclaimStale(c, r, t)
  PROVE  ClaimTypeOK' /\ TagsInOrder'
<1>1. PICK old \in ClaimRec : old = claim[c]
  BY DEF ClaimTypeOK, ClaimRec
<1>2. /\ old.pc # "idle" => old.runtime \in Runtimes
      /\ old.pc \in {"sampled", "empty"} => old.observed <= version[old.runtime]
      /\ old.pc = "won" => old.row \in Rows
      /\ \A r \in Runtimes : version[r] \in Nat
      /\ \A r \in Runtimes : verdict[r] # None => verdict[r] <= version[r]
  BY <1>1 DEF ClaimTypeOK, TagsInOrder, ObservedBehind, TagBehind, At
<1>3. NoClaim \in ClaimRec /\ NoClaim.pc = "idle"
  BY DEF NoClaim, ClaimRec
<1>a. verdict \in [Runtimes -> Nat \cup {None}] /\ row \in [Rows -> RowRec] /\ held \subseteq Rows
  BY DEF ClaimTypeOK, RowRec
<1>4. CASE EmptyCacheHit(c) \/ ClaimNothing(c) \/ LoseRequest(c) \/ Respond(c)
  <2>1. /\ claim' = [claim EXCEPT ![c] = NoClaim] /\ held' \subseteq Rows
        /\ UNCHANGED <<row, verdict, enqueue, version, runtime>>
    BY <1>1, <1>2, <1>4, <1>a
    DEF EmptyCacheHit, ClaimNothing, LoseRequest, Respond, cacheVars, At
  <2> QED BY <1>2, <1>3, <1>a, <2>1, ClaimMovesInOrder
<1>5. CASE SampleVersion(c)
  <2>1. PICK v \in {version[old.runtime], 0} :
          claim' = [claim EXCEPT ![c].pc = "sampled", ![c].observed = v]
    BY <1>1, <1>5 DEF SampleVersion
  <2> DEFINE rec == [old EXCEPT !.pc = "sampled", !.observed = v]
  <2>2. old.runtime \in Runtimes /\ v \in Nat /\ v <= version[old.runtime]
    BY <1>1, <1>2, <1>5, <2>1 DEF SampleVersion, At
  <2>3. rec \in ClaimRec /\ rec.pc = "sampled" /\ rec.runtime = old.runtime /\ rec.observed = v
    BY <2>2 DEF ClaimRec
  <2>4. claim' = [claim EXCEPT ![c] = rec]
    BY <1>1, <2>1 DEF ClaimTypeOK
  <2>5. UNCHANGED <<row, verdict, held, enqueue, version, runtime>>
    BY <1>5 DEF SampleVersion, cacheVars
  <2> HIDE DEF rec
  <2> QED BY <1>2, <1>a, <2>2, <2>3, <2>4, <2>5, ClaimMovesInOrder
<1>6. CASE ListCandidates(c)
  <2>1. PICK pc \in {"empty", "listed"} : claim' = [claim EXCEPT ![c].pc = pc]
    BY <1>6 DEF ListCandidates, Move
  <2> DEFINE rec == [old EXCEPT !.pc = pc]
  <2>2. /\ rec \in ClaimRec /\ rec.pc = pc /\ rec.runtime = old.runtime
        /\ rec.observed = old.observed
    BY DEF ClaimRec
  <2>3. claim' = [claim EXCEPT ![c] = rec] /\ old.pc = "sampled"
    BY <1>1, <1>6, <2>1 DEF ClaimTypeOK, ListCandidates, At
  <2>4. UNCHANGED <<row, verdict, held, enqueue, version, runtime>>
    BY <1>6 DEF ListCandidates, cacheVars
  <2> HIDE DEF rec
  <2> QED BY <1>2, <1>a, <2>2, <2>3, <2>4, ClaimMovesInOrder
<1>7. CASE MarkEmpty(c)
  <2>1. /\ old.pc = "empty" /\ claim' = [claim EXCEPT ![c] = NoClaim]
        /\ \/ verdict' = [verdict EXCEPT ![old.runtime] = old.observed]
           \/ verdict' = verdict
        /\ UNCHANGED <<row, held, enqueue, version, runtime>>
    BY <1>1, <1>7 DEF MarkEmpty, At
  <2>2. old.observed \in Nat
    BY DEF ClaimRec
  <2>3. /\ verdict' \in [Runtimes -> Nat \cup {None}]
        /\ \A r \in Runtimes : verdict'[r] # None => verdict'[r] <= version[r]
    BY <1>2, <1>a, <2>1, <2>2
  <2> QED BY <1>3, <1>a, <2>1, <2>3, ClaimMovesInOrder
<1>8. ASSUME NEW t \in Rows, ClaimListed(c, t)
      PROVE  ClaimTypeOK' /\ TagsInOrder'
  <2>0. /\ row' = [row EXCEPT ![t].status = "dispatched"] /\ old.pc = "listed"
        /\ UNCHANGED <<verdict, held, enqueue, version, runtime>>
    BY <1>1, <1>8 DEF ClaimListed, Become, At, cacheVars
  <2>1. row' \in [Rows -> RowRec]
    <3>1. PICK was \in RowRec : was = row[t]
      BY <1>a
    <3>2. [was EXCEPT !.status = "dispatched"] \in RowRec
      BY DEF RowRec
    <3>3. row' = [row EXCEPT ![t] = [was EXCEPT !.status = "dispatched"]]
      BY <2>0, <3>1
    <3> QED BY <1>a, <3>2, <3>3
  <2>2. CASE row[t].runtime = claim[c].runtime
    <3> DEFINE rec == [old EXCEPT !.pc = "won", !.row = t]
    <3>1. rec \in ClaimRec /\ rec.pc = "won" /\ rec.runtime = old.runtime /\ rec.row = t
      BY DEF ClaimRec
    <3>2. claim' = [claim EXCEPT ![c] = rec]
      BY <1>1, <1>8, <2>2 DEF ClaimListed, ClaimTypeOK
    <3> HIDE DEF rec
    <3> QED BY <1>2, <1>a, <2>0, <2>1, <3>1, <3>2, ClaimMovesInOrder
  <2>3. CASE row[t].runtime # claim[c].runtime
    <3>1. claim' = [claim EXCEPT ![c] = NoClaim]
      BY <1>8, <2>3 DEF ClaimListed
    <3> QED BY <1>2, <1>3, <1>a, <2>0, <2>1, <3>1, ClaimMovesInOrder
  <2> QED BY <2>2, <2>3
<1>9. ASSUME NEW r \in Runtimes, Poll(c, r)
      PROVE  ClaimTypeOK' /\ TagsInOrder'
  <2> DEFINE rec == [NoClaim EXCEPT !.pc = "polled", !.runtime = r]
  <2>1. rec \in ClaimRec /\ rec.pc = "polled" /\ rec.runtime = r
    BY DEF NoClaim, ClaimRec
  <2>2. claim' = [claim EXCEPT ![c] = rec] /\ UNCHANGED <<row, enqueue, version, verdict, held, runtime>>
    BY <1>9 DEF Poll, cacheVars
  <2> HIDE DEF rec
  <2> QED BY <1>2, <1>a, <2>1, <2>2, ClaimMovesInOrder
<1>10. ASSUME NEW r \in Runtimes, NEW t \in Rows, ReclaimStale(c, r, t)
       PROVE  ClaimTypeOK' /\ TagsInOrder'
  <2> DEFINE rec == [NoClaim EXCEPT !.pc = "won", !.runtime = r, !.row = t]
  <2>1. rec \in ClaimRec /\ rec.pc = "won" /\ rec.runtime = r /\ rec.row = t
    BY DEF NoClaim, ClaimRec
  <2>2. claim' = [claim EXCEPT ![c] = rec] /\ UNCHANGED <<row, enqueue, version, verdict, held, runtime>>
    BY <1>10 DEF ReclaimStale, cacheVars
  <2> HIDE DEF rec
  <2> QED BY <1>2, <1>a, <2>1, <2>2, ClaimMovesInOrder
<1> QED BY <1>4, <1>5, <1>6, <1>7, <1>8, <1>9, <1>10 DEF ClaimStep

(* An enqueue, the daemon and the owner of a task: no claim moves.         *)
LEMMA RowStepInOrder ==
  ASSUME ClaimTypeOK, TagsInOrder, NEW t \in Rows,
         \/ \E r \in Runtimes : Insert(t, r)
         \/ Bump(t) \/ LoseBump(t) \/ DaemonStarts(t) \/ Cancel(t)
  PROVE  ClaimTypeOK' /\ TagsInOrder'
<1> DEFINE Enq == [pc : {"new", "inserted", "notified"}, runtime : Runtimes \cup {None}]
<1>1. PICK e \in Enq : e = enqueue[t]
  BY DEF ClaimTypeOK
<1>2. [e EXCEPT !.pc = "notified"] \in Enq /\ [e EXCEPT !.pc = "notified"].runtime = e.runtime
  OBVIOUS
<1>3. \A r \in Runtimes : version[r] \in Nat
  BY DEF ClaimTypeOK
<1>4. ASSUME NEW r \in Runtimes, Insert(t, r)
      PROVE  ClaimTypeOK' /\ TagsInOrder'
  BY <1>4 DEF Insert, cacheVars, ClaimTypeOK, TagsInOrder, TagBehind, ObservedBehind, At
<1>5. CASE Bump(t) \/ LoseBump(t)
  <2>1. /\ enqueue' = [enqueue EXCEPT ![t] = [e EXCEPT !.pc = "notified"]]
        /\ e.runtime \in Runtimes
        /\ \/ version' = version
           \/ version' = [version EXCEPT ![e.runtime] = @ + 1]
        /\ UNCHANGED <<row, verdict, claim, held, runtime>>
    BY <1>1, <1>5 DEF Bump, LoseBump, cacheVars, ClaimTypeOK
  <2>2. /\ enqueue' \in [Rows -> Enq]
        /\ \A u \in Rows : enqueue'[u].runtime = enqueue[u].runtime
        /\ \A u \in Rows : enqueue'[u].pc # "new" => enqueue[u].runtime \in Runtimes
    BY <1>1, <1>2, <2>1 DEF ClaimTypeOK
  <2>3. /\ version' \in [Runtimes -> Nat]
        /\ \A r \in Runtimes : version[r] <= version'[r]
    <3>1. CASE version' = [version EXCEPT ![e.runtime] = version[e.runtime] + 1]
      BY <1>3, <2>1, <3>1 DEF ClaimTypeOK
    <3>2. CASE version' = version
      BY <1>3, <3>2 DEF ClaimTypeOK
    <3> QED BY <2>1, <3>1, <3>2
  <2>4. ClaimTypeOK'
    BY <2>1, <2>2, <2>3 DEF ClaimTypeOK, At
  <2>5. \A r \in Runtimes : verdict[r] # None => verdict[r] \in Nat
    BY DEF ClaimTypeOK
  <2>6. \A r \in Runtimes : TagBehind(r)'
    BY <1>3, <2>1, <2>3, <2>5 DEF TagsInOrder, TagBehind
  <2>7. \A c \in Claims : ObservedBehind(c)'
    BY <1>3, <2>1, <2>3 DEF ClaimTypeOK, TagsInOrder, ObservedBehind, At
  <2> QED BY <2>4, <2>6, <2>7 DEF TagsInOrder
<1>6. CASE DaemonStarts(t) \/ Cancel(t)
  <2>1. PICK was \in RowRec : was = row[t]
    BY DEF ClaimTypeOK, RowRec
  <2>2. [was EXCEPT !.status = "left"] \in RowRec
    BY DEF RowRec
  <2>3. /\ row' = [row EXCEPT ![t] = [was EXCEPT !.status = "left"]]
        /\ UNCHANGED <<enqueue, version, verdict, claim, held, runtime>>
    BY <1>6, <2>1 DEF DaemonStarts, Cancel, Become, cacheVars
  <2>4. row' \in [Rows -> RowRec]
    BY <2>2, <2>3 DEF ClaimTypeOK, RowRec
  <2> QED BY <2>3, <2>4 DEF ClaimTypeOK, RowRec, TagsInOrder, TagBehind, ObservedBehind, At
<1> QED BY <1>4, <1>5, <1>6

(* Keys expire and runtimes are merged: no claim moves.                    *)
LEMMA RuntimeStepInOrder ==
  ASSUME ClaimTypeOK, TagsInOrder,
         \/ \E r \in Runtimes : VerdictExpires(r) \/ VersionExpires(r) \/ MergeDelete(r)
         \/ \E old, new \in Runtimes : MergeTasks(old, new)
  PROVE  ClaimTypeOK' /\ TagsInOrder'
<1>1. ASSUME NEW r \in Runtimes, VerdictExpires(r)
      PROVE  ClaimTypeOK' /\ TagsInOrder'
  BY <1>1 DEF VerdictExpires, ClaimTypeOK, TagsInOrder, TagBehind, ObservedBehind, At
<1>2. ASSUME NEW r \in Runtimes, VersionExpires(r)
      PROVE  ClaimTypeOK' /\ TagsInOrder'
  <2>1. /\ version' \in [Runtimes -> Nat]
        /\ \A q \in Runtimes \ {r} : version'[q] = version[q]
        /\ verdict[r] = None /\ \A c \in Claims : claim[c].runtime # r
        /\ UNCHANGED <<row, enqueue, verdict, claim, held, runtime>>
    BY <1>2 DEF VersionExpires, ClaimTypeOK
  <2> QED BY <2>1 DEF ClaimTypeOK, TagsInOrder, TagBehind, ObservedBehind, At
<1>3. ASSUME NEW r \in Runtimes, NEW s \in {"merging", "deleted"},
             runtime' = [runtime EXCEPT ![r] = s], row' \in [Rows -> RowRec],
             UNCHANGED <<enqueue, cacheVars, claim, held>>
      PROVE  ClaimTypeOK' /\ TagsInOrder'
  BY <1>3 DEF cacheVars, ClaimTypeOK, RowRec, TagsInOrder, TagBehind, ObservedBehind, At
<1>4. \A t \in Rows : row[t] \in RowRec
  BY DEF ClaimTypeOK, RowRec
<1>5. ASSUME NEW r \in Runtimes, MergeDelete(r)
      PROVE  ClaimTypeOK' /\ TagsInOrder'
  <2>1. \A was \in RowRec : [was EXCEPT !.status = "dropped"] \in RowRec
    BY DEF RowRec
  <2>2. row' \in [Rows -> RowRec]
    BY <1>4, <1>5, <2>1 DEF MergeDelete
  <2> QED BY <1>3, <1>5, <2>2 DEF MergeDelete
<1>6. ASSUME NEW old \in Runtimes, NEW new \in Runtimes, MergeTasks(old, new)
      PROVE  ClaimTypeOK' /\ TagsInOrder'
  <2>1. \A was \in RowRec : [was EXCEPT !.runtime = new] \in RowRec
    BY DEF RowRec
  <2>2. row' \in [Rows -> RowRec]
    BY <1>4, <1>6, <2>1 DEF MergeTasks
  <2> QED BY <1>3, <1>6, <2>2 DEF MergeTasks
<1> QED BY <1>1, <1>2, <1>5, <1>6

LEMMA TagsInvariant == ClaimSpec => [](ClaimTypeOK /\ TagsInOrder)
<1>1. ClaimInit => ClaimTypeOK /\ TagsInOrder
  BY CacheInit DEF CacheInv, VerdictSound, TagsInOrder
<1>2. ClaimTypeOK /\ TagsInOrder /\ [ClaimNext]_claimVars => (ClaimTypeOK /\ TagsInOrder)'
  <2> SUFFICES ASSUME ClaimTypeOK, TagsInOrder, [ClaimNext]_claimVars
               PROVE  ClaimTypeOK' /\ TagsInOrder'
    OBVIOUS
  <2>1. CASE ClaimNext
    BY <2>1, ClaimStepInOrder, RowStepInOrder, RuntimeStepInOrder DEF ClaimNext
  <2>2. CASE UNCHANGED claimVars
    BY <2>2 DEF claimVars, ClaimTypeOK, TagsInOrder, TagBehind, ObservedBehind, At
  <2> QED BY <2>1, <2>2
<1> QED BY <1>1, <1>2, PTL DEF ClaimSpec

(* Rows, claims and keys keep their types, with lost bumps and merges too. *)
THEOREM ClaimTypeCorrect == ClaimSpec => []ClaimTypeOK
BY TagsInvariant, PTL

(* No tag and no sampled version is ever ahead of the version key, with    *)
(* lost bumps, merged runtimes and expired keys too.                       *)
THEOREM TagsNeverAhead == ClaimSpec => []TagsInOrder
BY TagsInvariant, PTL

=============================================================================
