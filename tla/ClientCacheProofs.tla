-------------------------- MODULE ClientCacheProofs --------------------------
(* Proofs about the clients' query cache: for any sets of changes and      *)
(* mutations, any number of them in flight and any number of breaks, a     *)
(* settled entry shows what its client was told of.                        *)
(*                                                                         *)
(* CacheConverges speaks of settled states only, so the argument is about  *)
(* the others: what an unsettled state still has in hand that will repair  *)
(* the entry (Excused, Renewed, AwaitsEvents), and that each of these is   *)
(* given up only when it is redeemed.                                      *)
EXTENDS ClientCache, TLAPS

-----------------------------------------------------------------------------
(* The inductive invariant.                                                *)

Entry == [data : Contents, fetch : Contents \cup {Unread},
          inv : BOOLEAN, revert : BOOLEAN]
Event == [change : Changes, row : SUBSET Changes]

Sent(s) == {s[i] : i \in 1..Len(s)}
Unannounced == {p.change : p \in unpublished \cup Sent(events)}

(* A row is the server's at the commit of the change it announces.         *)
EventOK(p) == p.change \in p.row /\ p.row \subseteq server

Wiring ==
  /\ entry \in Entry /\ prev \in [Own -> Contents]
  /\ own \in [Own -> {"idle", "sent", "applied", "done"}]
  /\ unpublished \subseteq Event /\ events \in Seq(Event)
  /\ registered \in BOOLEAN /\ authed \in BOOLEAN /\ before \in BOOLEAN
  /\ authed => before
  /\ timer => kind = "list"
  /\ \A p \in unpublished \cup Sent(events) : EventOK(p)
  /\ \A m \in Own : own[m] = "applied" => m \in server

InFlight == \E m \in Own : own[m] \in {"sent", "applied"}

(* A debounced invalidation, the return to the workspace, or the end of a  *)
(* mutation is still to come and invalidates the entry.                    *)
Deferred == timer \/ (sock = "away" /\ Recovered)
Excused == Deferred \/ (kind # "timeline" /\ InFlight)

(* The entry is being read again, or will be when it is next observed.     *)
Renewed == entry.fetch # None \/ (entry.inv /\ ~active)

Missing == told \ (entry.data \cup overlooked)

(* A late row undid a newer change whose own event is still to come; if    *)
(* the socket drops first, the reconnect invalidates the entry.            *)
AwaitsEvents == /\ kind = "detail" /\ before
                /\ authed => registered /\ Missing \subseteq Unannounced

ToldShown == entry.data # None =>
  Excused \/ Renewed \/ Missing = {} \/ AwaitsEvents

JunkGone == entry.data # None =>
  Excused \/ Renewed \/ entry.data \subseteq server \cup overlooked

(* An answer on its way holds what the client was told of, or an           *)
(* invalidation is to come.                                                *)
FetchCovers == entry.fetch \notin {None, Unread} =>
  /\ entry.fetch \subseteq server
  /\ Deferred \/ told \subseteq entry.fetch \cup overlooked

CacheInv == CacheTypeOK /\ Wiring /\ FetchCovers /\ ToldShown /\ JunkGone

-----------------------------------------------------------------------------
(* Sequences of events.                                                    *)

LEMMA SentAppend ==
  ASSUME NEW S, NEW s \in Seq(S), NEW e \in S
  PROVE  Append(s, e) \in Seq(S) /\ Sent(Append(s, e)) = Sent(s) \cup {e}
BY DEF Sent

LEMMA SentTail ==
  ASSUME NEW S, NEW s \in Seq(S), s # <<>>
  PROVE  /\ Head(s) \in S /\ Tail(s) \in Seq(S)
         /\ Sent(s) = {Head(s)} \cup Sent(Tail(s))
<1>1. Len(s) \in Nat /\ Len(s) > 0 /\ Head(s) = s[1] /\ Head(s) \in S /\ Tail(s) \in Seq(S)
  OBVIOUS
<1>2. Len(Tail(s)) = Len(s) - 1 /\ \A i \in 1..Len(Tail(s)) : Tail(s)[i] = s[i + 1]
  OBVIOUS
<1>3. ASSUME NEW x \in Sent(s) PROVE x \in {Head(s)} \cup Sent(Tail(s))
  <2>1. PICK i \in 1..Len(s) : x = s[i]
    BY DEF Sent
  <2>2. CASE i = 1
    BY <2>1, <2>2, <1>1
  <2>3. CASE i # 1
    <3>1. i - 1 \in 1..Len(Tail(s)) /\ Tail(s)[i - 1] = x
      BY <2>1, <2>3, <1>1, <1>2
    <3> QED BY <3>1 DEF Sent
  <2> QED BY <2>2, <2>3
<1>4. ASSUME NEW x \in {Head(s)} \cup Sent(Tail(s)) PROVE x \in Sent(s)
  <2>1. CASE x = Head(s)
    BY <2>1, <1>1 DEF Sent
  <2>2. CASE x \in Sent(Tail(s))
    <3>1. PICK i \in 1..Len(Tail(s)) : x = Tail(s)[i]
      BY <2>2 DEF Sent
    <3>2. i + 1 \in 1..Len(s) /\ s[i + 1] = x
      BY <3>1, <1>1, <1>2
    <3> QED BY <3>2 DEF Sent
  <2> QED BY <2>1, <2>2, <1>4
<1> QED BY <1>1, <1>3, <1>4

LEMMA SentNone == Sent(<<>>) = {}
BY DEF Sent

-----------------------------------------------------------------------------
(* What the query library's operations do to an entry.                     *)

LEMMA SetDataEffect ==
  ASSUME NEW e \in Entry, NEW d \in Contents
  PROVE  /\ SetData(e, d) \in Entry
         /\ SetData(e, d).fetch = e.fetch
         /\ d = None => SetData(e, d) = e
         /\ d # None => SetData(e, d).data = d /\ ~SetData(e, d).inv
BY DEF SetData, Entry

LEMMA CancelEffect ==
  ASSUME NEW e \in Entry
  PROVE  Cancel(e) \in Entry /\ Cancel(e).data = e.data /\ Cancel(e).fetch = None
BY DEF Cancel, Entry, Contents

LEMMA FetchEffect ==
  ASSUME NEW e \in Entry
  PROVE  /\ Fetch(e) \in Entry /\ Fetch(e).data = e.data
         /\ Fetch(e).inv = e.inv /\ Fetch(e).fetch # None
         /\ Fetch(e).fetch \in {e.fetch, Unread}
BY CacheConstants DEF Fetch, Reading, Entry

(* An invalidated entry is read again, or marked while nobody looks.       *)
LEMMA InvalidateEffect ==
  ASSUME NEW e \in Entry
  PROVE  /\ Invalidate(e) \in Entry /\ Invalidate(e).data = e.data
         /\ Invalidate(e).fetch \in {e.fetch, Unread}
         /\ e.data # None => \/ Invalidate(e).fetch = Unread
                             \/ Invalidate(e).inv /\ ~active
<1>1. /\ Mark(e) \in Entry /\ Mark(e).data = e.data /\ Mark(e).fetch = e.fetch
      /\ e.data # None => Mark(e).inv
  BY DEF Mark, Exists, Entry
<1>2. ASSUME NEW f \in Entry
      PROVE  /\ Refetch(f) \in Entry /\ Refetch(f).data = f.data
             /\ Refetch(f).fetch \in {f.fetch, Unread}
             /\ f.data # None => Refetch(f).fetch = Unread
  BY DEF Refetch, Fetch, Reading, Entry
<1>3. CASE active
  BY <1>1, <1>2, <1>3 DEF Invalidate
<1>4. CASE ~active
  BY <1>1, <1>4 DEF Invalidate
<1> QED BY <1>3, <1>4

-----------------------------------------------------------------------------
(* The initial state.                                                      *)

LEMMA CacheInvInit == CacheInit => CacheInv
<1> SUFFICES ASSUME CacheInit PROVE CacheInv
  OBVIOUS
<1>1. CacheTypeOK
  BY CacheConstants DEF CacheInit, CacheTypeOK, Contents, Changes
<1>2. Wiring
  <2>1. Sent(events) = {} /\ events \in Seq(Event)
    BY SentNone DEF CacheInit
  <2> QED
    BY <2>1 DEF CacheInit, Wiring, Entry, Contents
<1>3. FetchCovers /\ ToldShown /\ JunkGone
  BY DEF CacheInit, FetchCovers, ToldShown, JunkGone
<1> QED BY <1>1, <1>2, <1>3 DEF CacheInv

-----------------------------------------------------------------------------
(* What a step may do, in the terms of the invariant. An answer on its way *)
(* stays good if what the client is told of meanwhile is weighed against   *)
(* it (Doomed).                                                            *)

LEMMA FetchStep ==
  ASSUME CacheInv, server \subseteq server',
         entry'.fetch \in {entry.fetch, None, Unread},
         \/ Deferred'
         \/ /\ Deferred => Deferred'
            /\ told' = told /\ overlooked \subseteq overlooked'
         \/ /\ Deferred => Deferred'
            /\ \E W : told' = told \cup W /\ overlooked \cup Doomed(W) \subseteq overlooked'
         \/ \E W : told' \subseteq W /\ Doomed(W) \subseteq overlooked'
  PROVE  FetchCovers'
<1> SUFFICES ASSUME entry'.fetch \notin {None, Unread}
             PROVE  /\ (entry.fetch \subseteq server)'
                    /\ Deferred' \/ (told \subseteq entry.fetch \cup overlooked)'
  BY DEF FetchCovers
<1>1. /\ entry'.fetch = entry.fetch /\ entry.fetch \notin {None, Unread}
      /\ entry.fetch \subseteq server
      /\ Deferred \/ told \subseteq entry.fetch \cup overlooked
  BY DEF CacheInv, FetchCovers
<1>2. \A W : Doomed(W) = W \ entry.fetch
  BY <1>1 DEF Doomed
<1> QED
  BY <1>1, <1>2

(* A step that leaves the entry's content alone and gives up no remedy.    *)
LEMMA QuietStep ==
  ASSUME CacheInv, server \subseteq server',
         entry'.data = entry.data,
         told' = told, overlooked \subseteq overlooked',
         Excused => Excused', Renewed => Excused' \/ Renewed',
         AwaitsEvents => Excused' \/ AwaitsEvents'
  PROVE  ToldShown' /\ JunkGone'
BY DEF CacheInv, ToldShown, JunkGone, Missing

(* A step that invalidates the entry.                                      *)
LEMMA InvalidatedStep ==
  ASSUME NEW e \in Entry, entry' = Invalidate(e), active' = active
  PROVE  ToldShown' /\ JunkGone'
BY InvalidateEffect, CacheConstants DEF ToldShown, JunkGone, Renewed

-----------------------------------------------------------------------------
(* Reads.                                                                  *)

LEMMA MountKeeps == ASSUME CacheInv, Mount PROVE CacheInv'
<1>1. /\ entry' \in Entry /\ entry'.data = entry.data
      /\ entry'.fetch \in {entry.fetch, Unread}
      /\ entry.inv \/ entry.fetch # None => entry'.fetch # None
  BY FetchEffect DEF CacheInv, Wiring, Mount
<1>2. CacheTypeOK'
  BY <1>1 DEF CacheInv, CacheTypeOK, Mount, Entry, conn, srv, mut, hist
<1>3. Wiring'
  BY <1>1 DEF CacheInv, Wiring, EventOK, Mount, conn, srv, mut, hist
<1>4. /\ Deferred' = Deferred /\ Excused' = Excused /\ AwaitsEvents' = AwaitsEvents
      /\ Renewed => Renewed'
  BY <1>1 DEF Deferred, Excused, InFlight, AwaitsEvents, Missing, Unannounced, Renewed,
              Recovered, Mount, conn, srv, mut, hist
<1>5. FetchCovers'
  BY <1>1, <1>4, FetchStep DEF Mount, srv, hist
<1>6. ToldShown' /\ JunkGone'
  BY <1>1, <1>4, QuietStep DEF Mount, srv, hist
<1> QED BY <1>2, <1>3, <1>5, <1>6 DEF CacheInv

LEMMA UnmountKeeps == ASSUME CacheInv, Unmount PROVE CacheInv'
<1>1. CacheTypeOK'
  BY DEF CacheInv, CacheTypeOK, Unmount, conn, srv, mut, hist
<1>2. Wiring'
  BY DEF CacheInv, Wiring, EventOK, Unmount, conn, srv, mut, hist
<1>3. /\ Deferred' = Deferred /\ Excused' = Excused /\ AwaitsEvents' = AwaitsEvents
      /\ Renewed => Renewed'
  BY DEF Deferred, Excused, InFlight, AwaitsEvents, Missing, Unannounced, Renewed,
         Recovered, Unmount, conn, srv, mut, hist
<1>4. FetchCovers'
  BY <1>3, FetchStep DEF Unmount, srv, hist
<1>5. ToldShown' /\ JunkGone'
  BY <1>3, QuietStep DEF Unmount, srv, hist
<1> QED BY <1>1, <1>2, <1>4, <1>5 DEF CacheInv

LEMMA FetchReadsKeeps == ASSUME CacheInv, FetchReads PROVE CacheInv'
<1>1. entry \in Entry /\ server \in SUBSET Changes /\ told \subseteq server
  BY DEF CacheInv, Wiring, CacheTypeOK
<1>2. /\ entry' \in Entry /\ entry'.data = entry.data /\ entry'.fetch = server
      /\ entry'.fetch # None
  BY <1>1, CacheConstants DEF FetchReads, Entry, Contents, Changes
<1>3. CacheTypeOK'
  BY <1>2 DEF CacheInv, CacheTypeOK, FetchReads, Entry, conn, srv, mut, hist
<1>4. Wiring'
  BY <1>2 DEF CacheInv, Wiring, EventOK, FetchReads, conn, srv, mut, hist
<1>5. Excused' = Excused /\ AwaitsEvents' = AwaitsEvents /\ Renewed'
  BY <1>2 DEF Deferred, Excused, InFlight, AwaitsEvents, Missing, Unannounced, Renewed,
              Recovered, FetchReads, conn, srv, mut, hist
<1>6. FetchCovers'
  BY <1>1, <1>2 DEF FetchCovers, FetchReads, srv, hist
<1>7. ToldShown' /\ JunkGone'
  BY <1>2, <1>5, QuietStep DEF FetchReads, srv, hist
<1> QED BY <1>3, <1>4, <1>6, <1>7 DEF CacheInv

LEMMA FetchDoneKeeps == ASSUME CacheInv, FetchDone PROVE CacheInv'
<1>1. entry \in Entry /\ told \subseteq server
  BY DEF CacheInv, Wiring, CacheTypeOK
<1>2. /\ entry' \in Entry /\ entry'.data = entry.fetch /\ entry'.fetch = None
      /\ entry.fetch \in Contents
  BY <1>1 DEF FetchDone, Entry, Contents
<1>3. CacheTypeOK'
  BY <1>2 DEF CacheInv, CacheTypeOK, FetchDone, Entry, Contents, conn, srv, mut
<1>4. Wiring'
  BY <1>2 DEF CacheInv, Wiring, EventOK, FetchDone, conn, srv, mut
<1>5. /\ entry.fetch \subseteq server
      /\ Deferred \/ told \subseteq entry.fetch \cup overlooked
  BY DEF CacheInv, FetchCovers, FetchDone
<1>6. Deferred' = Deferred
  BY DEF Deferred, Recovered, FetchDone, conn
<1>7. FetchCovers'
  BY <1>2 DEF FetchCovers
<1>8. ToldShown'
  <2>1. Deferred' \/ Missing' = {}
    BY <1>1, <1>2, <1>5, <1>6 DEF Missing, FetchDone
  <2> QED BY <2>1 DEF ToldShown, Excused
<1>9. JunkGone'
  BY <1>2, <1>5 DEF JunkGone, FetchDone, srv
<1> QED BY <1>3, <1>4, <1>7, <1>8, <1>9 DEF CacheInv

LEMMA FetchFailsKeeps == ASSUME CacheInv, FetchFails PROVE CacheInv'
<1>1. PICK m \in {entry.inv, entry.inv \/ entry.data # None} :
        entry' = [entry EXCEPT !.fetch = None, !.inv = m]
  BY DEF FetchFails
<1>2. /\ entry' \in Entry /\ entry'.data = entry.data /\ entry'.fetch = None
  BY <1>1 DEF CacheInv, Wiring, Entry, Contents
<1>3. CacheTypeOK'
  BY <1>2 DEF CacheInv, CacheTypeOK, FetchFails, Entry, conn, srv, mut
<1>4. Wiring'
  BY <1>2 DEF CacheInv, Wiring, EventOK, FetchFails, conn, srv, mut
<1>5. FetchCovers'
  BY <1>2 DEF FetchCovers
<1>6. ToldShown' /\ JunkGone'
  BY <1>2 DEF ToldShown, JunkGone, Missing, FetchFails, srv
<1> QED BY <1>3, <1>4, <1>5, <1>6 DEF CacheInv

LEMMA CollectKeeps == ASSUME CacheInv, Collect PROVE CacheInv'
<1>1. entry' \in Entry /\ entry'.data = None /\ entry'.fetch = None
  BY DEF Collect, Entry, Contents
<1>2. CacheTypeOK'
  BY <1>1 DEF CacheInv, CacheTypeOK, Collect, Entry, conn, srv, mut
<1>3. Wiring'
  BY <1>1 DEF CacheInv, Wiring, EventOK, Collect, conn, srv, mut
<1>4. FetchCovers' /\ ToldShown' /\ JunkGone'
  BY <1>1 DEF FetchCovers, ToldShown, JunkGone
<1> QED BY <1>2, <1>3, <1>4 DEF CacheInv

-----------------------------------------------------------------------------
(* The server: what it commits is announced in order of publication.       *)

LEMMA CommittedKeeps ==
  ASSUME CacheInv, NEW w \in Changes, Committed(w),
         UNCHANGED <<kind, client, conn, events, prev, hist>>,
         own' \in [Own -> {"idle", "sent", "applied", "done"}],
         InFlight => InFlight',
         \A m \in Own : own'[m] = "applied" => own[m] = "applied" \/ m = w
  PROVE  CacheInv'
<1>1. /\ server' = server \cup {w} /\ server' \subseteq Changes
      /\ unpublished' = unpublished \cup {[change |-> w, row |-> server']}
  BY DEF Committed, CacheInv, CacheTypeOK
<1>2. CacheTypeOK'
  BY <1>1 DEF CacheInv, CacheTypeOK, client, conn, hist
<1>3. Wiring'
  <2>1. unpublished' \subseteq Event
    BY <1>1 DEF CacheInv, Wiring, Event
  <2>2. \A p \in (unpublished \cup Sent(events))' : EventOK(p)'
    BY <1>1 DEF CacheInv, Wiring, EventOK
  <2>3. \A m \in Own : own'[m] = "applied" => m \in server'
    BY <1>1 DEF CacheInv, Wiring
  <2> QED BY <2>1, <2>2, <2>3 DEF CacheInv, Wiring, client, conn
<1>4. Deferred' = Deferred /\ Renewed' = Renewed /\ (Excused => Excused')
  BY DEF Deferred, Excused, Renewed, Recovered, client, conn
<1>5. AwaitsEvents => AwaitsEvents'
  <2>1. Unannounced \subseteq Unannounced'
    BY <1>1 DEF Unannounced
  <2> QED BY <2>1 DEF AwaitsEvents, Missing, client, conn, hist
<1>6. FetchCovers'
  BY <1>1, <1>4, FetchStep DEF client, hist
<1>7. ToldShown' /\ JunkGone'
  BY <1>1, <1>4, <1>5, QuietStep DEF client, hist
<1> QED BY <1>2, <1>3, <1>6, <1>7 DEF CacheInv

LEMMA ChangeKeeps ==
  ASSUME CacheInv, NEW w \in Remote, Change(w) PROVE CacheInv'
BY CommittedKeeps DEF Change, Changes, InFlight, mut, CacheInv, Wiring

LEMMA AcceptKeeps ==
  ASSUME CacheInv, NEW m \in Own, Accept(m) PROVE CacheInv'
<1>1. own \in [Own -> {"idle", "sent", "applied", "done"}]
  BY DEF CacheInv, Wiring
<1>2. /\ own' \in [Own -> {"idle", "sent", "applied", "done"}]
      /\ InFlight'
      /\ \A n \in Own : own'[n] = "applied" => own[n] = "applied" \/ n = m
  BY <1>1 DEF Accept, InFlight
<1> QED BY <1>2, CommittedKeeps DEF Accept, Changes

LEMMA PublishKeeps ==
  ASSUME CacheInv, NEW p \in unpublished, Publish(p) PROVE CacheInv'
<1>1. /\ unpublished \subseteq Event /\ events \in Seq(Event) /\ p \in Event
  BY DEF CacheInv, Wiring
<1>2. /\ events' \in Seq(Event)
      /\ Sent(events)' = IF registered THEN Sent(events) \cup {p} ELSE Sent(events)
  <2>1. CASE registered
    <3>1. events' = Append(events, p)
      BY <2>1 DEF Publish
    <3>2. Append(events, p) \in Seq(Event) /\ Sent(Append(events, p)) = Sent(events) \cup {p}
      BY <1>1, SentAppend
    <3> QED BY <2>1, <3>1, <3>2
  <2>2. CASE ~registered
    BY <1>1, <2>2 DEF Publish
  <2> QED BY <2>1, <2>2
<1>3. CacheTypeOK'
  BY DEF CacheInv, CacheTypeOK, Publish, client, conn, mut, hist
<1>4. Wiring'
  BY <1>1, <1>2 DEF CacheInv, Wiring, EventOK, Publish, client, conn, mut, hist
<1>5. Deferred' = Deferred /\ Renewed' = Renewed /\ Excused' = Excused
  BY DEF Deferred, Excused, InFlight, Renewed, Recovered, Publish, client, conn, mut
<1>6. AwaitsEvents => AwaitsEvents'
  <2>1. registered => Unannounced' = Unannounced
    BY <1>2 DEF Unannounced, Publish
  <2> QED BY <2>1 DEF AwaitsEvents, Missing, Publish, client, conn, hist
<1>7. FetchCovers'
  BY <1>5, FetchStep DEF Publish, client, hist
<1>8. ToldShown' /\ JunkGone'
  BY <1>5, <1>6, QuietStep DEF Publish, client, hist
<1> QED BY <1>3, <1>4, <1>7, <1>8 DEF CacheInv

-----------------------------------------------------------------------------
(* The socket.                                                             *)

LEMMA ConnectKeeps == ASSUME CacheInv, Connect PROVE CacheInv'
<1>1. CacheTypeOK'
  BY DEF CacheInv, CacheTypeOK, Connect, client, srv, mut, hist
<1>2. Wiring'
  BY DEF CacheInv, Wiring, EventOK, Connect, client, srv, mut, hist
<1>3. /\ Deferred' = Deferred /\ Excused' = Excused /\ AwaitsEvents' = AwaitsEvents
      /\ Renewed' = Renewed
  BY DEF Deferred, Excused, InFlight, AwaitsEvents, Missing, Unannounced, Renewed,
         Recovered, Connect, client, srv, mut, hist
<1>4. FetchCovers'
  BY <1>3, FetchStep DEF Connect, client, srv, hist
<1>5. ToldShown' /\ JunkGone'
  BY <1>3, QuietStep DEF Connect, client, srv, hist
<1> QED BY <1>1, <1>2, <1>4, <1>5 DEF CacheInv

LEMMA RegisterKeeps == ASSUME CacheInv, Register PROVE CacheInv'
<1>1. CacheTypeOK'
  BY DEF CacheInv, CacheTypeOK, Register, client, srv, mut, hist
<1>2. Wiring'
  BY DEF CacheInv, Wiring, EventOK, Register, client, srv, mut, hist
<1>3. /\ Deferred' = Deferred /\ Excused' = Excused
      /\ AwaitsEvents => AwaitsEvents'
      /\ Renewed' = Renewed
  BY DEF Deferred, Excused, InFlight, AwaitsEvents, Missing, Unannounced, Renewed,
         Recovered, Register, client, srv, mut, hist
<1>4. FetchCovers'
  BY <1>3, FetchStep DEF Register, client, srv, hist
<1>5. ToldShown' /\ JunkGone'
  BY <1>3, QuietStep DEF Register, client, srv, hist
<1> QED BY <1>1, <1>2, <1>4, <1>5 DEF CacheInv

(* A dropped socket takes the events on it along. The next one's auth_ack  *)
(* invalidates what AwaitsEvents speaks of.                                *)
LEMMA DropKeeps == ASSUME CacheInv, Drop PROVE CacheInv'
<1>1. CacheTypeOK'
  BY DEF CacheInv, CacheTypeOK, Drop, client, srv, mut, hist
<1>2. Wiring'
  <2>1. Sent(events)' = {} /\ events' \in Seq(Event)
    BY SentNone DEF Drop
  <2> QED
    BY <2>1 DEF CacheInv, Wiring, EventOK, Drop, client, srv, mut, hist
<1>3. /\ Deferred' = Deferred /\ Excused' = Excused
      /\ AwaitsEvents => AwaitsEvents'
      /\ Renewed' = Renewed
  BY DEF Deferred, Excused, InFlight, AwaitsEvents, Renewed, Recovered, Drop, client, mut
<1>4. FetchCovers'
  BY <1>3, FetchStep DEF Drop, client, srv, hist
<1>5. ToldShown' /\ JunkGone'
  BY <1>3, QuietStep DEF Drop, client, srv, hist
<1> QED BY <1>1, <1>2, <1>4, <1>5 DEF CacheInv

(* Leaving stops the timer and forgets the connection, but the keys these  *)
(* served are invalidated on the way back.                                 *)
LEMMA LeaveWorkspaceKeeps == ASSUME CacheInv, LeaveWorkspace PROVE CacheInv'
<1>1. CacheTypeOK'
  BY DEF CacheInv, CacheTypeOK, LeaveWorkspace, srv, mut, hist
<1>2. Wiring'
  <2>1. Sent(events)' = {} /\ events' \in Seq(Event)
    BY SentNone DEF LeaveWorkspace
  <2> QED
    BY <2>1 DEF CacheInv, Wiring, EventOK, LeaveWorkspace, srv, mut, hist
<1>3. /\ Deferred => Deferred'
      /\ Excused => Excused'
      /\ AwaitsEvents => Excused'
      /\ Renewed => Renewed'
  BY DEF CacheInv, Wiring, Deferred, Excused, InFlight, AwaitsEvents, Renewed, Recovered,
         LeaveWorkspace, mut
<1>4. FetchCovers'
  BY <1>3, FetchStep DEF LeaveWorkspace, srv, hist
<1>5. ToldShown' /\ JunkGone'
  BY <1>3, QuietStep DEF LeaveWorkspace, srv, hist
<1> QED BY <1>1, <1>2, <1>4, <1>5 DEF CacheInv

LEMMA OnAuthenticatedKeeps == ASSUME CacheInv, OnAuthenticated PROVE CacheInv'
<1>1. entry \in Entry /\ told \subseteq server
  BY DEF CacheInv, Wiring, CacheTypeOK
<1>2. CASE before /\ HearsReconnect
  <2>1. entry' = Invalidate(entry) /\ active' = active /\ entry' \in Entry
    BY <1>1, <1>2, InvalidateEffect DEF OnAuthenticated, OnReconnect
  <2>2. Tell(server) /\ told' = server
    BY <1>1, <1>2 DEF OnAuthenticated, Tell
  <2>3. CacheTypeOK'
    BY <2>1, <2>2 DEF CacheInv, CacheTypeOK, OnAuthenticated, Entry, srv, mut
  <2>4. Wiring'
    BY <2>1 DEF CacheInv, Wiring, EventOK, OnAuthenticated, srv, mut
  <2>5. FetchCovers'
    <3>1. told' \subseteq server /\ Doomed(server) \subseteq overlooked'
      BY <2>2 DEF Tell
    <3>2. entry'.fetch \in {entry.fetch, None, Unread}
      BY <1>1, <2>1, InvalidateEffect
    <3> QED BY <3>1, <3>2, FetchStep DEF OnAuthenticated, srv
  <2>6. ToldShown' /\ JunkGone'
    BY <1>1, <2>1, InvalidatedStep
  <2> QED BY <2>3, <2>4, <2>5, <2>6 DEF CacheInv
<1>3. CASE ~(before /\ HearsReconnect)
  <2>1. entry' = entry /\ UNCHANGED hist
    BY <1>3 DEF OnAuthenticated, OnReconnect
  <2>2. CacheTypeOK'
    BY <2>1 DEF CacheInv, CacheTypeOK, OnAuthenticated, srv, mut, hist
  <2>3. Wiring'
    BY <2>1 DEF CacheInv, Wiring, EventOK, OnAuthenticated, srv, mut
  <2>4. /\ Deferred' = Deferred /\ Excused' = Excused /\ Renewed' = Renewed
        /\ AwaitsEvents => AwaitsEvents'
    BY <1>3, <2>1 DEF Deferred, Excused, InFlight, AwaitsEvents, Renewed, Recovered,
                      HearsReconnect, OnAuthenticated, mut
  <2>5. FetchCovers'
    BY <2>1, <2>4, FetchStep DEF OnAuthenticated, srv, hist
  <2>6. ToldShown' /\ JunkGone'
    BY <2>1, <2>4, QuietStep DEF OnAuthenticated, srv, hist
  <2> QED BY <2>2, <2>3, <2>5, <2>6 DEF CacheInv
<1> QED BY <1>2, <1>3

LEMMA ReturnKeeps == ASSUME CacheInv, ReturnToWorkspace PROVE CacheInv'
<1>1. entry \in Entry /\ told \subseteq server
  BY DEF CacheInv, Wiring, CacheTypeOK
<1>2. CASE Recovered
  <2>1. entry' = Invalidate(entry) /\ active' = active /\ entry' \in Entry
    BY <1>1, <1>2, InvalidateEffect DEF ReturnToWorkspace, NewInstance
  <2>2. Tell(server) /\ told' = server
    BY <1>1, <1>2 DEF ReturnToWorkspace, Tell
  <2>3. CacheTypeOK'
    BY <2>1, <2>2 DEF CacheInv, CacheTypeOK, ReturnToWorkspace, Entry, srv, mut
  <2>4. Wiring'
    BY <2>1 DEF CacheInv, Wiring, EventOK, ReturnToWorkspace, srv, mut
  <2>5. FetchCovers'
    <3>1. told' \subseteq server /\ Doomed(server) \subseteq overlooked'
      BY <2>2 DEF Tell
    <3>2. entry'.fetch \in {entry.fetch, None, Unread}
      BY <1>1, <2>1, InvalidateEffect
    <3> QED BY <3>1, <3>2, FetchStep DEF ReturnToWorkspace, srv
  <2>6. ToldShown' /\ JunkGone'
    BY <1>1, <2>1, InvalidatedStep
  <2> QED BY <2>3, <2>4, <2>5, <2>6 DEF CacheInv
<1>3. CASE ~Recovered
  <2>1. entry' = entry /\ UNCHANGED hist
    BY <1>3 DEF ReturnToWorkspace, NewInstance
  <2>2. CacheTypeOK'
    BY <2>1 DEF CacheInv, CacheTypeOK, ReturnToWorkspace, srv, mut, hist
  <2>3. Wiring'
    BY <2>1 DEF CacheInv, Wiring, EventOK, ReturnToWorkspace, srv, mut
  <2>4. /\ Deferred' = Deferred /\ Excused' = Excused /\ Renewed' = Renewed
        /\ AwaitsEvents => AwaitsEvents'
    BY <1>3, <2>1 DEF Deferred, Excused, InFlight, AwaitsEvents, Renewed, Recovered,
                      ReturnToWorkspace, mut
  <2>5. FetchCovers'
    BY <2>1, <2>4, FetchStep DEF ReturnToWorkspace, srv, hist
  <2>6. ToldShown' /\ JunkGone'
    BY <2>1, <2>4, QuietStep DEF ReturnToWorkspace, srv, hist
  <2> QED BY <2>2, <2>3, <2>5, <2>6 DEF CacheInv
<1> QED BY <1>2, <1>3

-----------------------------------------------------------------------------
(* Events.                                                                 *)

LEMMA DeliveredEvent ==
  ASSUME CacheInv, Deliver
  PROVE  /\ Head(events) \in Event /\ EventOK(Head(events))
         /\ events' \in Seq(Event)
         /\ Sent(events) = {Head(events)} \cup Sent(events)'
         /\ authed /\ sock = "acked"
         /\ entry \in Entry /\ told \subseteq server /\ server \subseteq Changes
         /\ registered /\ before
         /\ server' = server /\ unpublished' = unpublished /\ active' = active
<1>1. events \in Seq(Event) /\ events # <<>> /\ events' = Tail(events)
  BY DEF CacheInv, Wiring, Deliver
<1>2. /\ Head(events) \in Event /\ Tail(events) \in Seq(Event)
      /\ Sent(events) = {Head(events)} \cup Sent(Tail(events))
  BY <1>1, SentTail
<1>3. EventOK(Head(events))
  BY <1>2 DEF CacheInv, Wiring
<1>4. /\ authed /\ sock = "acked" /\ registered /\ before
      /\ told \subseteq server /\ server \subseteq Changes /\ entry \in Entry
  BY <1>1 DEF CacheInv, Wiring, CacheTypeOK, Deliver
<1> QED BY <1>1, <1>2, <1>3, <1>4 DEF Deliver, srv

LEMMA DeliverTypes ==
  ASSUME CacheInv, Deliver, entry' \in Entry,
         told' = told \cup {Head(events).change},
         timer' \in BOOLEAN, timer' => kind = "list"
  PROVE  CacheTypeOK' /\ Wiring'
<1>1. /\ Head(events) \in Event /\ EventOK(Head(events))
      /\ events' \in Seq(Event)
      /\ Sent(events) = {Head(events)} \cup Sent(events)'
      /\ authed /\ sock = "acked" /\ registered
  BY DeliveredEvent
<1>2. CacheTypeOK'
  BY <1>1 DEF CacheInv, CacheTypeOK, Deliver, EventOK, Entry, conn, srv, mut
<1>3. Wiring'
  BY <1>1 DEF CacheInv, Wiring, Deliver, EventOK, conn, srv, mut
<1> QED BY <1>2, <1>3

LEMMA DeliverListKeeps ==
  ASSUME CacheInv, Deliver, kind = "list", timer' = TRUE,
         told' = told \cup {Head(events).change}, UNCHANGED <<entry, overlooked>>
  PROVE  CacheInv'
<1>1. entry \in Entry /\ server' = server
  BY DeliveredEvent
<1>2. CacheTypeOK' /\ Wiring'
  BY <1>1, DeliverTypes
<1>3. Deferred'
  BY DEF Deferred
<1>4. FetchCovers'
  BY <1>1, <1>3, FetchStep
<1>5. ToldShown' /\ JunkGone'
  BY <1>3 DEF ToldShown, JunkGone, Excused
<1> QED BY <1>2, <1>4, <1>5 DEF CacheInv

LEMMA PatchedEffect ==
  ASSUME NEW ev \in Event, EventOK(ev), entry \in Entry, server \subseteq Changes
  PROVE  /\ Patched(ev) \in Contents
         /\ Patched(ev) = None <=> entry.data = None
         /\ entry.data # None =>
              /\ ev.change \in Patched(ev)
              /\ Patched(ev) \subseteq server \cup entry.data
BY CacheConstants DEF Patched, EventOK, Event, Entry, Contents, Changes

LEMMA AnnouncedMeans ==
  ASSUME NEW w PROVE Announced(w) <=> w \notin Unannounced
BY DEF Announced, Unannounced, Sent

(* A merged row may take newer changes out of the entry: those whose       *)
(* events are still to come are what AwaitsEvents is about.                *)
LEMMA DeliverDetailKeeps ==
  ASSUME CacheInv, Deliver, kind = "detail",
         entry' = OnIssueEvent(Head(events)),
         told' = told \cup {Head(events).change},
         overlooked' = overlooked \cup Doomed({Head(events).change}) \cup Wiped \cup Undone,
         UNCHANGED timer
  PROVE  CacheInv'
<1> DEFINE ev == Head(events)
<1>1. /\ ev \in Event /\ EventOK(ev)
      /\ Sent(events) = {ev} \cup Sent(events)'
      /\ authed /\ sock = "acked" /\ registered /\ before
      /\ entry \in Entry /\ told \subseteq server /\ server \subseteq Changes
      /\ server' = server /\ unpublished' = unpublished /\ active' = active
  BY DeliveredEvent
<1>2. /\ Patched(ev) \in Contents
      /\ Patched(ev) = None <=> entry.data = None
      /\ entry.data # None =>
           /\ ev.change \in Patched(ev)
           /\ Patched(ev) \subseteq server \cup entry.data
  BY <1>1, PatchedEffect
<1>3. /\ entry' \in Entry /\ entry'.fetch = entry.fetch
      /\ entry.data = None => entry' = entry
      /\ entry.data # None => entry'.data = Patched(ev) /\ ~entry'.inv
  BY <1>1, <1>2, SetDataEffect DEF OnIssueEvent
<1>4. ~timer /\ timer' = timer
  BY DEF CacheInv, Wiring
<1>5. CacheTypeOK' /\ Wiring'
  BY <1>3, <1>4, DeliverTypes DEF CacheInv, CacheTypeOK
<1>6. /\ Deferred' = Deferred /\ Excused' = Excused /\ ~Deferred
  BY <1>1, <1>4 DEF Deferred, Excused, InFlight, Recovered, Deliver, conn, mut
<1>7. FetchCovers'
  <2> DEFINE W == {ev.change}
  <2>1. told' = told \cup W /\ overlooked \cup Doomed(W) \subseteq overlooked'
    OBVIOUS
  <2> QED BY <1>1, <1>3, <1>6, <2>1, FetchStep
<1>8. CASE entry'.data = None
  BY <1>8, <1>5, <1>7 DEF CacheInv, ToldShown, JunkGone
<1>9. CASE entry'.data # None /\ Excused
  BY <1>9, <1>5, <1>6, <1>7 DEF CacheInv, ToldShown, JunkGone
<1>10. CASE entry'.data # None /\ entry.fetch # None
  BY <1>10, <1>3, <1>5, <1>7 DEF CacheInv, ToldShown, JunkGone, Renewed
<1>11. CASE entry'.data # None /\ ~Excused /\ entry.fetch = None
  <2>1. /\ entry.data # None /\ entry'.data = Patched(ev) /\ ~entry'.inv
        /\ ev.change \in entry'.data /\ entry'.data \subseteq server \cup entry.data
    BY <1>11, <1>2, <1>3
  <2>2. entry.inv => Wiped = (told \ entry'.data) \cup (entry'.data \ server)
    BY <1>11, <2>1 DEF Wiped
  <2>3. JunkGone'
    <3>1. CASE entry.inv
      BY <2>2, <3>1, <1>1 DEF JunkGone
    <3>2. CASE ~entry.inv
      <4>1. entry.data \subseteq server \cup overlooked
        BY <1>11, <2>1, <3>2 DEF CacheInv, JunkGone, Renewed
      <4> QED BY <4>1, <2>1, <1>1 DEF JunkGone
    <3> QED BY <3>1, <3>2
  <2>4. Missing' \subseteq Unannounced'
    <3> SUFFICES ASSUME NEW x \in Missing' PROVE x \in Unannounced'
      OBVIOUS
    <3>1. x \in told /\ x # ev.change /\ x \notin entry'.data /\ x \notin overlooked'
      BY <2>1 DEF Missing
    <3>2. x \notin overlooked /\ x \notin Wiped /\ x \notin Undone
      BY <3>1
    <3>3. ~entry.inv
      BY <2>2, <3>1, <3>2
    <3>4. x \in Unannounced
      <4>1. CASE x \in entry.data
        BY <1>1, <2>1, <3>1, <3>2, <4>1, AnnouncedMeans DEF Undone
      <4>2. CASE x \notin entry.data
        <5>1. x \in Missing
          BY <3>1, <3>2, <4>2 DEF Missing
        <5>2. AwaitsEvents
          BY <1>11, <2>1, <3>3, <5>1 DEF CacheInv, ToldShown, Renewed
        <5> QED BY <1>1, <5>1, <5>2 DEF AwaitsEvents
      <4> QED BY <4>1, <4>2
    <3> QED BY <1>1, <3>1, <3>4 DEF Unannounced
  <2>5. AwaitsEvents'
    BY <1>1, <2>4 DEF AwaitsEvents, Deliver, conn
  <2> QED BY <2>3, <2>5, <1>5, <1>7 DEF CacheInv, ToldShown
<1> QED BY <1>8, <1>9, <1>10, <1>11

LEMMA DeliverTimelineKeeps ==
  ASSUME CacheInv, Deliver, kind = "timeline",
         NEW marked \in BOOLEAN, entry' = OnTimelineEvent(Head(events), marked),
         Tell({Head(events).change}), UNCHANGED timer
  PROVE  CacheInv'
<1> DEFINE ev == Head(events)
           W  == {ev.change}
<1>1. /\ ev \in Event /\ EventOK(ev)
      /\ authed /\ sock = "acked"
      /\ entry \in Entry /\ told \subseteq server /\ server \subseteq Changes
      /\ server' = server /\ active' = active
  BY DeliveredEvent
<1>2. ev.change \in server /\ ev.change \in Changes
  BY <1>1 DEF EventOK
<1>3. /\ told' = told \cup W
      /\ overlooked' = overlooked \cup Doomed(W) \cup Unfounded \cup Wiped
  BY DEF Tell
<1>4. CASE active
  <2> DEFINE d == IF entry.data = None THEN {ev.change} ELSE Add(entry.data, ev.change)
  <2>1. /\ d \in Contents /\ d # None
        /\ entry.data = None => d = W
        /\ entry.data # None => d = entry.data \cup W
    BY <1>1, <1>2, CacheConstants DEF Add, Entry, Contents, Changes
  <2>2. entry' = [SetData(entry, d) EXCEPT !.inv = marked]
    BY <1>4 DEF OnTimelineEvent
  <2>3. /\ SetData(entry, d) \in Entry /\ SetData(entry, d).fetch = entry.fetch
        /\ SetData(entry, d).data = d
    BY <1>1, <2>1, SetDataEffect
  <2> HIDE DEF d
  <2>4. /\ entry' \in Entry /\ entry'.fetch = entry.fetch /\ entry'.data = d
        /\ entry'.inv = marked
    BY <2>2, <2>3 DEF Entry
  <2>5. CacheTypeOK' /\ Wiring'
    BY <1>3, <2>4, DeliverTypes DEF CacheInv, CacheTypeOK, Wiring
  <2>6. Deferred' = Deferred
    BY DEF Deferred, Recovered, Deliver, conn
  <2>7. FetchCovers'
    BY <1>1, <1>3, <2>4, <2>6, FetchStep
  <2>8. ToldShown'
    <3>1. CASE entry.data = None
      BY <1>3, <2>1, <2>4, <3>1 DEF ToldShown, Missing, Unfounded
    <3>2. CASE entry.data # None /\ entry.fetch # None
      BY <2>4, <3>2 DEF ToldShown, Renewed
    <3>3. CASE entry.data # None /\ entry.fetch = None
      <4>1. ~Excused /\ ~Renewed /\ ~AwaitsEvents
        BY <1>1, <1>4, <3>3
           DEF CacheInv, Wiring, Excused, Deferred, Renewed, AwaitsEvents
      <4>2. Missing = {}
        BY <3>3, <4>1 DEF CacheInv, ToldShown
      <4> QED BY <1>3, <2>1, <2>4, <3>3, <4>2 DEF ToldShown, Missing
    <3> QED BY <3>1, <3>2, <3>3
  <2>9. JunkGone'
    <3>1. CASE entry.data = None
      BY <1>1, <1>2, <2>1, <2>4, <3>1 DEF JunkGone
    <3>2. CASE entry.data # None /\ entry.fetch # None
      BY <2>4, <3>2 DEF JunkGone, Renewed
    <3>3. CASE entry.data # None /\ entry.fetch = None
      <4>1. ~Excused /\ ~Renewed
        BY <1>1, <1>4, <3>3 DEF CacheInv, Wiring, Excused, Deferred, Renewed
      <4>2. entry.data \subseteq server \cup overlooked
        BY <3>3, <4>1 DEF CacheInv, JunkGone
      <4> QED BY <1>1, <1>2, <1>3, <2>1, <2>4, <3>3, <4>2 DEF JunkGone
    <3> QED BY <3>1, <3>2, <3>3
  <2> QED BY <2>5, <2>7, <2>8, <2>9 DEF CacheInv
<1>5. CASE ~active
  <2>1. /\ entry' \in Entry /\ entry'.data = entry.data /\ entry'.fetch = entry.fetch
        /\ entry.data # None => entry'.inv
    BY <1>1, <1>5 DEF OnTimelineEvent, Mark, Exists, Entry
  <2>2. CacheTypeOK' /\ Wiring'
    BY <1>3, <2>1, DeliverTypes DEF CacheInv, CacheTypeOK, Wiring
  <2>3. Deferred' = Deferred
    BY DEF Deferred, Recovered, Deliver, conn
  <2>4. FetchCovers'
    BY <1>1, <1>3, <2>1, <2>3, FetchStep
  <2>5. ToldShown' /\ JunkGone'
    BY <1>1, <1>5, <2>1 DEF ToldShown, JunkGone, Renewed
  <2> QED BY <2>2, <2>4, <2>5 DEF CacheInv
<1> QED BY <1>4, <1>5

LEMMA DeliverMessagesKeeps ==
  ASSUME CacheInv, Deliver, kind = "messages", entry' = OnChatDone(Head(events)),
         Tell({Head(events).change}), UNCHANGED timer
  PROVE  CacheInv'
<1> DEFINE ev == Head(events)
           W  == {ev.change}
           e  == SetData(entry, Add(entry.data, ev.change))
<1>1. /\ ev \in Event /\ EventOK(ev)
      /\ entry \in Entry /\ server \subseteq Changes
      /\ server' = server /\ active' = active
  BY DeliveredEvent
<1>2. Add(entry.data, ev.change) \in Contents
  BY <1>1 DEF Add, Entry, Event, Contents
<1>3. e \in Entry /\ e.fetch = entry.fetch
  BY <1>1, <1>2, SetDataEffect
<1>4. entry' = Invalidate(e)
  BY DEF OnChatDone
<1> HIDE DEF e
<1>5. entry' \in Entry /\ entry'.fetch \in {entry.fetch, Unread}
  BY <1>3, <1>4, InvalidateEffect
<1>6. /\ told' = told \cup W /\ overlooked \cup Doomed(W) \subseteq overlooked'
  BY DEF Tell
<1>7. CacheTypeOK' /\ Wiring'
  BY <1>5, <1>6, DeliverTypes DEF CacheInv, CacheTypeOK, Wiring
<1>8. Deferred' = Deferred
  BY DEF Deferred, Recovered, Deliver, conn
<1>9. FetchCovers'
  BY <1>1, <1>5, <1>6, <1>8, FetchStep
<1>10. ToldShown' /\ JunkGone'
  BY <1>1, <1>3, <1>4, InvalidatedStep
<1> QED BY <1>7, <1>9, <1>10 DEF CacheInv

LEMMA DeliverKeeps == ASSUME CacheInv, Deliver PROVE CacheInv'
BY DeliverListKeeps, DeliverDetailKeeps, DeliverTimelineKeeps, DeliverMessagesKeeps DEF Deliver

LEMMA FlushKeeps == ASSUME CacheInv, Flush PROVE CacheInv'
<1>1. entry \in Entry
  BY DEF CacheInv, Wiring
<1>2. entry' = Invalidate(entry) /\ active' = active
  BY DEF Flush, Refresh
<1>3. entry' \in Entry /\ entry'.fetch \in {entry.fetch, Unread}
  BY <1>1, <1>2, InvalidateEffect
<1>4. told' = told /\ Doomed(told) \subseteq overlooked'
  BY DEF Flush, Tell
<1>5. CacheTypeOK'
  BY <1>3, <1>4 DEF CacheInv, CacheTypeOK, Flush, Entry, conn, srv, mut
<1>6. Wiring'
  BY <1>3 DEF CacheInv, Wiring, EventOK, Flush, conn, srv, mut
<1>7. FetchCovers'
  BY <1>3, <1>4, FetchStep DEF Flush, srv
<1>8. ToldShown' /\ JunkGone'
  BY <1>1, <1>2, InvalidatedStep
<1> QED BY <1>5, <1>6, <1>7, <1>8 DEF CacheInv

-----------------------------------------------------------------------------
(* Mutations.                                                              *)

LEMMA MutateKeeps == ASSUME CacheInv, NEW m \in Own, Mutate(m) PROVE CacheInv'
<1> DEFINE e == IF kind = "list" THEN Cancel(entry) ELSE entry
<1>1. /\ entry \in Entry /\ m \in Changes
      /\ own \in [Own -> {"idle", "sent", "applied", "done"}] /\ prev \in [Own -> Contents]
  BY DEF CacheInv, Wiring, Changes
<1>2. /\ e \in Entry /\ e.data = entry.data /\ e.fetch \in {entry.fetch, None}
      /\ kind = "timeline" => e = entry
  BY <1>1, CancelEffect
<1>3. /\ entry' = OnMutate(m, e) /\ prev' = [prev EXCEPT ![m] = e.data]
      /\ own' = [own EXCEPT ![m] = "sent"]
  BY DEF Mutate
<1> HIDE DEF e
<1>4. e.data \in Contents /\ Add(e.data, m) \in Contents
  BY <1>1, <1>2 DEF Add, Entry, Contents
<1>5. /\ entry' \in Entry /\ entry'.fetch \in {entry.fetch, None}
      /\ kind = "timeline" => entry' = entry
  BY <1>2, <1>3, <1>4, SetDataEffect DEF OnMutate
<1>6. CacheTypeOK'
  BY <1>1, <1>3, <1>5 DEF CacheInv, CacheTypeOK, Mutate, Entry, conn, srv, hist
<1>7. Wiring'
  BY <1>1, <1>3, <1>4, <1>5 DEF CacheInv, Wiring, EventOK, Mutate, conn, srv, hist
<1>8. Deferred' = Deferred
  BY DEF Deferred, Recovered, Mutate, conn
<1>9. FetchCovers'
  BY <1>5, <1>8, FetchStep DEF Mutate, srv, hist
<1>10. CASE kind = "timeline"
  <2>1. /\ Excused' = Excused /\ Renewed' = Renewed
        /\ AwaitsEvents => AwaitsEvents'
    BY <1>5, <1>8, <1>10 DEF Excused, Renewed, AwaitsEvents, Mutate
  <2>2. ToldShown' /\ JunkGone'
    BY <1>5, <1>10, <2>1, QuietStep DEF Mutate, srv, hist
  <2> QED BY <2>2, <1>6, <1>7, <1>9 DEF CacheInv
<1>11. CASE kind # "timeline"
  <2>1. Excused'
    BY <1>1, <1>3, <1>11 DEF Excused, InFlight, Mutate
  <2> QED BY <2>1, <1>6, <1>7, <1>9 DEF CacheInv, ToldShown, JunkGone
<1> QED BY <1>10, <1>11

LEMMA SucceedKeeps == ASSUME CacheInv, NEW m \in Own, Succeed(m) PROVE CacheInv'
<1> DEFINE W == {m}
           f == OnSuccess(m, entry)
<1>1. /\ entry \in Entry /\ m \in Changes /\ told \subseteq server
      /\ own \in [Own -> {"idle", "sent", "applied", "done"}] /\ prev \in [Own -> Contents]
      /\ m \in server /\ server \subseteq Changes
  BY DEF CacheInv, Wiring, CacheTypeOK, Changes, Succeed
<1>2. /\ own' = [own EXCEPT ![m] = "done"] /\ prev' = [prev EXCEPT ![m] = None]
      /\ entry' = OnSettled(f)
      /\ told' = told \cup W
      /\ overlooked' = overlooked \cup Doomed(W) \cup Unfounded \cup Wiped
      /\ server' = server /\ active' = active
  BY DEF Succeed, Answered, Tell, srv
<1>3. Deferred' = Deferred
  BY DEF Deferred, Recovered, Succeed, conn
<1>4. ASSUME entry' \in Entry PROVE CacheTypeOK' /\ Wiring'
  <2>1. CacheTypeOK'
    BY <1>1, <1>2, <1>4 DEF CacheInv, CacheTypeOK, Succeed, Entry, conn, srv
  <2>2. None \in Contents
    BY DEF Contents
  <2>3. Wiring'
    BY <1>1, <1>2, <1>4, <2>2 DEF CacheInv, Wiring, EventOK, Succeed, conn, srv
  <2> QED BY <2>1, <2>3
<1>5. CASE kind = "timeline"
  <2> DEFINE d == IF entry.data = None THEN {m} ELSE Add(entry.data, m)
  <2>1. /\ d \in Contents /\ d # None
        /\ entry.data = None => d = W
        /\ entry.data # None => d = entry.data \cup W
    <3>1. {m} \in SUBSET Changes /\ (entry.data # None => entry.data \cup {m} \in SUBSET Changes)
      BY <1>1 DEF Entry, Contents
    <3>2. \A X \in SUBSET Changes : X # None
      BY CacheConstants DEF Changes
    <3> QED BY <3>1, <3>2 DEF Add, Contents
  <2>2. entry' = SetData(entry, d)
    BY <1>2, <1>5 DEF OnSettled, OnSuccess
  <2> HIDE DEF d
  <2>3. /\ entry' \in Entry /\ entry'.fetch = entry.fetch
        /\ entry'.data = d /\ ~entry'.inv
    BY <1>1, <2>1, <2>2, SetDataEffect
  <2>4. FetchCovers'
    BY <1>2, <1>3, <2>3, FetchStep
  <2>5. ToldShown' /\ JunkGone'
    <3>1. CASE entry.data = None
      BY <1>1, <1>2, <2>1, <2>3, <3>1 DEF ToldShown, JunkGone, Missing, Unfounded
    <3>2. CASE entry.data # None /\ entry.fetch # None
      BY <2>3, <3>2 DEF ToldShown, JunkGone, Renewed
    <3>3. CASE entry.data # None /\ entry.fetch = None /\ Excused
      <4>1. Excused'
        BY <1>3, <1>5, <3>3 DEF Excused
      <4> QED BY <4>1 DEF ToldShown, JunkGone
    <3>4. CASE entry.data # None /\ entry.fetch = None /\ ~Excused /\ ~entry.inv
      <4>1. ~Renewed /\ ~AwaitsEvents
        BY <1>5, <3>4 DEF Renewed, AwaitsEvents
      <4>2. Missing = {} /\ entry.data \subseteq server \cup overlooked
        BY <3>4, <4>1 DEF CacheInv, ToldShown, JunkGone
      <4> QED BY <1>1, <1>2, <2>1, <2>3, <3>4, <4>2 DEF ToldShown, JunkGone, Missing
    <3>5. CASE entry.data # None /\ entry.fetch = None /\ entry.inv
      <4>1. Wiped = (told \ entry'.data) \cup (entry'.data \ server)
        BY <2>1, <2>3, <3>5 DEF Wiped
      <4> QED BY <1>1, <1>2, <2>1, <2>3, <4>1 DEF ToldShown, JunkGone, Missing
    <3> QED BY <3>1, <3>2, <3>3, <3>4, <3>5
  <2> QED BY <2>3, <2>4, <2>5, <1>4 DEF CacheInv
<1>6. CASE kind # "timeline"
  <2>1. entry' = Invalidate(entry)
    BY <1>2, <1>6 DEF OnSettled, OnSuccess
  <2>2. entry' \in Entry /\ entry'.fetch \in {entry.fetch, Unread}
    BY <1>1, <2>1, InvalidateEffect
  <2>3. FetchCovers'
    BY <1>2, <1>3, <2>2, FetchStep
  <2>4. ToldShown' /\ JunkGone'
    BY <1>1, <1>2, <2>1, InvalidatedStep
  <2> QED BY <2>2, <2>3, <2>4, <1>4 DEF CacheInv
<1> QED BY <1>5, <1>6

LEMMA FailKeeps == ASSUME CacheInv, NEW m \in Own, Fail(m) PROVE CacheInv'
<1> DEFINE f == OnError(m, entry)
<1>1. /\ entry \in Entry /\ prev[m] \in Contents
      /\ own \in [Own -> {"idle", "sent", "applied", "done"}] /\ prev \in [Own -> Contents]
  BY DEF CacheInv, Wiring
<1>2. /\ own' = [own EXCEPT ![m] = "done"] /\ prev' = [prev EXCEPT ![m] = None]
      /\ entry' = OnSettled(f)
      /\ told' = told /\ overlooked \subseteq overlooked'
      /\ server' = server /\ active' = active
  BY DEF Fail, Answered, srv
<1>3. Deferred' = Deferred
  BY DEF Deferred, Recovered, Fail, conn
<1>4. ASSUME entry' \in Entry PROVE CacheTypeOK' /\ Wiring'
  <2>1. CacheTypeOK'
    BY <1>1, <1>2, <1>4 DEF CacheInv, CacheTypeOK, Fail, Entry, conn, srv
  <2>2. None \in Contents
    BY DEF Contents
  <2>3. Wiring'
    BY <1>1, <1>2, <1>4, <2>2 DEF CacheInv, Wiring, EventOK, Fail, conn, srv
  <2> QED BY <2>1, <2>3
<1>5. CASE kind = "timeline"
  <2>1. entry' = entry
    BY <1>2, <1>5 DEF OnSettled, OnError
  <2>2. /\ Excused' = Excused /\ Renewed' = Renewed
        /\ AwaitsEvents => AwaitsEvents'
    BY <1>2, <1>3, <1>5, <2>1 DEF Excused, Renewed, AwaitsEvents, Fail
  <2>3. FetchCovers'
    BY <1>2, <1>3, <2>1, FetchStep
  <2>4. ToldShown' /\ JunkGone'
    BY <1>2, <2>1, <2>2, QuietStep
  <2> QED BY <1>1, <2>1, <2>3, <2>4, <1>4 DEF CacheInv
<1>6. CASE kind # "timeline"
  <2>1. entry' = Invalidate(f) /\ f = SetData(entry, prev[m])
    BY <1>2, <1>6 DEF OnSettled, OnError
  <2>2. f \in Entry /\ f.fetch = entry.fetch
    BY <1>1, <2>1, SetDataEffect
  <2> HIDE DEF f
  <2>3. entry' \in Entry /\ entry'.fetch \in {entry.fetch, Unread}
    BY <2>1, <2>2, InvalidateEffect
  <2>4. FetchCovers'
    BY <1>2, <1>3, <2>3, FetchStep
  <2>5. ToldShown' /\ JunkGone'
    BY <1>2, <2>1, <2>2, InvalidatedStep
  <2> QED BY <2>3, <2>4, <2>5, <1>4 DEF CacheInv
<1> QED BY <1>5, <1>6

LEMMA CacheStutterKeeps == ASSUME CacheInv, UNCHANGED vars PROVE CacheInv'
<1>1. CacheTypeOK' /\ Wiring'
  BY DEF CacheInv, CacheTypeOK, Wiring, EventOK, vars, client, conn, srv, mut, hist
<1>2. /\ Deferred' = Deferred /\ Excused' = Excused /\ Renewed' = Renewed
      /\ AwaitsEvents' = AwaitsEvents
  BY DEF Deferred, Excused, InFlight, Renewed, AwaitsEvents, Missing, Unannounced,
         Recovered, vars, client, conn, srv, mut, hist
<1>3. FetchCovers'
  BY <1>2, FetchStep DEF vars, client, srv, hist
<1>4. ToldShown' /\ JunkGone'
  BY <1>2, QuietStep DEF vars, client, srv, hist
<1> QED BY <1>1, <1>3, <1>4 DEF CacheInv

-----------------------------------------------------------------------------
(* The theorems.                                                           *)

LEMMA CacheInvStep == ASSUME CacheInv, [CacheNext]_vars PROVE CacheInv'
<1>1. CASE Mount \/ Unmount \/ FetchReads \/ FetchDone \/ FetchFails \/ Collect
  BY <1>1, MountKeeps, UnmountKeeps, FetchReadsKeeps, FetchDoneKeeps, FetchFailsKeeps,
     CollectKeeps
<1>2. CASE \E w \in Remote : Change(w)
  BY <1>2, ChangeKeeps
<1>3. CASE \E p \in unpublished : Publish(p)
  BY <1>3, PublishKeeps
<1>4. CASE \/ Connect \/ Register \/ OnAuthenticated \/ Drop
           \/ LeaveWorkspace \/ ReturnToWorkspace
  BY <1>4, ConnectKeeps, RegisterKeeps, OnAuthenticatedKeeps, DropKeeps,
     LeaveWorkspaceKeeps, ReturnKeeps
<1>5. CASE Deliver \/ Flush
  BY <1>5, DeliverKeeps, FlushKeeps
<1>6. CASE \E m \in Own : Mutate(m) \/ Accept(m) \/ Succeed(m) \/ Fail(m)
  BY <1>6, MutateKeeps, AcceptKeeps, SucceedKeeps, FailKeeps
<1>7. CASE UNCHANGED vars
  BY <1>7, CacheStutterKeeps
<1> QED BY <1>1, <1>2, <1>3, <1>4, <1>5, <1>6, <1>7 DEF CacheNext

(* Whatever an unsettled entry lacks, something still in hand repairs it:  *)
(* a timer, a settling mutation, a read in flight, a mark to be honoured   *)
(* on mount, an event to come or a reconnect.                              *)
THEOREM CacheInvariant == CacheSpec => []CacheInv
BY CacheInvInit, CacheInvStep, PTL DEF CacheSpec

(* Types, and what a dead socket leaves behind: WSClient.disconnect drops  *)
(* its events, no debounce timer outlives its client.                      *)
THEOREM CacheTypeCorrect == CacheSpec => []CacheTypeOK
<1>1. CacheInv => CacheTypeOK
  BY DEF CacheInv
<1> QED BY <1>1, CacheInvariant, PTL

(* A settled entry shows every change the client was told of and nothing   *)
(* the server refused, apart from the losses named in overlooked: events,  *)
(* debounced invalidations, optimistic patches and their rollbacks, resets *)
(* and reads in flight, in any order.                                      *)
THEOREM EntriesConverge == CacheSpec => []CacheConverges
<1>1. CacheInv => CacheConverges
  <2> SUFFICES ASSUME CacheInv, Settled, entry.data # None, active \/ ~entry.inv
               PROVE  /\ told \ overlooked \subseteq entry.data
                      /\ entry.data \ overlooked \subseteq server
    BY DEF CacheConverges
  <2>1. ~Renewed
    BY DEF Renewed, Settled
  <2>2. ~Excused
    BY DEF CacheInv, CacheTypeOK, Excused, Deferred, InFlight, Settled
  <2>3. Unannounced = {}
    BY SentNone DEF Unannounced, Settled
  <2>4. Missing = {}
    BY <2>1, <2>2, <2>3 DEF CacheInv, ToldShown, AwaitsEvents, Settled
  <2>5. entry.data \subseteq server \cup overlooked
    BY <2>1, <2>2 DEF CacheInv, JunkGone
  <2> QED BY <2>4, <2>5 DEF Missing
<1> QED BY <1>1, CacheInvariant, PTL

=============================================================================
