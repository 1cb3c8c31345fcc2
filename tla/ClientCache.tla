----------------------------- MODULE ClientCache -----------------------------
(* One entry of the clients' query cache, kept fresh by events.            *)
(*                                                                         *)
(* The web and desktop clients never poll: entries are read once           *)
(* (staleTime: Infinity) and then kept right by WebSocket events, which    *)
(* invalidate or patch them (use-realtime-sync.ts), by an invalidation     *)
(* when the socket comes back, and by what mutations do when they settle.  *)
(* A behaviour follows one entry, of the kind chosen in CacheInit:         *)
(*   list      labels: a debounced invalidation per event                  *)
(*   detail    an issue: the event's payload is merged, nothing is read    *)
(*   timeline  an issue's comments: merged while mounted, else marked      *)
(*   messages  a chat: patched and invalidated, forgotten by reconnects    *)
(* What a resource holds is the set of changes made to it so far; an       *)
(* optimistic change is in the entry before the server has it.             *)
(* The query library is external: a set clears the stale mark, a success   *)
(* overwrites the entry and clears the mark, an invalidation marks and, if *)
(* the entry is mounted, reads again, but joins a first read in flight.    *)
EXTENDS Integers, FiniteSets, Sequences

CONSTANTS
  Remote,     \* changes made by others
  Partial,    \* those of them whose event carries one field of the row (metadata)
  Own,        \* mutations of this client
  Base,       \* what the resource held before
  None, Unread,
  Kinds,      \* the kinds of entry of the instance
  MaxBreaks   \* how often the socket drops or the workspace is left

ASSUME CacheConstants ==
  /\ Partial \subseteq Remote /\ Remote \cap Own = {}
  /\ Base \notin Remote \cup Own
  /\ None # Unread
  /\ \A W \in SUBSET (Remote \cup Own \cup {Base}) : W \notin {None, Unread}
  /\ Kinds \subseteq {"list", "detail", "timeline", "messages"}
  /\ MaxBreaks \in Nat

Changes == Remote \cup Own \cup {Base}

VARIABLES
  kind,
  entry,        \* [data, inv: the stale mark, fetch: the read in flight,
                \*  revert: the mark a cancelled read restores]
  active,       \* a component observes the entry
  timer,        \* debouncedRefresh has a timer for the prefix
  sock,         \* "none" | "acked" | "away": another workspace is shown
  registered,   \* the hub knows the client
  authed,       \* the client has seen auth_ack on this socket
  before,       \* hasConnectedBefore
  events,       \* sent on the socket and not handled yet
  server,       \* the changes committed
  unpublished,  \* committed, the handler has not published yet
  own, prev,    \* each mutation's progress and its snapshot
  told,         \* history: the changes the client was told of
  overlooked,   \* history: those among them it is known to lose, see Tell
  breaks

conn == <<sock, registered, authed, before>>
client == <<entry, active, timer>>
srv == <<server, unpublished>>
mut == <<own, prev>>
hist == <<told, overlooked>>
vars == <<kind, client, conn, events, srv, mut, hist, breaks>>

-----------------------------------------------------------------------------
(* The query library, as the code uses it.                                 *)

Exists(e) == active \/ e.data # None \/ e.fetch # None

SetData(e, d) ==
  IF d = None THEN e ELSE [e EXCEPT !.data = d, !.inv = FALSE, !.revert = FALSE]

Reading(e) == [e EXCEPT !.fetch = Unread, !.revert = e.inv]
Fetch(e) == IF e.fetch = None THEN Reading(e) ELSE e

(* A read in flight is cancelled for a new one, but a first one is joined. *)
Refetch(e) == IF e.data # None THEN Reading(e) ELSE Fetch(e)

Mark(e) == IF Exists(e) THEN [e EXCEPT !.inv = TRUE] ELSE e
Invalidate(e) == IF active THEN Refetch(Mark(e)) ELSE Mark(e)

Cancel(e) == IF e.fetch = None THEN e ELSE [e EXCEPT !.fetch = None, !.inv = e.revert]

Add(d, w) == IF d = None THEN None ELSE d \cup {w}

(* The client is told of W. What the handler did is lost for the changes   *)
(* an answer lacks that was on its way before and still is (Doomed); an    *)
(* entry made of news alone, where nothing had been read, lacks the rest   *)
(* (Unfounded); a merge clears the mark which was all that remembered      *)
(* earlier news, or that a rollback put a refused change back (Wiped).     *)
Doomed(W) == IF entry'.fetch = entry.fetch /\ entry.fetch \notin {None, Unread}
             THEN W \ entry.fetch ELSE {}
Unfounded == IF entry.data = None /\ entry'.data # None THEN told ELSE {}
Wiped == IF entry.inv /\ ~entry'.inv /\ entry.fetch = None /\ entry'.data # None
         THEN (told \ entry'.data) \cup (entry'.data \ server) ELSE {}
Tell(W) == /\ told' = told \cup W
           /\ overlooked' = overlooked \cup Doomed(W) \cup Unfounded \cup Wiped

-----------------------------------------------------------------------------
(* Reads.                                                                  *)

Mount ==
  /\ ~active /\ sock # "away"
  /\ active' = TRUE
  /\ entry' = IF entry.data = None \/ entry.inv THEN Fetch(entry) ELSE entry
  /\ UNCHANGED <<kind, timer, conn, events, srv, mut, hist, breaks>>

Unmount ==
  /\ active /\ active' = FALSE
  /\ UNCHANGED <<kind, entry, timer, conn, events, srv, mut, hist, breaks>>

FetchReads ==
  /\ entry.fetch = Unread
  /\ entry' = [entry EXCEPT !.fetch = server]
  /\ UNCHANGED <<kind, active, timer, conn, events, srv, mut, hist, breaks>>

FetchDone ==
  /\ entry.fetch \notin {None, Unread}
  /\ entry' = [data |-> entry.fetch, inv |-> FALSE, fetch |-> None, revert |-> FALSE]
  /\ overlooked' = (overlooked \cap server) \ entry.fetch
  /\ UNCHANGED <<kind, active, timer, conn, events, srv, mut, told, breaks>>

(* Both tries failed: nothing reads again by itself.                       *)
FetchFails ==
  /\ entry.fetch # None
  /\ \E m \in {entry.inv, entry.inv \/ entry.data # None} :
       entry' = [entry EXCEPT !.fetch = None, !.inv = m]
  /\ overlooked' = IF entry.data = None THEN overlooked
                   ELSE overlooked \cup (told \ entry.data) \cup (entry.data \ server)
  /\ UNCHANGED <<kind, active, timer, conn, events, srv, mut, told, breaks>>

(* gcTime: an entry nobody observed for ten minutes, longer than any       *)
(* request lasts.                                                          *)
Collect ==
  /\ ~active /\ entry.fetch = None /\ entry.data # None
  /\ \A m \in Own : own[m] \in {"idle", "done"}
  /\ entry' = [data |-> None, inv |-> FALSE, fetch |-> None, revert |-> FALSE]
  /\ overlooked' = {}
  /\ UNCHANGED <<kind, active, timer, conn, events, srv, mut, told, breaks>>

-----------------------------------------------------------------------------
(* The server: handlers commit, then publish, each in its own goroutine.   *)

Committed(w) ==
  /\ server' = server \cup {w}
  /\ unpublished' = unpublished \cup {[change |-> w, row |-> server \cup {w}]}

Change(w) ==
  /\ w \notin server
  /\ Committed(w)
  /\ UNCHANGED <<kind, client, conn, events, mut, hist, breaks>>

Publish(p) ==
  /\ unpublished' = unpublished \ {p}
  /\ events' = IF registered THEN Append(events, p) ELSE events
  /\ UNCHANGED <<kind, client, conn, server, mut, hist, breaks>>

-----------------------------------------------------------------------------
(* The socket.                                                             *)

(* The server writes auth_ack before it registers the client with the hub. *)
Connect ==
  /\ sock = "none" /\ sock' = "acked"
  /\ UNCHANGED <<kind, client, registered, authed, before, events, srv, mut, hist, breaks>>

Register ==
  /\ sock = "acked" /\ ~registered /\ registered' = TRUE
  /\ UNCHANGED <<kind, client, sock, authed, before, events, srv, mut, hist, breaks>>

(* Who hears of a reconnect: the keys invalidateWorkspaceScopedQueries     *)
(* names, and a mounted timeline.                                          *)
Recovered == kind \in {"list", "detail"}
HearsReconnect == Recovered \/ (kind = "timeline" /\ active)

OnReconnectForgets(e) == e

OnReconnect(e) == IF HearsReconnect THEN Invalidate(e) ELSE e

OnAuthenticated ==
  /\ sock = "acked" /\ ~authed
  /\ authed' = TRUE /\ before' = TRUE
  /\ entry' = IF before THEN OnReconnect(entry) ELSE entry
  /\ IF before /\ HearsReconnect THEN Tell(server) ELSE UNCHANGED hist
  /\ UNCHANGED <<kind, active, timer, sock, registered, events, srv, mut, breaks>>

Drop ==
  /\ sock = "acked" /\ breaks < MaxBreaks
  /\ breaks' = breaks + 1
  /\ sock' = "none" /\ registered' = FALSE /\ authed' = FALSE
  /\ events' = <<>>
  /\ UNCHANGED <<kind, client, before, srv, mut, hist>>

LeaveKeepsTimer ==
  /\ sock # "away" /\ breaks < MaxBreaks
  /\ breaks' = breaks + 1
  /\ sock' = "away" /\ registered' = FALSE /\ authed' = FALSE /\ before' = FALSE
  /\ events' = <<>> /\ active' = FALSE
  /\ UNCHANGED <<kind, entry, timer, srv, mut, hist>>

(* Another workspace is shown: its own WSClient, and no timer survives.    *)
LeaveWorkspace ==
  /\ sock # "away" /\ breaks < MaxBreaks
  /\ breaks' = breaks + 1
  /\ sock' = "away" /\ registered' = FALSE /\ authed' = FALSE /\ before' = FALSE
  /\ events' = <<>> /\ timer' = FALSE /\ active' = FALSE
  /\ UNCHANGED <<kind, entry, srv, mut, hist>>

(* Back with a new WSClient, whose first connection tells nobody.          *)
NewInstance(e) == IF Recovered THEN Invalidate(e) ELSE e

ReturnToWorkspace ==
  /\ sock = "away" /\ sock' = "none"
  /\ entry' = NewInstance(entry)
  /\ IF Recovered THEN Tell(server) ELSE UNCHANGED hist
  /\ UNCHANGED <<kind, active, timer, registered, authed, before, events, srv, mut, breaks>>

-----------------------------------------------------------------------------
(* Events.                                                                 *)

(* onIssueUpdated merges the row, onIssueMetadataChanged one field.        *)
Patched(ev) ==
  IF entry.data = None THEN None
  ELSE IF ev.change \in Partial THEN entry.data \cup {ev.change} ELSE ev.row

OnIssueEvent(ev) == SetData(entry, Patched(ev))

(* A row published late undoes newer changes.                              *)
Announced(w) == w \notin {p.change : p \in unpublished}
                /\ \A i \in 1..Len(events) : events[i].change # w
Undone == IF entry.data = None THEN {}
          ELSE {w \in (entry.data \cap server) \ entry'.data : Announced(w)}

(* The hook of the mounted issue page and the global handler both run, in  *)
(* the order their components mounted: the mark stays or is cleared.       *)
OnTimelineEvent(ev, marked) ==
  IF active
  THEN [SetData(entry, IF entry.data = None THEN {ev.change} ELSE Add(entry.data, ev.change))
          EXCEPT !.inv = marked]
  ELSE Mark(entry)

(* applyChatDoneToCache.                                                   *)
OnChatDone(ev) == Invalidate(SetData(entry, Add(entry.data, ev.change)))

Deliver ==
  /\ authed /\ events # <<>>
  /\ events' = Tail(events)
  /\ LET ev == Head(events) IN
     \/ /\ kind = "list" /\ timer' = TRUE
        /\ told' = told \cup {ev.change}
        /\ UNCHANGED <<entry, overlooked>>
     \/ /\ kind = "detail"
        /\ entry' = OnIssueEvent(ev)
        /\ told' = told \cup {ev.change}
        /\ overlooked' = overlooked \cup Doomed({ev.change}) \cup Wiped \cup Undone
        /\ UNCHANGED timer
     \/ /\ kind = "timeline"
        /\ \E marked \in BOOLEAN : entry' = OnTimelineEvent(ev, marked)
        /\ Tell({ev.change})
        /\ UNCHANGED timer
     \/ /\ kind = "messages"
        /\ entry' = OnChatDone(ev)
        /\ Tell({ev.change})
        /\ UNCHANGED timer
  /\ UNCHANGED <<kind, active, conn, srv, mut, breaks>>

(* debouncedRefresh: 100 ms without another event of the prefix.           *)
Refresh(e) == Invalidate(e)

Flush ==
  /\ timer /\ timer' = FALSE
  /\ entry' = Refresh(entry)
  /\ Tell(told)
  /\ UNCHANGED <<kind, active, conn, events, srv, mut, breaks>>

-----------------------------------------------------------------------------
(* Mutations of the mounted component: useUpdateLabel cancels reads and    *)
(* patches, useUpdateIssue only patches, useCreateComment waits.           *)

OnMutate(m, e) ==
  IF kind = "timeline" THEN e ELSE SetData(e, Add(e.data, m))

Mutate(m) ==
  /\ active /\ kind # "messages" /\ own[m] = "idle"
  /\ LET e == IF kind = "list" THEN Cancel(entry) ELSE entry IN
     /\ entry' = OnMutate(m, e)
     /\ prev' = [prev EXCEPT ![m] = e.data]
  /\ own' = [own EXCEPT ![m] = "sent"]
  /\ UNCHANGED <<kind, active, timer, conn, events, srv, hist, breaks>>

Accept(m) ==
  /\ own[m] = "sent" /\ own' = [own EXCEPT ![m] = "applied"]
  /\ Committed(m)
  /\ UNCHANGED <<kind, client, conn, events, prev, hist, breaks>>

OnSettled(e) == IF kind = "timeline" THEN e ELSE Invalidate(e)

OnSuccess(m, e) ==
  IF kind = "timeline"
  THEN SetData(e, IF e.data = None THEN {m} ELSE Add(e.data, m)) ELSE e

OnError(m, e) == IF kind = "timeline" THEN e ELSE SetData(e, prev[m])

Answered(m) == /\ own' = [own EXCEPT ![m] = "done"]
               /\ prev' = [prev EXCEPT ![m] = None]

Succeed(m) ==
  /\ own[m] = "applied" /\ Answered(m)
  /\ entry' = OnSettled(OnSuccess(m, entry))
  /\ Tell({m})
  /\ UNCHANGED <<kind, active, timer, conn, events, srv, breaks>>

(* Refused, or the response was lost: an applied change is told by its     *)
(* event.                                                                  *)
Fail(m) ==
  /\ own[m] \in {"sent", "applied"} /\ Answered(m)
  /\ entry' = OnSettled(OnError(m, entry))
  /\ overlooked' = overlooked \cup Doomed(told)
  /\ UNCHANGED <<kind, active, timer, conn, events, srv, told, breaks>>

-----------------------------------------------------------------------------
CacheInit ==
  /\ kind \in Kinds
  /\ entry = [data |-> None, inv |-> FALSE, fetch |-> None, revert |-> FALSE]
  /\ active = FALSE /\ timer = FALSE
  /\ sock = "none" /\ registered = FALSE /\ authed = FALSE /\ before = FALSE
  /\ events = <<>>
  /\ server = {Base} /\ unpublished = {}
  /\ own = [m \in Own |-> "idle"] /\ prev = [m \in Own |-> None]
  /\ told = {Base} /\ overlooked = {}
  /\ breaks = 0

CacheNext ==
  \/ Mount \/ Unmount \/ FetchReads \/ FetchDone \/ FetchFails \/ Collect
  \/ \E w \in Remote : Change(w)
  \/ \E p \in unpublished : Publish(p)
  \/ Connect \/ Register \/ OnAuthenticated \/ Drop
  \/ LeaveWorkspace \/ ReturnToWorkspace
  \/ Deliver \/ Flush
  \/ \E m \in Own : Mutate(m) \/ Accept(m) \/ Succeed(m) \/ Fail(m)

CacheSpec == CacheInit /\ [][CacheNext]_vars

-----------------------------------------------------------------------------
Contents == {None} \cup SUBSET Changes

(* Types, and what a dead socket leaves behind: no event of it is ever     *)
(* handled (WSClient.disconnect), no timer outlives its client, and only a *)
(* socket whose auth_ack was seen has handlers running.                    *)
CacheTypeOK ==
  /\ kind \in Kinds
  /\ entry.data \in Contents /\ entry.fetch \in Contents \cup {Unread}
  /\ entry.inv \in BOOLEAN /\ entry.revert \in BOOLEAN
  /\ active \in BOOLEAN /\ timer \in BOOLEAN
  /\ registered \/ authed => sock = "acked"
  /\ events # <<>> => registered
  /\ timer => sock # "away"
  /\ server \subseteq Changes /\ told \subseteq server
  /\ \A m \in Own : own[m] \in {"idle", "sent", "applied", "done"}

Settled ==
  /\ authed /\ events = <<>> /\ unpublished = {}
  /\ ~timer /\ entry.fetch = None
  /\ \A m \in Own : own[m] \in {"idle", "done"}

(* Once the client is connected, every event is out and handled, and no    *)
(* read and no mutation is in flight, the entry shows every change the     *)
(* client was told of, by an event, a reconnect, a return to the workspace *)
(* or a response, and nothing the server refused; an entry nobody observes *)
(* may be marked stale instead. The exceptions are exactly the changes in  *)
(* overlooked: those of Tell, rows published out of order, failed reads.   *)
CacheConverges ==
  Settled /\ entry.data # None /\ (active \/ ~entry.inv) =>
    /\ told \ overlooked \subseteq entry.data
    /\ entry.data \ overlooked \subseteq server

=============================================================================
