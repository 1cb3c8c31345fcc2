------------------------------ MODULE TabStore ------------------------------
(***************************************************************************)
(* The desktop client's tab store: one group of tabs per workspace, one    *)
(* memory router per tab, the navigation adapter that turns pushes into    *)
(* tab operations, React's commit that follows every store update, and the *)
(* persisted state a restart (or an older version) leaves behind.          *)
(*                                                                         *)
(* Operators named after store methods map a store to a store; an action   *)
(* is one event handler, with every store call it makes, followed by       *)
(* Commit.  Titles and icons are left out; a path is a workspace and a     *)
(* page, its search part being told apart only by an extra history entry.  *)
(***************************************************************************)
EXTENDS Integers, Sequences, SequencesExt

CONSTANTS Slugs,     \* workspace slugs
          Pages,     \* pages of a workspace
          Home,      \* the default page, "issues"
          None,
          TabIds,    \* identities createId may hand out
          Saved,     \* persisted states a process may start from
          MaxTabs,   \* bound on the number of tabs; foreign or lost ones count twice
          MaxExtra   \* bound on the history entries beyond one per tab

ASSUME HomeAssumption == Home \in Pages
ASSUME NoneAssumption == None \notin Slugs
ASSUME BoundsAssumption == MaxTabs \in Nat \ {0} /\ MaxExtra \in Nat

VARIABLE store   \* [ws: activeWorkspaceSlug, by: byWorkspace]

tabVars == store

Root == [ws |-> None, page |-> Home]          \* "/", and every transition path
Path == [ws : Slugs, page : Pages] \cup {Root}
DefaultPath(w) == [ws |-> w, page |-> Home]
Sane(p) == p.ws # None                         \* sanitizeTabPath accepts p

-----------------------------------------------------------------------------
(* Routers: a stack of visited pathnames and a position.                   *)

NewRouter(p) == [stack |-> <<p>>, at |-> 1]
Location(r) == r.stack[r.at]
Pushed(r, p) == [stack |-> Append(SubSeq(r.stack, 1, r.at), p), at |-> r.at + 1]
Replaced(r, p) == [r EXCEPT !.stack[r.at] = p]
Gone(r, delta) ==
  LET to == r.at + delta
  IN [r EXCEPT !.at = IF to < 1 THEN 1
                      ELSE IF to > Len(r.stack) THEN Len(r.stack) ELSE to]

(* A tab.  ref is the position TabRouterInner believes in while mounted;   *)
(* kept and stray are history variables: the component has seen every      *)
(* navigation of this router; the tab was opened by a link to another      *)
(* workspace, moved there by a late callback, or parked at "/".            *)
NewRef == [index |-> 0, length |-> 1]
MakeTab(i, p) ==
  [id |-> i, path |-> p, pinned |-> FALSE, index |-> 0, length |-> 1,
   router |-> NewRouter(p), ref |-> NewRef,
   kept |-> TRUE, stray |-> FALSE]

TabsIn(s) == UNION {ToSet(s.by[w].tabs) : w \in DOMAIN s.by}
Lists(tabs, i) == \E n \in DOMAIN tabs : tabs[n].id = i
Holds(s, i) == \E w \in DOMAIN s.by : Lists(s.by[w].tabs, i)
Fresh(s, i) == ~Holds(s, i)
FreshId(s) == CHOOSE i \in TabIds : Fresh(s, i)

Put(by, w, g) == [x \in DOMAIN by \cup {w} |-> IF x = w THEN g ELSE by[x]]
WithGroup(s, ws, w, tabs, active) ==
  [ws |-> ws, by |-> Put(s.by, w, [tabs |-> tabs, active |-> active])]

PositionOf(tabs, i) == CHOOSE n \in DOMAIN tabs : tabs[n].id = i
FirstAt(tabs, p) ==
  CHOOSE n \in DOMAIN tabs : tabs[n].path = p /\ \A m \in 1 .. n - 1 : tabs[m].path # p
ShowsPath(tabs, p) == \E n \in DOMAIN tabs : tabs[n].path = p
Owner(s, i) == CHOOSE w \in DOMAIN s.by : Lists(s.by[w].tabs, i)
TabOf(s, i) == LET tabs == s.by[Owner(s, i)].tabs IN tabs[PositionOf(tabs, i)]
ActiveId(s) == s.by[s.ws].active
IsActive(s, i) == s.ws # None /\ ActiveId(s) = i
SetTab(s, i, t) ==
  LET w == Owner(s, i)
      tabs == s.by[w].tabs
  IN WithGroup(s, s.ws, w, [tabs EXCEPT ![PositionOf(tabs, i)] = t], s.by[w].active)

-----------------------------------------------------------------------------
(* Store methods.                                                          *)

SwitchWorkspace(s, w, p) ==
  LET t == MakeTab(FreshId(s), IF Sane(p) THEN p ELSE DefaultPath(w))
      tabs == s.by[w].tabs
  IN IF w \notin DOMAIN s.by THEN WithGroup(s, w, w, <<t>>, t.id)
     ELSE IF ~Sane(p) THEN [s EXCEPT !.ws = w]
     ELSE IF ShowsPath(tabs, p) THEN WithGroup(s, w, w, tabs, tabs[FirstAt(tabs, p)].id)
     ELSE WithGroup(s, w, w, Append(tabs, t), t.id)

AddTab(s, p) ==
  LET g == s.by[s.ws]
  IN WithGroup(s, s.ws, s.ws, Append(g.tabs, MakeTab(FreshId(s), p)), g.active)

OpenTab(s, p) ==
  LET tabs == s.by[s.ws].tabs
  IN IF s.ws = None \/ ~Sane(p) THEN s
     ELSE IF ShowsPath(tabs, p) THEN WithGroup(s, s.ws, s.ws, tabs, tabs[FirstAt(tabs, p)].id)
     ELSE AddTab(s, p)

SetActiveTab(s, i) ==
  LET w == Owner(s, i)
  IN IF Holds(s, i) THEN WithGroup(s, w, w, s.by[w].tabs, i) ELSE s

(* openTab followed by setActiveTab on the id it returned.                 *)
OpenForeground(s, p) ==
  LET opened == OpenTab(s, p)
      tabs == opened.by[s.ws].tabs
  IN IF s.ws = None \/ ~Sane(p) THEN s
     ELSE SetActiveTab(opened, tabs[FirstAt(tabs, p)].id)

CloseTab(s, i) ==
  LET w == Owner(s, i)
      g == s.by[w]
      at == PositionOf(g.tabs, i)
      rest == RemoveAt(g.tabs, at)
      fresh == MakeTab(FreshId(s), DefaultPath(w))
      next == rest[IF at > Len(rest) THEN Len(rest) ELSE at].id
  IN IF Len(g.tabs) = 1 THEN WithGroup(s, s.ws, w, <<fresh>>, fresh.id)
     ELSE WithGroup(s, s.ws, w, rest, IF g.active = i THEN next ELSE g.active)

PinnedCount(tabs) ==
  CHOOSE n \in 0 .. Len(tabs) : /\ \A m \in 1 .. n : tabs[m].pinned
                                /\ n < Len(tabs) => ~tabs[n + 1].pinned

ArrayMove(tabs, from, to) == InsertAt(RemoveAt(tabs, from), to, tabs[from])

DropAtUnclamped(tabs, from, to) == to

(* A drop is clamped to the pinned or unpinned zone of the dragged tab.    *)
DropAt(tabs, from, to) ==
  LET boundary == PinnedCount(tabs)
  IN IF tabs[from].pinned THEN IF to > boundary THEN boundary ELSE to
     ELSE IF to <= boundary THEN boundary + 1 ELSE to

MoveTab(s, from, to) ==
  LET g == s.by[s.ws]
  IN WithGroup(s, s.ws, s.ws, ArrayMove(g.tabs, from, DropAt(g.tabs, from, to)), g.active)

TogglePin(s, i) ==
  LET w == Owner(s, i)
      g == s.by[w]
      at == PositionOf(g.tabs, i)
      rest == RemoveAt(g.tabs, at)
      flipped == [g.tabs[at] EXCEPT !.pinned = ~@]
  IN WithGroup(s, s.ws, w, InsertAt(rest, PinnedCount(rest) + 1, flipped), g.active)

ReloadActiveTab(s) ==
  LET i == ActiveId(s)
      t == TabOf(s, i)
  IN SetTab(s, i, [t EXCEPT !.router = NewRouter(t.path), !.index = 0, !.length = 1,
                            !.kept = (t.ref = NewRef)])

(* Object.keys()[0] is the oldest key; first stands for it.                *)
Repoint(by, w, first) == IF w \in DOMAIN by THEN w ELSE first
IsFirst(by, first) == IF DOMAIN by = {} THEN first = None ELSE first \in DOMAIN by

Surviving(by, valid) == [w \in DOMAIN by \cap valid |-> by[w]]

ValidateWorkspaceSlugs(s, valid, first, fallback) ==
  LET by == Surviving(s.by, valid)
      left == [ws |-> Repoint(by, s.ws, first), by |-> by]
      fresh == MakeTab(FreshId(left), DefaultPath(fallback))
  IN IF DOMAIN by = {} /\ fallback # None
     THEN WithGroup(left, fallback, fallback, <<fresh>>, fresh.id)
     ELSE left

Empty == [ws |-> None, by |-> [w \in {} |-> None]]

-----------------------------------------------------------------------------
(* Persistence: what partialize keeps, how older versions are migrated and *)
(* what merge makes of the result.                                         *)

SavedTab(i, p, pin) == [id |-> i, path |-> p, pinned |-> pin]

Partialize(s) ==
  [ws |-> s.ws,
   by |-> [w \in DOMAIN s.by |->
            [active |-> s.by[w].active,
             tabs |-> [n \in DOMAIN s.by[w].tabs |->
                        LET t == s.by[w].tabs[n]
                        IN SavedTab(t.id, t.path, t.pinned)]]]]

(* A persisted state has one tab per id, as createId made them.            *)
OneTabPerId(by) ==
  \A w, x \in DOMAIN by : \A m \in DOMAIN by[w].tabs : \A n \in DOMAIN by[x].tabs :
    by[w].tabs[m].id = by[x].tabs[n].id => w = x /\ m = n

FlatTab == [id : TabIds, path : Path]
PinnableTab == [id : TabIds, path : Path, pinned : BOOLEAN]
GroupsOf(by, Row) ==
  DOMAIN by \subseteq Slugs /\ OneTabPerId(by) /\ \A w \in DOMAIN by : by[w].tabs \in Seq(Row)

ASSUME SavedAssumption ==
  \A v \in Saved :
    \/ /\ v.version = 1
       /\ v.tabs \in Seq(FlatTab)
       /\ \A m, n \in DOMAIN v.tabs : v.tabs[m].id = v.tabs[n].id => m = n
    \/ v.version = 2 /\ GroupsOf(v.by, FlatTab)
    \/ v.version = 3 /\ GroupsOf(v.by, PinnableTab)

(* What Array.filter keeps: the elements at the positions in K, in order.  *)
Position(K, k) == CHOOSE n \in K : Cardinality(K \cap 1 .. n) = k
Filtered(tabs, K) == [k \in 1 .. Cardinality(K) |-> tabs[Position(K, k)]]
InWorkspace(tabs, w) == {n \in DOMAIN tabs : tabs[n].path.ws = w}

(* v1 kept one flat list: group it by workspace, drop global paths.        *)
MigrateV1ToV2(v1, first) ==
  LET of(w) == Filtered(v1.tabs, InWorkspace(v1.tabs, w))
      slugs == {w \in Slugs : of(w) # <<>>}
      inherits == {w \in slugs : \E t \in ToSet(of(w)) : t.id = v1.active}
      group(w) == [tabs |-> of(w),
                   active |-> IF w \in inherits THEN v1.active ELSE of(w)[1].id]
  IN [ws |-> IF inherits # {} THEN CHOOSE w \in inherits : TRUE
             ELSE IF slugs # {} THEN first ELSE None,
      by |-> [w \in slugs |-> group(w)]]

MigrateV2ToV3(v2) ==
  [ws |-> v2.ws,
   by |-> [w \in DOMAIN v2.by |->
            [active |-> v2.by[w].active,
             tabs |-> [n \in DOMAIN v2.by[w].tabs |->
                        SavedTab(v2.by[w].tabs[n].id, v2.by[w].tabs[n].path, FALSE)]]]]

Migrate(v, first) ==
  CASE v.version = 1 -> MigrateV2ToV3(MigrateV1ToV2(v, first))
    [] v.version = 2 -> MigrateV2ToV3(v)
    [] OTHER -> v

(* Rehydrated tabs: those whose path is of the group, pinned ones first.   *)
Rehydrated(w, tabs) ==
  LET good == Filtered(tabs, InWorkspace(tabs, w))
      built == [n \in DOMAIN good |-> [MakeTab(good[n].id, good[n].path)
                                         EXCEPT !.pinned = good[n].pinned]]
      pins == {n \in DOMAIN built : built[n].pinned}
  IN Filtered(built, pins) \o Filtered(built, DOMAIN built \ pins)

MergeFirstActive(p, first) ==
  LET slugs == {w \in DOMAIN p.by : Rehydrated(w, p.by[w].tabs) # <<>>}
      group(w) == LET tabs == Rehydrated(w, p.by[w].tabs)
                  IN [tabs |-> tabs, active |-> tabs[1].id]
      by == [w \in slugs |-> group(w)]
  IN [ws |-> Repoint(by, p.ws, first), by |-> by]

Merge(p, first) ==
  LET slugs == {w \in DOMAIN p.by : Rehydrated(w, p.by[w].tabs) # <<>>}
      group(w) == LET tabs == Rehydrated(w, p.by[w].tabs)
                  IN [tabs |-> tabs,
                      active |-> IF \E t \in ToSet(tabs) : t.id = p.by[w].active
                                 THEN p.by[w].active ELSE tabs[1].id]
      by == [w \in slugs |-> group(w)]
  IN [ws |-> Repoint(by, p.ws, first), by |-> by]

Hydrations(p) == {Merge(p, first) : first \in {f \in Slugs \cup {None} : IsFirst(Merge(p, f).by, f)}}

-----------------------------------------------------------------------------
(* What React does after a store update: the tabs of the active workspace  *)
(* are mounted, the active one is visible and runs its effects.            *)

Mounted(s, w) == w = s.ws
WasMounted(s, w, i) == /\ Mounted(s, w)
                       /\ w \in DOMAIN s.by
                       /\ Lists(s.by[w].tabs, i)

(* TabRouterInner mounts with fresh refs, whatever its router went through. *)
MountTab(t) ==
  [t EXCEPT !.ref = NewRef,
            !.kept = @ /\ Len(t.router.stack) = 1 /\ t.index = 0 /\ t.length = 1]

(* The effect of useTabRouterSync on the visible tab.                      *)
SyncInitial(t) == [t EXCEPT !.path = Location(t.router)]

Committed(old, s, w, t) ==
  LET mounted == IF ~Mounted(s, w) THEN [t EXCEPT !.ref = NewRef]
                 ELSE IF WasMounted(old, w, t.id) THEN t ELSE MountTab(t)
  IN IF IsActive(s, t.id) THEN SyncInitial(mounted) ELSE mounted

Commit(old, s) ==
  [ws |-> s.ws,
   by |-> [w \in DOMAIN s.by |->
            [tabs |-> [n \in DOMAIN s.by[w].tabs |-> Committed(old, s, w, s.by[w].tabs[n])],
             active |-> s.by[w].active]]]

(* A navigation of the router of tab t.  While the tab is visible the      *)
(* subscription of useTabRouterSync writes path and history to the store.  *)
Synced(t, r, index, length) ==
  [t EXCEPT !.router = r, !.path = Location(r), !.ref = [index |-> index, length |-> length],
            !.index = index, !.length = length]

Strays(s, i, p) == p.ws = None \/ (~IsActive(s, i) /\ p.ws # Owner(s, i))

NavigatePush(s, i, p) ==
  LET t == TabOf(s, i)
      r == Pushed(t.router, p)
      moved == IF IsActive(s, i)
               THEN Synced(t, r, t.ref.index + 1, t.ref.index + 2)
               ELSE [t EXCEPT !.router = r, !.kept = FALSE]
  IN SetTab(s, i, [moved EXCEPT !.stray = @ \/ Strays(s, i, p)])

NavigateReplace(s, i, p) ==
  LET t == TabOf(s, i)
      r == Replaced(t.router, p)
      moved == IF IsActive(s, i) THEN Synced(t, r, t.ref.index, t.ref.length)
               ELSE [t EXCEPT !.router = r]
  IN SetTab(s, i, [moved EXCEPT !.stray = @ \/ Strays(s, i, p)])

PopIndexBack(t, forward) == IF t.ref.index > 0 THEN t.ref.index - 1 ELSE 0

PopIndex(t, forward) ==
  IF forward THEN IF t.ref.index + 1 < t.ref.length THEN t.ref.index + 1 ELSE t.ref.length - 1
  ELSE IF t.ref.index > 0 THEN t.ref.index - 1 ELSE 0

NavigatePop(s, i, forward) ==
  LET t == TabOf(s, i)
      r == Gone(t.router, IF forward THEN 1 ELSE -1)
  IN IF IsActive(s, i)
     THEN SetTab(s, i, Synced(t, r, PopIndex(t, forward), t.ref.length))
     ELSE SetTab(s, i, [t EXCEPT !.router = r, !.kept = FALSE])

-----------------------------------------------------------------------------
(* Actions.                                                                *)

Bounded(tabs) ==
  /\ Cardinality(tabs) + Cardinality({t \in tabs : t.stray \/ ~t.kept}) <= MaxTabs
  /\ \A t \in tabs : t.ref.index <= MaxExtra
  /\ FoldSet(LAMBDA t, n : n + Len(t.router.stack) - 1, 0, tabs) <= MaxExtra

(* Ids never run out in the code: with MaxTabs tabs open one is left.      *)
(* The singletons have TLC evaluate s and its tabs once.                   *)
Update(s) == \E u \in {s} : /\ \E tabs \in {TabsIn(u)} : Bounded(tabs)
                            /\ ~ \A i \in TabIds : Holds(store, i)
                            /\ store' = Commit(store, u)

TabInit == \E v \in Saved : \E first \in Slugs \cup {None} :
             \E s \in Hydrations(Migrate(v, first)) : store = Commit(Empty, s)

(* tryRouteToOverlay: an overlay covers the window and the tab is parked   *)
(* at "/".  The overlay itself changes nothing in the store.               *)
ParkAtRoot(i) == Update(IF Location(TabOf(store, i).router) = Root THEN store
                        ELSE NavigateReplace(store, i, Root))

(* tryRouteToPinnedNewTab: the active tab is pinned and p is another page. *)
LeavesPinned(p) ==
  /\ store.ws # None
  /\ LET t == TabOf(store, ActiveId(store)) IN t.pinned /\ Location(t.router) # p

PushToAnywhere(i, p) ==
  IF LeavesPinned(p) THEN OpenForeground(store, p) ELSE NavigatePush(store, i, p)

PushToUnpinned(i, p) ==
  IF p.ws # store.ws THEN SwitchWorkspace(store, p.ws, p) ELSE NavigatePush(store, i, p)

PushTo(i, p) ==
  IF p.ws # store.ws THEN SwitchWorkspace(store, p.ws, p)
  ELSE IF LeavesPinned(p) THEN OpenForeground(store, p)
  ELSE NavigatePush(store, i, p)

ReplaceTo(i, p) ==
  IF p.ws # store.ws THEN SwitchWorkspace(store, p.ws, p) ELSE NavigateReplace(store, i, p)

(* push and replace of the adapter of tab i: a click in the visible tab or *)
(* in the shell, or a callback of a tab hidden or unmounted meanwhile.     *)
(* Pushing the current pathname with another search part adds an entry.    *)
Push(i, p) ==
  \/ ~Sane(p) /\ ParkAtRoot(i)
  \/ Sane(p) /\ Update(PushTo(i, p))

Replace(i, p) ==
  \/ ~Sane(p) /\ ParkAtRoot(i)
  \/ Sane(p) /\ Update(ReplaceTo(i, p))

(* The shell navigates while there is no active tab.                       *)
ShellPush(p) == store.ws = None /\ Sane(p) /\ Update(SwitchWorkspace(store, p.ws, p))

AdapterBack(i) == Update(NavigatePop(store, i, FALSE))

(* goBack and goForward of the shell trust the stored history.             *)
GoHistory(forward) ==
  /\ store.ws # None
  /\ LET t == TabOf(store, ActiveId(store))
     IN /\ IF forward THEN t.index < t.length - 1 ELSE t.index > 0
        /\ Update(NavigatePop(store, t.id, forward))

OpenInNewTab(p, activate) ==
  /\ Sane(p)
  /\ Update(IF p.ws # store.ws THEN SwitchWorkspace(store, p.ws, p)
            ELSE IF activate THEN OpenForeground(store, p) ELSE OpenTab(store, p))

(* A link in content is opened in the active group, whatever its workspace. *)
OpenLink(p) ==
  /\ store.ws # None
  /\ \E opened \in {OpenForeground(store, p)} :
       LET i == ActiveId(opened)
           t == TabOf(opened, i)
       IN Update(IF Sane(p) THEN SetTab(opened, i, [t EXCEPT !.stray = @ \/ p.ws # store.ws])
                 ELSE store)

NewTab ==
  /\ store.ws # None
  /\ Update(LET s == AddTab(store, DefaultPath(store.ws))
            IN SetActiveTab(s, Last(s.by[s.ws].tabs).id))

SelectTab(i) == /\ Owner(store, i) = store.ws
                /\ Update(SetActiveTab(store, i))

(* The X of a tab, hidden on a pinned or only tab.                         *)
CloseClicked(i) == /\ Owner(store, i) = store.ws
                   /\ ~TabOf(store, i).pinned
                   /\ Len(store.by[store.ws].tabs) > 1
                   /\ Update(CloseTab(store, i))

(* The error page of a crashed route reloads, leaves or closes its tab.    *)
CrashReload == /\ store.ws # None
               /\ Update(ReloadActiveTab(store))

CrashGoToIssues ==
  /\ store.ws # None
  /\ LET i == ActiveId(store)
         at == Location(TabOf(store, i).router)
     IN Sane(at) /\ Update(NavigateReplace(store, i, DefaultPath(at.ws)))

CrashClose == /\ store.ws # None
              /\ Update(CloseTab(store, ActiveId(store)))

DragTab(from, to) == /\ store.ws # None
                     /\ from # to
                     /\ {from, to} \subseteq DOMAIN store.by[store.ws].tabs
                     /\ Update(MoveTab(store, from, to))

PinClicked(i) == /\ Owner(store, i) = store.ws
                 /\ Update(TogglePin(store, i))

(* The workspace list arrives or changes (App), or the slug of a mounted   *)
(* tab does not resolve (WorkspaceRouteLayout): the store is validated.    *)
WorkspacesChange(valid) ==
  \E first \in Slugs \cup {None} : \E fallback \in valid \cup {None} :
    /\ IsFirst(Surviving(store.by, valid), first)
    /\ fallback = None <=> valid = {}
    /\ Update(ValidateWorkspaceSlugs(store, valid, first, fallback))

Logout == store' = Empty

(* Every set() has persisted the store: a restart rehydrates it.           *)
Restart == \E s \in Hydrations(Partialize(store)) : store' = Commit(Empty, s)

OpenIds == {t.id : t \in TabsIn(store)}

TabNext ==
  \/ \E i \in OpenIds : \/ \E p \in Path : Push(i, p) \/ Replace(i, p)
                        \/ AdapterBack(i) \/ SelectTab(i) \/ CloseClicked(i) \/ PinClicked(i)
  \/ \E p \in Path : ShellPush(p) \/ OpenLink(p) \/ \E a \in BOOLEAN : OpenInNewTab(p, a)
  \/ \E forward \in BOOLEAN : GoHistory(forward)
  \/ \E from, to \in 1 .. MaxTabs : DragTab(from, to)
  \/ \E valid \in SUBSET Slugs : WorkspacesChange(valid)
  \/ NewTab \/ CrashReload \/ CrashGoToIssues \/ CrashClose
  \/ Logout \/ Restart

TabSpec == TabInit /\ [][TabNext]_tabVars

-----------------------------------------------------------------------------
(* Properties.                                                             *)

RouterOK(r) == r.at \in DOMAIN r.stack /\ ToSet(r.stack) \subseteq Path

(* The store is well-formed: every group has tabs, its active tab is one   *)
(* of them, no id is shared, pinned tabs come first (togglePin, moveTab,   *)
(* merge), and a workspace is active exactly when there is a group.        *)
TabTypeOK ==
  /\ DOMAIN store.by \subseteq Slugs
  /\ IF DOMAIN store.by = {} THEN store.ws = None ELSE store.ws \in DOMAIN store.by
  /\ \A w \in DOMAIN store.by :
       LET tabs == store.by[w].tabs
       IN /\ \E n \in DOMAIN tabs : tabs[n].id = store.by[w].active
          /\ \A m, n \in DOMAIN tabs : m < n /\ tabs[n].pinned => tabs[m].pinned
          /\ \A n \in DOMAIN tabs : RouterOK(tabs[n].router) /\ tabs[n].path \in Path
  /\ OneTabPerId(store.by)

(* No tab shows a page of another workspace than its group's, except a tab *)
(* opened by a link in content or moved by a callback that fired after     *)
(* its tab was left: pushes, new tabs and rehydration keep to the group.   *)
PathInGroup ==
  \A w \in DOMAIN store.by : \A t \in ToSet(store.by[w].tabs) :
    ~t.stray => t.path.ws = w /\ \A p \in ToSet(t.router.stack) : p.ws = w

(* tab-store.ts:51-55: "Cross-workspace tab leakage (...) is impossible by *)
(* construction": no group has a tab on a page of another workspace.       *)
NoTabLeaks ==
  \A w \in DOMAIN store.by : \A t \in ToSet(store.by[w].tabs) :
    t.path.ws \in Slugs => t.path.ws = w

(* The back and forward buttons of the visible tab tell the truth about    *)
(* its router, unless the tab was reloaded, remounted after a switch of    *)
(* workspace, or moved while hidden: useTabRouterSync misses those.        *)
HistoryHonest ==
  store.ws # None =>
    LET t == TabOf(store, ActiveId(store))
    IN t.kept => t.index = t.router.at - 1 /\ t.length = Len(t.router.stack)

(* A push made in the visible pinned tab never takes it to another page:   *)
(* its history grows only by entries of the page it is parked on.          *)
PinnedParked ==
  [][store.ws # None =>
       LET t == TabOf(store, ActiveId(store))
       IN t.pinned /\ Holds(store', t.id) =>
            LET u == TabOf(store', t.id)
            IN u.router.at > t.router.at /\ u.router.stack # t.router.stack
                 => Location(u.router) = Location(t.router)]_tabVars

(* A restart loses no tab that is in its own workspace: merging what every *)
(* set() has persisted gives the same groups, order, pins and active tabs. *)
RestartKeepsTabs ==
  LET shape(s) == [ws |-> s.ws,
                   by |-> [w \in DOMAIN s.by |->
                     [active |-> s.by[w].active,
                      tabs |-> [n \in DOMAIN s.by[w].tabs |->
                        LET t == s.by[w].tabs[n] IN <<t.id, t.path, t.pinned>>]]]]
  IN (\A w \in DOMAIN store.by : \A t \in ToSet(store.by[w].tabs) : t.path.ws = w)
       => \A s \in Hydrations(Partialize(store)) : shape(s) = shape(store)
=============================================================================
