---------------------------- MODULE DesktopDaemon ----------------------------
(***************************************************************************)
(* The desktop main process that owns the local daemon: the IPC handlers   *)
(* and timers of daemon-manager.ts, the two config files and the sidecar   *)
(* they rewrite, the CLI they execute, the renderer's login and logout     *)
(* effects, and the daemon process itself.                                 *)
(*                                                                         *)
(* An asynchronous function is a program: the sequence of the stretches of *)
(* code between its awaits.  OpIds are the calls in flight; the step that  *)
(* runs the head of a program ends at the next await.                      *)
(***************************************************************************)
EXTENDS Integers, Sequences, SequencesExt, FiniteSets

CONSTANTS Users, None,
          Owner,       \* the user of the previous run
          MaxCalls,    \* bound on the calls in flight at a time
          MaxEvents,   \* bound on logins, clicks, failures, revocations, new tasks
          MayFail      \* commands, mints and installs may fail, tokens be revoked

OpIds == 1..MaxCalls

ASSUME OwnerAssumption == Owner \in Users /\ None \notin Users
ASSUME BoundsAssumption == MaxCalls \in Nat \ {0} /\ MaxEvents \in Nat
ASSUME FailAssumption == MayFail \in BOOLEAN

VARIABLES user,     \* the renderer's signed-in user
          mgr,      \* module-level variables of daemon-manager.ts
          disk,     \* the token in ~/.multicaa, the one in ~/.multica, the sidecar
          daemon,   \* the process behind the health port
          forks,    \* daemon processes spawned that have not bound the port yet
          dead,     \* users whose first generation of tokens was revoked
          ops,
          muddled,  \* history: see Launch and StopFails
          left      \* what MaxEvents leaves

daemonVars == <<user, mgr, disk, daemon, forks, dead, ops, muddled, left>>

Token == [of : Users, gen : {0, 1}]
NoToken == [of |-> None, gen |-> 0]
Live(t) == t # NoToken /\ ~(t.gen = 0 /\ t.of \in dead)
Minted(u) == [of |-> u, gen |-> IF u \in dead THEN 1 ELSE 0]

Down == [up |-> "down", token |-> NoToken, old |-> FALSE, busy |-> FALSE]
Alive == daemon.up # "down"                     \* daemonStatusAlive
Health == [up |-> daemon.up, old |-> daemon.old, busy |-> daemon.busy]
NoHealth == [up |-> "down", old |-> FALSE, busy |-> FALSE]
Liveness == [NoHealth EXCEPT !.up = daemon.up]   \* what most readers of /health use

-----------------------------------------------------------------------------
(* Programs.                                                               *)

StartProgram == <<"find", "launch", "exec", "await">>
StopProgram == <<"stop", "halt">>
RestartProgram == <<"stop", "halt", "find", "launch", "exec", "await">>
PollProgram == <<"probe", "judge">>
VersionProgram == <<"version", "decide">>
LoginProgram == <<"read", "mint", "write", "mark", "rotate", "probe", "judge">>
LogoutProgram == <<"untoken", "unmark", "enter">>
ReauthProgram == <<"untoken", "unmark", "read", "mint", "write", "mark", "rotate",
                   "stop", "halt", "find", "launch", "exec", "await">>

Idle == [kind |-> "idle", todo |-> <<>>, user |-> None, health |-> NoHealth,
         token |-> NoToken, changed |-> FALSE, bad |-> FALSE, guarded |-> FALSE]
Call(k, program, u, g) == [Idle EXCEPT !.kind = k, !.todo = program, !.user = u, !.guarded = g]

Session == {"login", "logout", "reauth"}
Passive == {"idle", "poll"}
Others(o) == {x \in OpIds \ {o} : ops[x].kind \notin Passive}

(* muddled records that an account was changed while something else was    *)
(* starting or stopping the daemon, or that a stop or a sync failed.  A    *)
(* restart fired by the sync itself ("rotation") does not count.           *)
Overlap(o, k) ==
  \/ k \in Session /\ (Others(o) # {} \/ forks > 0)
  \/ k \notin Passive \cup {"rotation"} /\ \E x \in Others(o) : ops[x].kind \in Session

Free(o) == ops[o].kind = "idle" /\ \A x \in OpIds : x < o => ops[x].kind # "idle"
Launch(o, call) ==
  /\ ops' = [ops EXCEPT ![o] = call]
  /\ muddled' = (muddled \/ Overlap(o, call.kind))

(* The call in o goes on with program p, done with what it had read.  When *)
(* a guarded call ends, withGuard's finally block drops the guard.         *)
Continue(o, p) ==
  ops' = [ops EXCEPT ![o] =
            IF p = <<>> THEN Idle
            ELSE Call(@.kind, p, @.user, @.guarded)]
Rest(o) == Tail(ops[o].todo)
Head1(o) == Head(ops[o].todo)
At(o, step) == ops[o].todo # <<>> /\ Head1(o) = step
Unguard(o, m) == IF ops[o].guarded THEN [m EXCEPT !.guard = FALSE] ELSE m

Event == left > 0 /\ left' = left - 1
Fault == MayFail /\ Event

-----------------------------------------------------------------------------
(* fetchHealth and its callers.                                            *)

(* With the CLI missing fetchHealth returns currentState untouched; the    *)
(* login's autoStart waits for resolveCliBinary and gives up without it.   *)
Probe(o) ==
  /\ At(o, "probe")
  /\ ops[o].kind = "login" => mgr.cli # "resolving"
  /\ IF mgr.shown \in {"installing_cli", "cli_not_found"} \/ mgr.cli = "missing"
     THEN Continue(o, <<>>)
     ELSE ops' = [ops EXCEPT ![o].todo = Rest(o), ![o].health = Liveness]
  /\ UNCHANGED <<user, mgr, disk, daemon, forks, dead, muddled, left>>

(* startingSince and authProbeDone as one attempt: "none" (null), "fresh",  *)
(* "due" once AUTH_PROBE_GRACE_MS elapsed, "probed".                       *)
MustAsk == mgr.shown = "starting" /\ ~mgr.expired /\ mgr.attempt = "due"

(* Mutant: the fallback keeps whatever state was shown.                    *)
AnswerKeepsState(h, m) ==
  IF h.up = "running" THEN "running"
  ELSE IF m.expired THEN "auth_expired"
  ELSE IF h.up = "starting" THEN "starting" ELSE m.shown

(* What fetchHealth answers for health h under the flags of m.             *)
Answer(h, m) ==
  IF h.up = "running" THEN "running"
  ELSE IF m.expired THEN "auth_expired"
  ELSE IF h.up = "starting" \/ m.shown = "starting" THEN "starting"
  ELSE "stopped"

(* The caller resumes with the answer: pollOnce stores it and retries a    *)
(* deferred version check; autoStart checks the version or starts.         *)
Resume(o, m) ==
  LET a == Answer(ops[o].health, m)
      again == m.pending /\ a = "running"
  IN IF ops[o].kind = "poll"
     THEN /\ mgr' = [m EXCEPT !.shown = a]
          /\ Launch(o, IF again THEN Call("version", VersionProgram, None, FALSE) ELSE Idle)
     ELSE /\ mgr' = m
          /\ Continue(o, IF a = "running" THEN VersionProgram ELSE StartProgram)
          /\ UNCHANGED muddled

Judge(o) ==
  /\ At(o, "judge")
  /\ IF ops[o].health.up = "running"
     THEN Resume(o, [mgr EXCEPT !.expired = FALSE, !.attempt = "none"])
     ELSE IF MustAsk
     THEN /\ mgr' = [mgr EXCEPT !.attempt = "probed"]
          /\ ops' = [ops EXCEPT ![o].todo = <<"ask", "verdict">>]
          /\ UNCHANGED muddled
     ELSE Resume(o, mgr)
  /\ UNCHANGED <<user, disk, daemon, forks, dead, left>>

(* probeTokenValidity tests the token of the Desktop's own config; a       *)
(* network error or a 5xx leaves the verdict "unknown".                    *)
AskServer(o) ==
  /\ At(o, "ask")
  /\ \E bad \in {FALSE, ~Live(disk.desk)} :
       ops' = [ops EXCEPT ![o].todo = Rest(o), ![o].bad = bad]
  /\ UNCHANGED <<user, mgr, disk, daemon, forks, dead, muddled, left>>

Verdict(o) ==
  /\ At(o, "verdict")
  /\ Resume(o, [mgr EXCEPT !.expired = @ \/ ops[o].bad])
  /\ UNCHANGED <<user, disk, daemon, forks, dead, left>>

(* ensureRunningDaemonVersionMatches: the sample, then decideVersionAction *)
SampleVersion(o) ==
  /\ At(o, "version")
  /\ ops' = [ops EXCEPT ![o].todo = Rest(o), ![o].health = Health]
  /\ UNCHANGED <<user, mgr, disk, daemon, forks, dead, muddled, left>>

(* Mutant: busy and idle swapped.                                          *)
DecideVersionActionSwapped(h) ==
  IF h.up # "running" THEN "not_running"
  ELSE IF ~h.old THEN "ok"
  ELSE IF h.busy THEN "restart" ELSE "defer"

DecideVersionAction(h) ==
  IF h.up # "running" THEN "not_running"
  ELSE IF ~h.old THEN "ok"
  ELSE IF h.busy THEN "defer" ELSE "restart"

Decide(o) ==
  /\ At(o, "decide")
  /\ LET action == DecideVersionAction(ops[o].health)
     IN /\ mgr' = [mgr EXCEPT !.pending = (action = "defer")]
        /\ Continue(o, IF action = "restart" THEN RestartProgram ELSE <<>>)
  /\ UNCHANGED <<user, disk, daemon, forks, dead, muddled, left>>

-----------------------------------------------------------------------------
(* startDaemon, stopDaemon and the CLI commands they execute.              *)

(* resolveCliBinary: shared with an install in progress, null when none.   *)
Stop(o) ==
  /\ At(o, "stop") /\ mgr.cli # "resolving"
  /\ IF mgr.cli = "missing"
     THEN mgr' = Unguard(o, mgr) /\ Continue(o, <<>>) /\ muddled' = TRUE
     ELSE /\ mgr' = [mgr EXCEPT !.shown = "stopping", !.expired = FALSE, !.attempt = "none"]
          /\ Continue(o, Rest(o)) /\ UNCHANGED muddled
  /\ UNCHANGED <<user, disk, daemon, forks, dead, left>>

(* `daemon stop` returns once /health is gone.  It misses a process that   *)
(* has not bound the port, and it may fail, whether or not its shutdown    *)
(* request got through.  restartDaemon gives up after a failure; the state *)
(* shown is "stopped" either way.                                          *)
Halt(o) ==
  /\ At(o, "halt")
  /\ LET m == [mgr EXCEPT !.shown = "stopped"]
     IN \/ /\ daemon' = Down
           /\ mgr' = IF Rest(o) = <<>> THEN Unguard(o, m) ELSE m
           /\ Continue(o, Rest(o)) /\ UNCHANGED <<muddled, left>>
        \/ /\ Alive /\ Fault
           /\ daemon' \in {daemon, Down}
           /\ mgr' = Unguard(o, m)
           /\ Continue(o, <<>>) /\ muddled' = TRUE
  /\ UNCHANGED <<user, disk, forks, dead>>

Find(o) ==
  /\ At(o, "find") /\ mgr.cli # "resolving"
  /\ IF mgr.cli = "missing"
     THEN mgr' = Unguard(o, mgr) /\ Continue(o, <<>>)
     ELSE /\ ops' = [ops EXCEPT ![o].todo = Rest(o), ![o].health = Liveness]
          /\ UNCHANGED mgr
  /\ UNCHANGED <<user, disk, daemon, forks, dead, muddled, left>>

(* A daemon that already answers is left to polling.                       *)
LaunchDaemon(o) ==
  /\ At(o, "launch")
  /\ IF ops[o].health.up # "down"
     THEN /\ mgr' = Unguard(o, mgr)
          /\ ops' = [ops EXCEPT ![o] = Call("poll", PollProgram, None, FALSE)]
     ELSE /\ mgr' = [mgr EXCEPT !.shown = "starting", !.attempt = "fresh", !.expired = FALSE]
          /\ Continue(o, Rest(o))
  /\ UNCHANGED <<user, disk, daemon, forks, dead, muddled, left>>

(* `daemon start` refuses when a daemon answers, else it spawns one.       *)
Exec(o) ==
  /\ At(o, "exec")
  /\ IF Alive
     THEN /\ mgr' = Unguard(o, [mgr EXCEPT !.shown = "stopped"])
          /\ Continue(o, <<>>) /\ UNCHANGED forks
     ELSE /\ forks' = forks + 1
          /\ Continue(o, Rest(o)) /\ UNCHANGED mgr
  /\ UNCHANGED <<user, disk, daemon, dead, muddled, left>>

(* The command returns 0 once the daemon runs, or after 45 s in any case,  *)
(* by when the process has bound the port or died.                         *)
Await(o) ==
  /\ At(o, "await") /\ forks = 0
  /\ mgr' = Unguard(o, mgr)
  /\ ops' = [ops EXCEPT ![o] = Call("poll", PollProgram, None, FALSE)]
  /\ UNCHANGED <<user, disk, daemon, forks, dead, muddled, left>>

-----------------------------------------------------------------------------
(* syncToken, clearToken and reauthenticate.                               *)

ReadConfig(o) ==
  /\ At(o, "read")
  /\ LET u == ops[o].user
         reuse == disk.owner = u /\ disk.desk # NoToken
     IN ops' = [ops EXCEPT ![o].changed = disk.owner \notin {None, u},
                           ![o].token = IF reuse THEN disk.desk ELSE NoToken,
                           ![o].todo = IF reuse THEN Tail(Rest(o)) ELSE Rest(o)]
  /\ UNCHANGED <<user, mgr, disk, daemon, forks, dead, muddled, left>>

(* A failed mint aborts the login effect.  During a reauthentication a 401 *)
(* makes the renderer log out; any other failure only shows a toast.       *)
MintPat(o) ==
  /\ At(o, "mint")
  /\ \/ /\ ops' = [ops EXCEPT ![o].token = Minted(ops[o].user), ![o].todo = Rest(o)]
        /\ UNCHANGED <<user, muddled, left>>
     \/ /\ Fault /\ muddled' = TRUE
        /\ Continue(o, <<>>) /\ UNCHANGED user
     \/ /\ Fault /\ muddled' = TRUE
        /\ ops[o].kind = "reauth" /\ user' = None
        /\ ops' = [ops EXCEPT ![o] = Call("logout", LogoutProgram, None, FALSE)]
  /\ UNCHANGED <<mgr, disk, daemon, forks, dead>>

(* writeProfileConfig also merges the config into the CLI's own copy: a    *)
(* key that is absent here survives there.                                 *)
WriteProfileConfig(t) ==
  [disk EXCEPT !.desk = t, !.cli = IF t = NoToken THEN @ ELSE t]

WriteToken(o) ==
  /\ At(o, "write")
  /\ disk' = WriteProfileConfig(ops[o].token)
  /\ ops' = [ops EXCEPT ![o].todo = Rest(o), ![o].token = NoToken]
  /\ UNCHANGED <<user, mgr, daemon, forks, dead, muddled, left>>

WriteSidecar(o) ==
  /\ At(o, "mark")
  /\ disk' = [disk EXCEPT !.owner = ops[o].user]
  /\ Continue(o, IF ops[o].changed THEN Rest(o) ELSE Tail(Rest(o)))
  /\ UNCHANGED <<user, mgr, daemon, forks, dead, muddled, left>>

(* Mutant: only a "running" daemon counts as live.                         *)
RotateRunningOnly(o) ==
  /\ At(o, "rotate")
  /\ IF daemon.up = "running"
     THEN \E x \in OpIds : /\ Free(x)
                           /\ ops' = [ops EXCEPT ![o].todo = Rest(o),
                                                 ![x] = Call("rotation", RestartProgram, None, FALSE)]
     ELSE Continue(o, Rest(o))
  /\ UNCHANGED <<user, mgr, disk, daemon, forks, dead, muddled, left>>

(* A changed user restarts a live daemon, without waiting for it.          *)
Rotate(o) ==
  /\ At(o, "rotate")
  /\ IF Alive
     THEN \E x \in OpIds : /\ Free(x)
                           /\ ops' = [ops EXCEPT ![o].todo = Rest(o),
                                                 ![x] = Call("rotation", RestartProgram, None, FALSE)]
     ELSE Continue(o, Rest(o))
  /\ UNCHANGED <<user, mgr, disk, daemon, forks, dead, muddled, left>>

ClearToken(o) ==
  /\ At(o, "untoken")
  /\ disk' = WriteProfileConfig(NoToken)
  /\ Continue(o, Rest(o))
  /\ UNCHANGED <<user, mgr, daemon, forks, dead, muddled, left>>

RemoveSidecar(o) ==
  /\ At(o, "unmark")
  /\ disk' = [disk EXCEPT !.owner = None]
  /\ Continue(o, Rest(o))
  /\ UNCHANGED <<user, mgr, daemon, forks, dead, muddled, left>>

(* Mutant: the guard is not looked at.                                     *)
EnterGuardAnyway(o) ==
  /\ At(o, "enter")
  /\ mgr' = [mgr EXCEPT !.guard = TRUE]
  /\ ops' = [ops EXCEPT ![o].guarded = TRUE, ![o].todo = StopProgram]
  /\ UNCHANGED <<user, disk, daemon, forks, dead, muddled, left>>

(* The logout's daemonAPI.stop() meets withGuard; a refusal is ignored.    *)
EnterGuard(o) ==
  /\ At(o, "enter")
  /\ IF mgr.guard
     THEN Continue(o, <<>>) /\ muddled' = TRUE /\ UNCHANGED mgr
     ELSE /\ mgr' = [mgr EXCEPT !.guard = TRUE]
          /\ ops' = [ops EXCEPT ![o].guarded = TRUE, ![o].todo = StopProgram]
          /\ UNCHANGED muddled
  /\ UNCHANGED <<user, disk, daemon, forks, dead, left>>

-----------------------------------------------------------------------------
(* What starts the calls: the poll timer, the renderer, the CLI install.   *)

PollTimer(o) ==
  /\ mgr.polling /\ Free(o)
  /\ mgr.shown \notin {"installing_cli", "cli_not_found"}
  /\ \A x \in OpIds : ops[x].kind # "poll"     \* bound: one poll in flight
  /\ Launch(o, [Call("poll", <<"judge">>, None, FALSE) EXCEPT !.health = Liveness])
  /\ UNCHANGED <<user, mgr, disk, daemon, forks, dead, left>>

(* Bound: a call is left for the restart each sync may fire.               *)
RoomToSync == Cardinality({x \in OpIds : ops[x].kind \in {"login", "reauth"}}) + 2 <= MaxCalls

(* A sign-in from the login page, or a deep link that replaces the user.   *)
Login(o) ==
  /\ Free(o) /\ Event /\ RoomToSync
  /\ \E u \in Users \ {user} : /\ user' = u
                               /\ Launch(o, Call("login", LoginProgram, u, FALSE))
  /\ UNCHANGED <<mgr, disk, daemon, forks, dead>>

Logout(o) ==
  /\ Free(o) /\ Event /\ user # None
  /\ user' = None
  /\ Launch(o, Call("logout", LogoutProgram, None, FALSE))
  /\ UNCHANGED <<mgr, disk, daemon, forks, dead>>

(* daemon:start, :stop and :restart from the runtime card, the overlay and *)
(* the effect that follows the first workspace; refused while guarded.     *)
Click(o) ==
  /\ Free(o) /\ Event /\ user # None /\ ~mgr.guard
  /\ mgr' = [mgr EXCEPT !.guard = TRUE]
  /\ \E p \in {StartProgram, StopProgram, RestartProgram} : Launch(o, Call("click", p, None, TRUE))
  /\ UNCHANGED <<user, disk, daemon, forks, dead>>

Reauthenticate(o) ==
  /\ Free(o) /\ Event /\ user # None /\ mgr.shown = "auth_expired" /\ RoomToSync
  /\ Launch(o, Call("reauth", ReauthProgram, user, FALSE))
  /\ UNCHANGED <<user, mgr, disk, daemon, forks, dead>>

BootstrapCli ==
  /\ mgr.cli = "resolving"
  /\ \/ /\ mgr' = [mgr EXCEPT !.cli = "found", !.shown = "stopped", !.polling = TRUE]
        /\ UNCHANGED left
     \/ Fault /\ mgr' = [mgr EXCEPT !.cli = "missing", !.shown = "cli_not_found"]
  /\ UNCHANGED <<user, disk, daemon, forks, dead, ops, muddled>>

(* daemon:retry-install, which may land a CLI newer than the daemon.       *)
RetryInstall ==
  /\ mgr.shown = "cli_not_found" /\ Event
  /\ mgr' = [mgr EXCEPT !.cli = "resolving"]
  /\ \E newer \in BOOLEAN : daemon' = [daemon EXCEPT !.old = Alive /\ (@ \/ newer)]
  /\ UNCHANGED <<user, disk, forks, dead, ops, muddled>>

GracePasses ==
  /\ mgr.attempt = "fresh" /\ mgr.shown = "starting"
  /\ mgr' = [mgr EXCEPT !.attempt = "due"]
  /\ UNCHANGED <<user, disk, daemon, forks, dead, ops, muddled, left>>

-----------------------------------------------------------------------------
(* The daemon process.                                                     *)

(* It binds the port (a second process fails there), then loads the token  *)
(* of the CLI's config and serves "starting".                              *)
Bind ==
  /\ forks > 0 /\ forks' = forks - 1
  /\ IF Alive \/ disk.cli = NoToken THEN UNCHANGED daemon
     ELSE daemon' = [Down EXCEPT !.up = "starting", !.token = disk.cli]
  /\ UNCHANGED <<user, mgr, disk, dead, ops, muddled, left>>

Preflight ==
  /\ daemon.up = "starting"
  /\ daemon' = IF Live(daemon.token) THEN [daemon EXCEPT !.up = "running"] ELSE Down
  /\ UNCHANGED <<user, mgr, disk, forks, dead, ops, muddled, left>>

Crash ==
  /\ Alive /\ Fault /\ daemon' = Down
  /\ UNCHANGED <<user, mgr, disk, forks, dead, ops, muddled>>

TakeTask ==
  /\ daemon.up = "running" /\ ~daemon.busy /\ Live(daemon.token) /\ Event
  /\ daemon' = [daemon EXCEPT !.busy = TRUE]
  /\ UNCHANGED <<user, mgr, disk, forks, dead, ops, muddled>>

FinishTask ==
  /\ daemon.busy /\ daemon' = [daemon EXCEPT !.busy = FALSE]
  /\ UNCHANGED <<user, mgr, disk, forks, dead, ops, muddled, left>>

(* The tokens of a user that are in use stop working.                      *)
Revoke ==
  /\ Fault
  /\ \E t \in {disk.desk, disk.cli, daemon.token} \cup {ops[o].token : o \in OpIds} :
       Live(t) /\ t.gen = 0 /\ dead' = dead \cup {t.of}
  /\ UNCHANGED <<user, mgr, disk, daemon, forks, ops, muddled>>

-----------------------------------------------------------------------------
(* The app starts with the session it saved, next to what the previous run *)
(* left: its daemon (which may be older, with a task), or none and tokens  *)
(* that may be dead; or at the login page, logging out what is left.       *)
Kept == LET t == [of |-> Owner, gen |-> 0] IN [desk |-> t, cli |-> t, owner |-> Owner]
Nothing == [desk |-> NoToken, cli |-> NoToken, owner |-> None]
LeftRunning(old) == [up |-> "running", token |-> Kept.cli, old |-> old, busy |-> old]
First(call) == [o \in OpIds |-> IF o = 1 THEN call ELSE Idle]

DaemonInit ==
  /\ mgr = [shown |-> "installing_cli", attempt |-> "none",
            expired |-> FALSE, pending |-> FALSE, guard |-> FALSE,
            polling |-> FALSE, cli |-> "resolving"]
  /\ \/ /\ user = Owner /\ disk = Kept
        /\ ops = First(Call("login", LoginProgram, Owner, FALSE))
        /\ \/ daemon \in {LeftRunning(FALSE), LeftRunning(TRUE)} /\ dead = {}
           \/ daemon = Down /\ dead \in {{}, {Owner}}
     \/ /\ user = None /\ dead = {}
        /\ ops = First(Call("logout", LogoutProgram, None, FALSE))
        /\ \/ disk = Nothing /\ daemon = Down
           \/ disk = Kept /\ daemon = LeftRunning(FALSE)
  /\ forks = 0 /\ muddled = FALSE /\ left = MaxEvents

Step(o) ==
  \/ Probe(o) \/ Judge(o) \/ AskServer(o) \/ Verdict(o)
  \/ SampleVersion(o) \/ Decide(o)
  \/ Stop(o) \/ Halt(o) \/ Find(o) \/ LaunchDaemon(o) \/ Exec(o) \/ Await(o)
  \/ ReadConfig(o) \/ MintPat(o) \/ WriteToken(o) \/ WriteSidecar(o) \/ Rotate(o)
  \/ ClearToken(o) \/ RemoveSidecar(o) \/ EnterGuard(o)

Renderer(o) == Login(o) \/ Logout(o) \/ Click(o) \/ Reauthenticate(o)

Progress == Bind \/ Preflight \/ FinishTask

DaemonNext ==
  \/ \E o \in OpIds : Step(o) \/ PollTimer(o) \/ Renderer(o)
  \/ BootstrapCli \/ RetryInstall \/ GracePasses
  \/ Progress \/ Crash \/ TakeTask \/ Revoke

(* Timers fire, awaited calls end, the daemon makes progress and its tasks *)
(* end; nothing is asked of the user or of the faults.                     *)
DaemonFairness ==
  /\ \A o \in OpIds : WF_daemonVars(Step(o))
  /\ WF_daemonVars(\E o \in OpIds : PollTimer(o))
  /\ WF_daemonVars(BootstrapCli \/ GracePasses)
  /\ WF_daemonVars(Progress)

DaemonSpec == DaemonInit /\ [][DaemonNext]_daemonVars /\ DaemonFairness

-----------------------------------------------------------------------------
(* Every variable keeps its type; a guarded call holds the guard.          *)
DaemonTypeOK ==
  /\ user \in Users \cup {None}
  /\ mgr.shown \in {"installing_cli", "cli_not_found", "stopped", "starting",
                    "running", "stopping", "auth_expired"}
  /\ mgr.attempt \in {"none", "fresh", "due", "probed"}
  /\ mgr.cli \in {"resolving", "missing", "found"}
  /\ disk.desk \in Token \cup {NoToken} /\ disk.cli \in Token \cup {NoToken}
  /\ disk.owner \in Users \cup {None}
  /\ daemon.up \in {"down", "starting", "running"}
  /\ daemon.token \in Token \cup {NoToken} /\ (Alive => daemon.token # NoToken)
  /\ forks \in 0..Cardinality(OpIds) /\ left \in 0..MaxEvents
  /\ mgr.guard <=> \E o \in OpIds : ops[o].guarded
  /\ Cardinality({o \in OpIds : ops[o].guarded}) <= 1

(* Nothing is starting, stopping or rewriting the config.                  *)
Settled == forks = 0 /\ \A o \in OpIds : ops[o].kind \in Passive

(* Once the calls have ended, the daemon that is up runs with a token of   *)
(* the signed-in user, whether the account was replaced directly (restart  *)
(* on user change) or by way of a logout; unless an account changed while  *)
(* another call was starting or stopping the daemon, or a step failed.     *)
CredentialsFollowUser ==
  Settled /\ ~muddled /\ Alive => daemon.token.of = user

(* The same without the exception: what the logout handler promises.       *)
NoInheritedCredentials ==
  Settled /\ Alive /\ user # None => daemon.token.of = user

(* The state shown ends up that of the daemon.  "starting" with no daemon  *)
(* remains only where fetchHealth's own "starting" feeds on itself: the    *)
(* one token probe of the attempt was spent without a verdict, or there is *)
(* no attempt to time (startingSince is null: a poll that was overtaken by *)
(* a stop, or a daemon that died after booting on its own).                *)
Agrees ==
  \/ mgr.cli = "missing"
  \/ daemon.up = "running" /\ mgr.shown = "running"
  \/ ~Alive /\ mgr.shown \in {"stopped", "auth_expired"}
  \/ ~Alive /\ mgr.shown = "starting" /\ ~mgr.expired /\ mgr.attempt \in {"none", "probed"}
StatusConverges == <>[]Agrees

(* A version restart put off while the daemon was busy happens in the end: *)
(* the old daemon goes away, or a stop failed.                             *)
DeferredRestartFires ==
  mgr.pending /\ daemon.old ~> ~daemon.old \/ muddled
=============================================================================
