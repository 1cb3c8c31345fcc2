------------------------- MODULE DesktopDaemonProofs -------------------------
(* Proofs about the desktop's daemon manager: for any users, any number of *)
(* calls in flight, events and faults, a settled daemon runs with a token  *)
(* of the signed-in user.                                                  *)
(*                                                                         *)
(* Calls are programs, so the invariant says where each call can stand     *)
(* (Stands) and what holds of the accounts there (Accounts): which calls   *)
(* exclude each other, whose token is in the config and who the sidecar    *)
(* names at each step of a synchronisation, and which call is about to     *)
(* replace a daemon that runs with another user's token (Repairs).         *)
EXTENDS DesktopDaemon, FiniteSetTheorems, TLAPS

-----------------------------------------------------------------------------
(* Where a program can stand.                                              *)

S1 == <<"await">>
S2 == <<"exec", "await">>
S3 == <<"launch", "exec", "await">>
R5 == <<"halt", "find", "launch", "exec", "await">>
T1 == <<"halt">>
L1 == <<"enter">>
L2 == <<"unmark", "enter">>
V1 == <<"decide">>
P1 == <<"judge">>
A1 == <<"verdict">>
A2 == <<"ask", "verdict">>
I1 == <<"rotate", "probe", "judge">>
I2 == <<"mark", "rotate", "probe", "judge">>
I3 == <<"write", "mark", "rotate", "probe", "judge">>
I4 == <<"mint", "write", "mark", "rotate", "probe", "judge">>
Q1 == <<"rotate", "stop", "halt", "find", "launch", "exec", "await">>
Q2 == <<"mark", "rotate", "stop", "halt", "find", "launch", "exec", "await">>
Q3 == <<"write", "mark", "rotate", "stop", "halt", "find", "launch", "exec", "await">>
Q4 == <<"mint", "write", "mark", "rotate", "stop", "halt", "find", "launch", "exec",
        "await">>
Q5 == <<"read", "mint", "write", "mark", "rotate", "stop", "halt", "find", "launch",
        "exec", "await">>
Q6 == <<"unmark", "read", "mint", "write", "mark", "rotate", "stop", "halt", "find",
        "launch", "exec", "await">>

Starting == {StartProgram, S3, S2, S1}
Restarting == {RestartProgram, R5} \cup Starting
Versioning == {VersionProgram, V1}
Probing == {PollProgram, P1, A2, A1}
Unwritten == {LoginProgram, I4, I3, ReauthProgram, Q6, Q5, Q4, Q3}
Unmarked == Unwritten \cup {I2, Q2}
Syncing == Unmarked \cup {I1, Q1}

Programs == {<<>>} \cup Probing \cup Versioning \cup Restarting \cup Syncing
            \cup {StopProgram, T1, LogoutProgram, L2, L1}

Stands(c) ==
  \/ c.kind = "idle" /\ c.todo = <<>>
  \/ c.kind = "poll" /\ c.todo \in Probing
  \/ c.kind = "version" /\ c.todo \in Versioning \cup Restarting
  \/ c.kind = "rotation" /\ c.todo \in Restarting
  \/ c.kind = "click" /\ c.todo \in Restarting \cup {StopProgram, T1}
  \/ c.kind = "logout" /\ c.todo \in {LogoutProgram, L2, L1} /\ ~c.guarded
  \/ c.kind = "logout" /\ c.todo \in {StopProgram, T1}
  \/ /\ c.kind = "login"
     /\ c.todo \in {LoginProgram, I4, I3, I2, I1} \cup Probing \cup Versioning \cup Restarting
  \/ /\ c.kind = "reauth"
     /\ c.todo \in {ReauthProgram, Q6, Q5, Q4, Q3, Q2, Q1} \cup Restarting

Tokens == Token \cup {NoToken}
Sample == [up : {"down", "starting", "running"}, old : BOOLEAN, busy : BOOLEAN]
Kinds == {"idle", "poll", "version", "rotation", "click", "logout", "login", "reauth"}
Calls == [kind : Kinds, todo : Programs,
          user : Users \cup {None}, health : Sample, token : Tokens,
          changed : BOOLEAN, bad : BOOLEAN, guarded : BOOLEAN]

Awaiting == {o \in OpIds : ops[o].todo = S1}

Managers ==
  [shown : {"installing_cli", "cli_not_found", "stopped", "starting",
            "running", "stopping", "auth_expired"},
   attempt : {"none", "fresh", "due", "probed"},
   expired : BOOLEAN, pending : BOOLEAN, guard : BOOLEAN, polling : BOOLEAN,
   cli : {"resolving", "missing", "found"}]
Disks == [desk : Tokens, cli : Tokens, owner : Users \cup {None}]
Daemons == [up : {"down", "starting", "running"}, token : Tokens, old : BOOLEAN, busy : BOOLEAN]

ManagerOK ==
  /\ mgr \in Managers /\ disk \in Disks
  /\ daemon \in Daemons /\ (Alive => daemon.token \in Token)
  /\ user \in Users \cup {None} /\ dead \subseteq Users
  /\ muddled \in BOOLEAN /\ left \in 0..MaxEvents /\ forks \in Nat

CallsOK ==
  /\ ops \in [OpIds -> Calls]
  /\ \A o \in OpIds : Stands(ops[o])

GuardOK ==
  /\ \A o \in OpIds : ops[o].guarded => mgr.guard /\ ops[o].kind \in {"click", "logout"}
  /\ mgr.guard => \E o \in OpIds : ops[o].guarded
  /\ \A o, x \in OpIds : ops[o].guarded /\ ops[x].guarded => o = x

(* A process that has not bound the port is waited for.                    *)
ForksOK == forks <= Cardinality(Awaiting)

-----------------------------------------------------------------------------
InSync(c) == c.kind \in {"login", "reauth"} /\ c.todo \in Syncing
ToWrite(c) == c.kind \in {"login", "reauth"} /\ c.todo \in Unwritten
ToMark(c) == c.kind \in {"login", "reauth"} /\ c.todo \in Unmarked
AtMark(c) == c.kind \in {"login", "reauth"} /\ c.todo \in {I2, Q2}
Quiet(c) == c.kind \in Passive

Alone(c) == InSync(c) \/ c.kind = "logout"

Exclusive ==
  /\ \A o, x \in OpIds : o # x /\ ops[o].kind \in Session =>
       ops[x].kind \in Passive \cup {"rotation"}
  /\ \A o \in OpIds : Alone(ops[o]) => forks = 0 /\ \A x \in OpIds \ {o} : Quiet(ops[x])

ForUser ==
  \A o \in OpIds :
    /\ ops[o].kind \in {"login", "reauth"} => ops[o].user = user /\ user # None
    /\ ops[o].kind = "logout" => user = None

ConfigRight ==
  user # None /\ (\A o \in OpIds : ~ToWrite(ops[o])) => disk.cli = NoToken \/ disk.cli.of = user

SidecarRight ==
  user # None /\ (\A o \in OpIds : ~ToMark(ops[o])) => disk.owner = user

OwnToken ==
  /\ \A o \in OpIds : ops[o].kind \in {"login", "reauth"} /\ ops[o].todo \in {I3, Q3} => ops[o].token.of = user
  /\ disk.owner # None /\ disk.desk # NoToken =>
       disk.desk.of = disk.owner \/ \E o \in OpIds : AtMark(ops[o])
  /\ \A o \in OpIds : AtMark(ops[o]) => disk.desk.of = user

Harmless(c) == \/ c.kind \in Passive \cup {"logout"}
               \/ /\ c.kind = "version" /\ ~Alive
                  /\ c.todo = VersionProgram \/ (c.todo = V1 /\ c.health.up # "running")
SignedOut == user = None => forks = 0 /\ \A o \in OpIds : Harmless(ops[o])

Repairs(c) ==
  \/ c.kind = "login" /\ c.todo = LoginProgram /\ disk.owner \notin {None, user}
  \/ c.kind = "login" /\ c.todo \in {I4, I3, I2} /\ c.changed
  \/ c.kind = "login" /\ c.todo = I1
  \/ c.kind = "logout"
  \/ c.kind = "rotation" /\ c.todo \in {RestartProgram, R5}
DaemonRight == Alive => daemon.token.of = user \/ \E o \in OpIds : Repairs(ops[o])

Accounts == ~muddled =>
  Exclusive /\ ForUser /\ ConfigRight /\ SidecarRight /\ OwnToken /\ SignedOut /\ DaemonRight

DaemonInv == ManagerOK /\ CallsOK /\ GuardOK /\ ForksOK /\ Accounts

-----------------------------------------------------------------------------
Now(p) == Head(p)
After(p) == Tail(p)

(* Each program's next step, and where it leads.                           *)
LEMMA ProgramNow ==
  /\ StartProgram # <<>> /\ Now(StartProgram) = "find"
  /\ S3 # <<>> /\ Now(S3) = "launch"
  /\ S2 # <<>> /\ Now(S2) = "exec"
  /\ S1 # <<>> /\ Now(S1) = "await"
  /\ RestartProgram # <<>> /\ Now(RestartProgram) = "stop"
  /\ R5 # <<>> /\ Now(R5) = "halt"
  /\ StopProgram # <<>> /\ Now(StopProgram) = "stop"
  /\ T1 # <<>> /\ Now(T1) = "halt"
  /\ PollProgram # <<>> /\ Now(PollProgram) = "probe"
  /\ P1 # <<>> /\ Now(P1) = "judge"
  /\ A2 # <<>> /\ Now(A2) = "ask"
  /\ A1 # <<>> /\ Now(A1) = "verdict"
  /\ VersionProgram # <<>> /\ Now(VersionProgram) = "version"
  /\ V1 # <<>> /\ Now(V1) = "decide"
  /\ LoginProgram # <<>> /\ Now(LoginProgram) = "read"
  /\ I4 # <<>> /\ Now(I4) = "mint"
  /\ I3 # <<>> /\ Now(I3) = "write"
  /\ I2 # <<>> /\ Now(I2) = "mark"
  /\ I1 # <<>> /\ Now(I1) = "rotate"
  /\ LogoutProgram # <<>> /\ Now(LogoutProgram) = "untoken"
  /\ L2 # <<>> /\ Now(L2) = "unmark"
  /\ L1 # <<>> /\ Now(L1) = "enter"
  /\ ReauthProgram # <<>> /\ Now(ReauthProgram) = "untoken"
  /\ Q6 # <<>> /\ Now(Q6) = "unmark"
  /\ Q5 # <<>> /\ Now(Q5) = "read"
  /\ Q4 # <<>> /\ Now(Q4) = "mint"
  /\ Q3 # <<>> /\ Now(Q3) = "write"
  /\ Q2 # <<>> /\ Now(Q2) = "mark"
  /\ Q1 # <<>> /\ Now(Q1) = "rotate"
BY DEF StartProgram, S3, S2, S1, RestartProgram, R5, StopProgram, T1,
       PollProgram, P1, A2, A1, VersionProgram, V1, LoginProgram, I4,
       I3, I2, I1, LogoutProgram, L2, L1, ReauthProgram, Q6, Q5, Q4, Q3,
       Q2, Q1, Now

LEMMA ProgramAfter ==
  /\ After(StartProgram) = S3
  /\ After(S3) = S2
  /\ After(S2) = S1
  /\ After(S1) = <<>>
  /\ After(RestartProgram) = R5
  /\ After(R5) = StartProgram
  /\ After(StopProgram) = T1
  /\ After(T1) = <<>>
  /\ After(PollProgram) = P1
  /\ After(P1) = <<>>
  /\ After(A2) = A1
  /\ After(A1) = <<>>
  /\ After(VersionProgram) = V1
  /\ After(V1) = <<>>
  /\ After(LoginProgram) = I4
  /\ After(I4) = I3
  /\ After(I3) = I2
  /\ After(I2) = I1
  /\ After(I1) = PollProgram
  /\ After(LogoutProgram) = L2
  /\ After(L2) = L1
  /\ After(L1) = <<>>
  /\ After(ReauthProgram) = Q6
  /\ After(Q6) = Q5
  /\ After(Q5) = Q4
  /\ After(Q4) = Q3
  /\ After(Q3) = Q2
  /\ After(Q2) = Q1
  /\ After(Q1) = RestartProgram
BY DEF StartProgram, S3, S2, S1, RestartProgram, R5, StopProgram, T1,
       PollProgram, P1, A2, A1, VersionProgram, V1, LoginProgram, I4,
       I3, I2, I1, LogoutProgram, L2, L1, ReauthProgram, Q6, Q5, Q4, Q3,
       Q2, Q1, After

(* The step a call is at tells where it stands.                            *)
LEMMA Standing ==
  ASSUME NEW c, Stands(c)
  PROVE  /\ c.todo = <<>> <=> c.kind = "idle"
         /\ c.todo # <<>> =>
            /\ Now(c.todo) = "probe" => c.todo = PollProgram /\ c.kind \in {"poll", "login"}
            /\ Now(c.todo) = "judge" => c.todo = P1 /\ c.kind \in {"poll", "login"}
            /\ Now(c.todo) = "ask" => c.todo = A2 /\ c.kind \in {"poll", "login"}
            /\ Now(c.todo) = "verdict" => c.todo = A1 /\ c.kind \in {"poll", "login"}
            /\ Now(c.todo) = "version" => c.todo = VersionProgram /\ c.kind \in {"version", "login"}
            /\ Now(c.todo) = "decide" => c.todo = V1 /\ c.kind \in {"version", "login"}
            /\ Now(c.todo) = "stop" =>
                 \/ /\ c.todo = RestartProgram
                    /\ c.kind \in {"version", "rotation", "click", "login", "reauth"}
                 \/ c.todo = StopProgram /\ c.kind \in {"click", "logout"}
            /\ Now(c.todo) = "halt" =>
                 \/ /\ c.todo = R5
                    /\ c.kind \in {"version", "rotation", "click", "login", "reauth"}
                 \/ c.todo = T1 /\ c.kind \in {"click", "logout"}
            /\ Now(c.todo) \in {"find", "launch", "exec", "await"} =>
                 c.kind \in {"version", "rotation", "click", "login", "reauth"}
            /\ Now(c.todo) = "find" => c.todo = StartProgram
            /\ Now(c.todo) = "launch" => c.todo = S3
            /\ Now(c.todo) = "exec" => c.todo = S2
            /\ Now(c.todo) = "await" => c.todo = S1
            /\ Now(c.todo) = "read" => \/ c.todo = LoginProgram /\ c.kind = "login"
                                       \/ c.todo = Q5 /\ c.kind = "reauth"
            /\ Now(c.todo) = "mint" => \/ c.todo = I4 /\ c.kind = "login"
                                       \/ c.todo = Q4 /\ c.kind = "reauth"
            /\ Now(c.todo) = "write" => \/ c.todo = I3 /\ c.kind = "login"
                                        \/ c.todo = Q3 /\ c.kind = "reauth"
            /\ Now(c.todo) = "mark" => \/ c.todo = I2 /\ c.kind = "login"
                                       \/ c.todo = Q2 /\ c.kind = "reauth"
            /\ Now(c.todo) = "rotate" => \/ c.todo = I1 /\ c.kind = "login"
                                         \/ c.todo = Q1 /\ c.kind = "reauth"
            /\ Now(c.todo) = "untoken" => \/ c.todo = LogoutProgram /\ c.kind = "logout"
                                          \/ c.todo = ReauthProgram /\ c.kind = "reauth"
            /\ Now(c.todo) = "unmark" => \/ c.todo = L2 /\ c.kind = "logout"
                                         \/ c.todo = Q6 /\ c.kind = "reauth"
            /\ Now(c.todo) = "enter" => c.todo = L1 /\ c.kind = "logout"
            /\ Now(c.todo) \in {"untoken", "unmark", "enter"} /\ c.kind = "logout" => ~c.guarded
<1>1. CASE c.kind = "idle"
  BY <1>1 DEF Stands
<1>2. CASE c.kind = "poll"
  BY <1>2, ProgramNow DEF Stands, Probing
<1>3. CASE c.kind = "version"
  BY <1>3, ProgramNow DEF Stands, Versioning, Restarting, Starting
<1>4. CASE c.kind = "rotation"
  BY <1>4, ProgramNow DEF Stands, Restarting, Starting
<1>5. CASE c.kind = "click"
  BY <1>5, ProgramNow DEF Stands, Restarting, Starting
<1>6. CASE c.kind = "logout"
  <2>1. /\ c.todo \in {LogoutProgram, L2, L1, StopProgram, T1}
        /\ c.todo \in {LogoutProgram, L2, L1} => ~c.guarded \/ c.todo \in {StopProgram, T1}
    BY <1>6 DEF Stands
  <2>2. CASE c.todo = LogoutProgram
    BY <1>6, <2>1, <2>2, ProgramNow
  <2>3. CASE c.todo = L2
    BY <1>6, <2>1, <2>3, ProgramNow
  <2>4. CASE c.todo = L1
    BY <1>6, <2>1, <2>4, ProgramNow
  <2>5. CASE c.todo \in {StopProgram, T1}
    BY <1>6, <2>5, ProgramNow
  <2> QED BY <2>1, <2>2, <2>3, <2>4, <2>5
<1>7. CASE c.kind = "login"
  <2>1. CASE c.todo \in {LoginProgram, I4, I3, I2, I1}
    BY <1>7, <2>1, ProgramNow
  <2>2. CASE c.todo \in Probing \cup Versioning
    BY <1>7, <2>2, ProgramNow DEF Probing, Versioning
  <2>3. CASE c.todo \in Restarting
    BY <1>7, <2>3, ProgramNow DEF Restarting, Starting
  <2> QED BY <1>7, <2>1, <2>2, <2>3 DEF Stands
<1>8. CASE c.kind = "reauth"
  BY <1>8, ProgramNow DEF Stands, Restarting, Starting
<1> QED BY <1>1, <1>2, <1>3, <1>4, <1>5, <1>6, <1>7, <1>8 DEF Stands

-----------------------------------------------------------------------------
(* Records of calls.                                                       *)

LEMMA CallTyped ==
  ASSUME NEW k \in Kinds, NEW p \in Programs, NEW u \in Users \cup {None}, NEW g \in BOOLEAN
  PROVE  /\ Call(k, p, u, g) \in Calls
         /\ Call(k, p, u, g).kind = k /\ Call(k, p, u, g).todo = p
         /\ Call(k, p, u, g).user = u /\ Call(k, p, u, g).guarded = g
         /\ ~Call(k, p, u, g).changed
BY DEF Call, Idle, NoHealth, Calls, Sample, Tokens

LEMMA IdleTyped ==
  /\ Idle \in Calls /\ Idle.kind = "idle" /\ Idle.todo = <<>> /\ ~Idle.guarded
  /\ Stands(Idle)
BY DEF Idle, NoHealth, Calls, Kinds, Programs, Sample, Tokens, Stands

(* The programs a call may be given, and where they stand.                 *)
LEMMA ProgramKinds ==
  ASSUME NEW c
  PROVE  /\ Stands(c) => c.todo \in Programs /\ c.kind \in Kinds
         /\ c.kind = "login" /\ c.todo \in {LoginProgram, I4, I3, I2, I1} => Stands(c)
         /\ c.kind = "reauth" /\ c.todo \in {ReauthProgram, Q6, Q5, Q4, Q3, Q2, Q1} => Stands(c)
         /\ c.kind = "logout" /\ c.todo \in {LogoutProgram, L2, L1} /\ ~c.guarded => Stands(c)
         /\ c.kind = "logout" /\ c.todo \in {StopProgram, T1} => Stands(c)
         /\ c.kind \in {"poll", "login"} /\ c.todo \in Probing => Stands(c)
         /\ c.kind \in {"version", "login"} /\ c.todo \in Versioning => Stands(c)
         /\ /\ c.kind \in {"version", "rotation", "click", "login", "reauth"}
            /\ c.todo \in Restarting
            => Stands(c)
         /\ c.kind = "click" /\ c.todo \in {StopProgram, T1} => Stands(c)
BY DEF Stands, Programs, Kinds, Probing, Versioning, Restarting, Starting, Syncing,
       Unmarked, Unwritten

-----------------------------------------------------------------------------
(* The initial states.                                                     *)

LEMMA DaemonInvInit == DaemonInit => DaemonInv
<1> SUFFICES ASSUME DaemonInit PROVE DaemonInv
  OBVIOUS
<1>0. 1 \in OpIds /\ Owner \in Users /\ Owner # None
  BY OwnerAssumption, BoundsAssumption DEF OpIds
<1>1. PICK c \in Calls :
        /\ ops = First(c) /\ ~c.guarded
        /\ \/ /\ c.kind = "login" /\ c.todo = LoginProgram /\ c.user = user
              /\ user = Owner /\ disk = Kept
           \/ /\ c.kind = "logout" /\ c.todo = LogoutProgram /\ user = None
              /\ disk \in {Nothing, Kept}
  <2>1. /\ LoginProgram \in Programs /\ LogoutProgram \in Programs
        /\ "login" \in Kinds /\ "logout" \in Kinds
    BY DEF Programs, Kinds, Syncing, Unmarked, Unwritten
  <2>2. CASE /\ user = Owner /\ disk = Kept
             /\ ops = First(Call("login", LoginProgram, Owner, FALSE))
    <3> DEFINE d == Call("login", LoginProgram, Owner, FALSE)
    <3>1. d \in Calls /\ ~d.guarded /\ d.kind = "login" /\ d.todo = LoginProgram /\ d.user = user
      BY <1>0, <2>1, <2>2 DEF Call, Idle, NoHealth, Calls, Sample, Tokens
    <3> QED BY <2>2, <3>1
  <2>3. CASE /\ user = None /\ disk \in {Nothing, Kept}
             /\ ops = First(Call("logout", LogoutProgram, None, FALSE))
    <3> DEFINE d == Call("logout", LogoutProgram, None, FALSE)
    <3>1. d \in Calls /\ ~d.guarded /\ d.kind = "logout" /\ d.todo = LogoutProgram
      BY <2>1 DEF Call, Idle, NoHealth, Calls, Sample, Tokens
    <3> QED BY <2>3, <3>1
  <2> QED BY <2>2, <2>3 DEF DaemonInit
<1>2. ops = [o \in OpIds |-> IF o = 1 THEN c ELSE Idle]
  BY <1>1 DEF First
<1>3. Stands(c)
  BY <1>1, ProgramKinds
<1>4. ops[1] = c /\ \A o \in OpIds : o # 1 => ops[o] = Idle
  BY <1>0, <1>2
<1>5. CallsOK
  BY <1>1, <1>2, <1>3, <1>4, IdleTyped DEF CallsOK
<1>6. ManagerOK
  <2>1. Kept \in Disks /\ Nothing \in Disks /\ Kept.cli \in Token
    BY <1>0 DEF Kept, Nothing, Tokens, Token, NoToken, Disks
  <2>2. \A old \in BOOLEAN : LeftRunning(old) \in Daemons /\ LeftRunning(old).token \in Token
    BY <2>1 DEF LeftRunning, Daemons, Tokens
  <2>3. Down \in Daemons /\ Down.up = "down"
    BY DEF Down, Tokens, Daemons
  <2>4. daemon = Down \/ \E old \in BOOLEAN : daemon = LeftRunning(old)
    BY DEF DaemonInit
  <2>5. daemon \in Daemons /\ (Alive => daemon.token \in Token)
    BY <2>2, <2>3, <2>4 DEF Alive
  <2>6. user \in Users \cup {None} /\ dead \subseteq Users /\ disk \in Disks
    BY <1>0, <1>1, <2>1 DEF DaemonInit
  <2>7. muddled = FALSE /\ left = MaxEvents /\ forks = 0
    BY DEF DaemonInit
  <2>8. left \in 0..MaxEvents /\ forks \in Nat
    BY <2>7, BoundsAssumption
  <2>9. muddled \in BOOLEAN
    BY <2>7
  <2>10. mgr \in Managers
    BY DEF DaemonInit, Managers
  <2> QED BY <2>5, <2>6, <2>8, <2>9, <2>10 DEF ManagerOK
<1>7. GuardOK /\ ForksOK
  <2>1. GuardOK
    BY <1>1, <1>4, IdleTyped DEF GuardOK, DaemonInit
  <2>2. IsFiniteSet(OpIds)
    BY BoundsAssumption, FS_Interval DEF OpIds
  <2>3. Cardinality(Awaiting) \in Nat
    BY <2>2, FS_Subset, FS_CardinalityType DEF Awaiting
  <2> QED BY <2>1, <2>3 DEF ForksOK, DaemonInit
<1>8. Accounts
  <2>1. \A o \in OpIds : o # 1 => ops[o].kind = "idle"
    BY <1>4, IdleTyped
  <2>2. CASE c.kind = "login"
    <3>1. /\ user = Owner /\ disk = Kept /\ c.todo = LoginProgram /\ c.user = user
      BY <1>1, <2>2
    <3>2. ToWrite(c) /\ ToMark(c) /\ ~AtMark(c)
      <4>1. LoginProgram \notin {I2, Q2}
        BY ProgramNow
      <4> QED BY <2>2, <3>1, <4>1 DEF ToWrite, ToMark, AtMark, Unwritten, Unmarked
    <3>3. Exclusive /\ ForUser /\ SignedOut
      BY <1>0, <1>4, <2>1, <2>2, <3>1
         DEF Exclusive, ForUser, SignedOut, Alone, InSync, Quiet, Session, Passive, DaemonInit
    <3>4. ConfigRight /\ SidecarRight
      BY <1>0, <1>4, <3>2 DEF ConfigRight, SidecarRight
    <3>5. OwnToken
      <4>1. \A o \in OpIds : ~AtMark(ops[o])
        BY <1>4, <2>1, <3>2 DEF AtMark
      <4>2. disk.desk.of = disk.owner
        BY <3>1 DEF Kept
      <4>3. LoginProgram \notin {I3, Q3}
        BY ProgramNow
      <4> QED BY <1>4, <2>1, <3>1, <4>1, <4>2, <4>3 DEF OwnToken
    <3>6. DaemonRight
      <4>1. daemon = Down \/ \E old \in BOOLEAN : daemon = LeftRunning(old)
        BY DEF DaemonInit
      <4>2. Alive => daemon.token.of = Owner
        BY <4>1 DEF Alive, Down, LeftRunning, Kept
      <4> QED BY <3>1, <4>2 DEF DaemonRight
    <3> QED BY <3>3, <3>4, <3>5, <3>6 DEF Accounts
  <2>3. CASE c.kind = "logout"
    <3>1. user = None /\ disk \in {Nothing, Kept}
      BY <1>1, <2>3
    <3>2. Exclusive /\ ForUser /\ SignedOut /\ ConfigRight /\ SidecarRight
      BY <1>0, <1>4, <2>1, <2>3, <3>1
         DEF Exclusive, ForUser, SignedOut, ConfigRight, SidecarRight, Alone, InSync, Quiet,
             Session, Passive, Harmless, DaemonInit
    <3>3. OwnToken
      <4>1. disk.owner # None => disk.desk.of = disk.owner
        BY <3>1 DEF Kept, Nothing
      <4> QED BY <1>4, <2>1, <2>3, <4>1 DEF OwnToken, AtMark
    <3>4. DaemonRight
      BY <1>0, <1>4, <2>3 DEF DaemonRight, Repairs
    <3> QED BY <3>2, <3>3, <3>4 DEF Accounts
  <2> QED BY <1>1, <2>2, <2>3
<1> QED BY <1>5, <1>6, <1>7, <1>8 DEF DaemonInv

-----------------------------------------------------------------------------
(* Steps of the calls.  What each leaves alone is stated once: the call in *)
(* o becomes c, the accounts stay as they are.                             *)

LEMMA CallsStep ==
  ASSUME DaemonInv, NEW o \in OpIds, NEW c \in Calls, Stands(c), ops' = [ops EXCEPT ![o] = c]
  PROVE  /\ CallsOK'
         /\ ops'[o] = c /\ \A x \in OpIds : x # o => ops'[x] = ops[x]
BY DEF DaemonInv, CallsOK

LEMMA OpIdsFinite == IsFiniteSet(OpIds) /\ Cardinality(OpIds) \in Nat
BY BoundsAssumption, FS_Interval, FS_CardinalityType DEF OpIds

(* A call that is not at its await step before may be there after.         *)
LEMMA ForksStep ==
  ASSUME DaemonInv, NEW o \in OpIds, NEW c, ops' = [ops EXCEPT ![o] = c],
         \/ forks' = forks /\ (ops[o].todo = S1 => forks = 0)
         \/ forks' = forks + 1 /\ ops[o].todo # S1 /\ c.todo = S1
  PROVE  ForksOK'
<1>1. /\ ops \in [OpIds -> Calls] /\ forks \in Nat /\ forks <= Cardinality(Awaiting)
  BY DEF DaemonInv, CallsOK, ManagerOK, ForksOK
<1>2. /\ IsFiniteSet(Awaiting) /\ IsFiniteSet(Awaiting')
      /\ Cardinality(Awaiting) \in Nat /\ Cardinality(Awaiting') \in Nat
  <2>1. Awaiting \subseteq OpIds /\ Awaiting' \subseteq OpIds
    BY DEF Awaiting
  <2> QED BY <2>1, OpIdsFinite, FS_Subset, FS_CardinalityType
<1>3. CASE forks' = forks /\ forks = 0
  BY <1>2, <1>3 DEF ForksOK
<1>4. CASE forks' = forks /\ ops[o].todo # S1
  <2>1. Awaiting \subseteq Awaiting'
    BY <1>1, <1>4 DEF Awaiting
  <2> QED BY <1>1, <1>2, <1>4, <2>1, FS_Subset DEF ForksOK
<1>5. CASE forks' = forks + 1 /\ ops[o].todo # S1 /\ c.todo = S1
  <2>1. Awaiting' = Awaiting \cup {o} /\ o \notin Awaiting
    BY <1>1, <1>5 DEF Awaiting
  <2>2. Cardinality(Awaiting') = Cardinality(Awaiting) + 1
    BY <1>2, <2>1, FS_AddElement
  <2> QED BY <1>1, <1>2, <1>5, <2>2 DEF ForksOK
<1> QED BY <1>3, <1>4, <1>5

LEMMA SyncParts ==
  ASSUME NEW c
  PROVE  /\ ToWrite(c) => ToMark(c)
         /\ ToMark(c) => InSync(c)
         /\ AtMark(c) => ToMark(c)
         /\ c.kind \in {"login", "reauth"} /\ c.todo \in {I3, Q3} => ToWrite(c)
         /\ Repairs(c) => c.kind \notin Passive
         /\ InSync(c) => c.kind \in Session
BY DEF ToWrite, ToMark, InSync, AtMark, Syncing, Unmarked, Unwritten, Repairs, Passive, Session

(* A step of a call outside its synchronisation: the accounts stay as they *)
(* are if it spawns no process it must not, and replaces a wrong daemon if *)
(* it was to.                                                              *)
LEMMA OrdinaryStep ==
  ASSUME DaemonInv, NEW o \in OpIds, NEW c \in Calls, ops' = [ops EXCEPT ![o] = c],
         UNCHANGED <<user, disk>>, muddled => muddled',
         ~InSync(ops[o]), ~InSync(c),
         \/ c.kind = ops[o].kind /\ c.user = ops[o].user
         \/ c.kind \in Passive,
         \/ muddled'
         \/ /\ \/ forks' = forks
               \/ ops[o].kind \notin Passive \cup {"logout"} /\ user # None
            /\ Alive' => Alive /\ daemon'.token = daemon.token
            /\ user = None /\ Harmless(ops[o]) => Harmless(c)'
            /\ Repairs(ops[o]) /\ Alive' => Repairs(c)
  PROVE  Accounts'
<1> SUFFICES ASSUME ~muddled' PROVE (Exclusive /\ ForUser /\ ConfigRight /\ SidecarRight
                                     /\ OwnToken /\ SignedOut /\ DaemonRight)'
  BY DEF Accounts
<1>1. /\ Exclusive /\ ForUser /\ ConfigRight /\ SidecarRight
      /\ OwnToken /\ SignedOut /\ DaemonRight
  BY DEF DaemonInv, Accounts
<1>2. /\ ops'[o] = c /\ \A x \in OpIds : x # o => ops'[x] = ops[x]
  BY DEF DaemonInv, CallsOK
<1>3. /\ \/ forks' = forks
         \/ ops[o].kind \notin Passive \cup {"logout"} /\ user # None
      /\ Alive' => Alive /\ daemon'.token = daemon.token
      /\ user = None /\ Harmless(ops[o]) => Harmless(c)'
      /\ Repairs(ops[o]) /\ Alive' => Repairs(c)
  OBVIOUS
<1>4. /\ Alone(c) => Alone(ops[o])
      /\ c.kind \in Session => ops[o].kind \in Session
      /\ Quiet(ops[o]) => Quiet(c)
      /\ ops[o].kind \in Passive \cup {"rotation"} => c.kind \in Passive \cup {"rotation"}
  BY DEF Alone, Session, Passive, Quiet
<1>5. Exclusive'
  <2>1. ASSUME NEW x \in OpIds, NEW y \in OpIds, x # y, ops'[x].kind \in Session
        PROVE  ops'[y].kind \in Passive \cup {"rotation"}
    <3>1. ops[x].kind \in Session
      BY <2>1, <1>2, <1>4
    <3>2. ops[y].kind \in Passive \cup {"rotation"}
      BY <2>1, <3>1, <1>1 DEF Exclusive
    <3> QED BY <3>2, <1>2, <1>4
  <2>2. ASSUME NEW x \in OpIds, Alone(ops'[x])
        PROVE  forks' = 0 /\ \A y \in OpIds \ {x} : Quiet(ops'[y])
    <3>1. Alone(ops[x])
      BY <2>2, <1>2, <1>4
    <3>2. forks = 0 /\ \A y \in OpIds \ {x} : Quiet(ops[y])
      BY <3>1, <1>1 DEF Exclusive
    <3>3. forks' = forks
      <4>1. CASE x = o
        BY <4>1, <3>1, <1>3 DEF Alone
      <4>2. CASE x # o
        BY <4>2, <3>2, <1>3 DEF Quiet
      <4> QED BY <4>1, <4>2
    <3> QED BY <3>2, <3>3, <1>2, <1>4
  <2>3. ASSUME NEW x \in OpIds PROVE Alone(ops[x])' = Alone(ops'[x])
    BY DEF Alone, InSync
  <2>4. ASSUME NEW x \in OpIds PROVE Quiet(ops[x])' = Quiet(ops'[x])
    BY DEF Quiet
  <2> QED BY <2>1, <2>2, <2>3, <2>4 DEF Exclusive
<1>6. ForUser'
  BY <1>1, <1>2 DEF ForUser, Passive
<1>7. \A x \in OpIds : /\ ToWrite(ops'[x]) <=> ToWrite(ops[x])
                       /\ ToMark(ops'[x]) <=> ToMark(ops[x])
                       /\ AtMark(ops'[x]) <=> AtMark(ops[x])
  BY <1>2, SyncParts
<1>8. ConfigRight' /\ SidecarRight'
  BY <1>1, <1>7 DEF ConfigRight, SidecarRight, ToWrite, ToMark
<1>9. OwnToken'
  BY <1>1, <1>2, <1>7, SyncParts DEF OwnToken, AtMark
<1>10. SignedOut'
  BY <1>1, <1>2, <1>3 DEF SignedOut, Harmless
<1>11. DaemonRight'
  BY <1>1, <1>2, <1>3 DEF DaemonRight, Repairs
<1> QED BY <1>5, <1>6, <1>8, <1>9, <1>10, <1>11

(* A step of the daemon process or of the timers.                          *)
LEMMA WorldStep ==
  ASSUME DaemonInv, UNCHANGED <<user, disk, ops>>, muddled' = muddled,
         forks' \in Nat, forks' <= forks,
         Alive' => \/ Alive /\ daemon'.token = daemon.token
                   \/ forks > 0 /\ daemon'.token = disk.cli /\ disk.cli # NoToken
  PROVE  Accounts'
<1> SUFFICES ASSUME ~muddled' PROVE (Exclusive /\ ForUser /\ ConfigRight /\ SidecarRight
                                     /\ OwnToken /\ SignedOut /\ DaemonRight)'
  BY DEF Accounts
<1>1. /\ Exclusive /\ ForUser /\ ConfigRight /\ SidecarRight
      /\ OwnToken /\ SignedOut /\ DaemonRight /\ forks \in Nat
  BY DEF DaemonInv, Accounts, ManagerOK
<1>2. Exclusive' /\ ForUser' /\ ConfigRight' /\ SidecarRight' /\ OwnToken'
  BY <1>1 DEF Exclusive, ForUser, ConfigRight, SidecarRight, OwnToken, Alone, InSync, Quiet,
              ToWrite, ToMark, AtMark
<1>3. forks > 0 => /\ user # None /\ \A x \in OpIds : ~ToWrite(ops[x])
                   /\ disk.cli # NoToken => disk.cli.of = user
  BY <1>1, SyncParts DEF SignedOut, Exclusive, ConfigRight, Alone
<1>4. SignedOut'
  BY <1>1, <1>3 DEF SignedOut, Harmless
<1>5. DaemonRight'
  BY <1>1, <1>3 DEF DaemonRight, Repairs
<1> QED BY <1>2, <1>4, <1>5

-----------------------------------------------------------------------------
(* A call at one of its steps, and what becomes of it.                     *)

LEMMA AtStep ==
  ASSUME CallsOK, NEW o \in OpIds, NEW s, At(o, s)
  PROVE  /\ ops[o] \in Calls /\ Stands(ops[o])
         /\ ops[o].todo # <<>> /\ Now(ops[o].todo) = s
         /\ Rest(o) = After(ops[o].todo)
BY DEF CallsOK, At, Head1, Now, Rest, After

(* Continue leaves a fresh record of the same call, or an idle slot.       *)
LEMMA ContinueCall ==
  ASSUME CallsOK, NEW o \in OpIds, NEW p \in Programs, Continue(o, p)
  PROVE  \E c \in Calls :
           /\ ops' = [ops EXCEPT ![o] = c]
           /\ p = <<>> => c = Idle
           /\ p # <<>> => /\ c.kind = ops[o].kind /\ c.todo = p /\ c.user = ops[o].user
                          /\ c.guarded = ops[o].guarded
<1>1. ops[o].kind \in Kinds /\ ops[o].user \in Users \cup {None} /\ ops[o].guarded \in BOOLEAN
  BY DEF CallsOK, Calls
<1>2. CASE p = <<>>
  <2>1. ops' = [ops EXCEPT ![o] = Idle]
    BY <1>2 DEF Continue
  <2> QED BY <1>2, <2>1, IdleTyped
<1>3. CASE p # <<>>
  <2> DEFINE c == Call(ops[o].kind, p, ops[o].user, ops[o].guarded)
  <2>1. ops' = [ops EXCEPT ![o] = c]
    BY <1>3 DEF Continue, CallsOK
  <2>2. /\ c \in Calls /\ c.kind = ops[o].kind /\ c.todo = p
        /\ c.user = ops[o].user /\ c.guarded = ops[o].guarded
    BY <1>1, CallTyped
  <2> HIDE DEF c
  <2> QED BY <1>3, <2>1, <2>2
<1> QED BY <1>2, <1>3

(* Outside its synchronisation a call neither rewrites the config nor,     *)
(* unless it is a logout or a restart on user change, replaces a daemon.   *)
LEMMA OutsideSync ==
  ASSUME NEW c,
         \/ c.todo = <<>>
         \/ Now(c.todo) \notin {"untoken", "unmark", "read", "mint", "write", "mark", "rotate"}
         \/ c.kind \notin {"login", "reauth"}
  PROVE  /\ ~InSync(c)
         /\ Repairs(c) => \/ c.kind = "logout"
                          \/ c.kind = "rotation" /\ c.todo \in {RestartProgram, R5}
BY ProgramNow DEF InSync, Syncing, Unmarked, Unwritten, Repairs

LEMMA ProgramsHave ==
  /\ Probing \subseteq Programs /\ Versioning \subseteq Programs
  /\ Restarting \subseteq Programs /\ Syncing \subseteq Programs
  /\ {<<>>, StopProgram, T1, LogoutProgram, L2, L1} \subseteq Programs
  /\ {PollProgram, P1, A2, A1} \subseteq Probing
  /\ {VersionProgram, V1} \subseteq Versioning
  /\ {RestartProgram, R5, StartProgram, S3, S2, S1} \subseteq Restarting
  /\ {LoginProgram, I4, I3, ReauthProgram, Q6, Q5, Q4, Q3} \subseteq Unwritten
  /\ {I2, Q2} \subseteq Unmarked /\ Unwritten \subseteq Unmarked
  /\ {I1, Q1} \subseteq Syncing /\ Unmarked \subseteq Syncing
BY DEF Programs, Probing, Versioning, Restarting, Starting, Syncing, Unmarked, Unwritten

(* The guard after a step: kept with its call, dropped with it, or taken.  *)
GuardKept(o, c) ==
  /\ mgr'.guard = mgr.guard /\ c.guarded = ops[o].guarded
  /\ ops[o].guarded => c.kind = ops[o].kind
GuardDropped(o, c) ==
  ~c.guarded /\ mgr'.guard = IF ops[o].guarded THEN FALSE ELSE mgr.guard
GuardTaken(o, c) ==
  ~mgr.guard /\ mgr'.guard = TRUE /\ c.guarded /\ c.kind \in {"click", "logout"}

LEMMA GuardStep ==
  ASSUME DaemonInv, NEW o \in OpIds, NEW c \in Calls, ops' = [ops EXCEPT ![o] = c],
         GuardKept(o, c) \/ GuardDropped(o, c) \/ GuardTaken(o, c)
  PROVE  GuardOK'
<1>1. /\ ops'[o] = c /\ \A x \in OpIds : x # o => ops'[x] = ops[x]
  BY DEF DaemonInv, CallsOK
<1>2. GuardOK
  BY DEF DaemonInv
<1>3. CASE GuardKept(o, c)
  BY <1>1, <1>2, <1>3 DEF GuardOK, GuardKept
<1>4. CASE GuardDropped(o, c)
  BY <1>1, <1>2, <1>4 DEF GuardOK, GuardDropped
<1>5. CASE GuardTaken(o, c)
  BY <1>1, <1>2, <1>5 DEF GuardOK, GuardTaken
<1> QED BY <1>3, <1>4, <1>5

(* One call's step keeps the invariant.                                    *)
LEMMA CallStep ==
  ASSUME DaemonInv, NEW o \in OpIds, NEW c \in Calls, Stands(c), ops' = [ops EXCEPT ![o] = c],
         ManagerOK',
         GuardKept(o, c) \/ GuardDropped(o, c) \/ GuardTaken(o, c),
         \/ forks' = forks /\ (ops[o].todo = S1 => forks = 0)
         \/ forks' = forks + 1 /\ ops[o].todo # S1 /\ c.todo = S1,
         Accounts'
  PROVE  DaemonInv'
BY CallsStep, GuardStep, ForksStep DEF DaemonInv

-----------------------------------------------------------------------------
(* fetchHealth and the polls.                                              *)

LEMMA ProbeInv == ASSUME DaemonInv, NEW o \in OpIds, Probe(o) PROVE DaemonInv'
<1>1. /\ At(o, "probe") /\ CallsOK
      /\ UNCHANGED <<user, mgr, disk, daemon, forks, dead, muddled, left>>
  BY DEF Probe, DaemonInv
<1>2. /\ ops[o] \in Calls /\ Stands(ops[o]) /\ ops[o].todo = PollProgram
      /\ ops[o].kind \in {"poll", "login"} /\ Rest(o) = P1
  BY <1>1, AtStep, Standing, ProgramAfter
<1>3. PICK c \in Calls :
        /\ ops' = [ops EXCEPT ![o] = c]
        /\ \/ c = Idle
           \/ /\ c.kind = ops[o].kind /\ c.todo = P1 /\ c.user = ops[o].user
              /\ c.guarded = ops[o].guarded
  <2>1. CASE Continue(o, <<>>)
    BY <1>1, <2>1, ContinueCall, ProgramsHave
  <2>2. CASE ops' = [ops EXCEPT ![o].todo = Rest(o), ![o].health = Liveness]
    <3> DEFINE c == [ops[o] EXCEPT !.todo = P1, !.health = Liveness]
    <3>1. Liveness \in Sample /\ P1 \in Programs
      BY ProgramsHave DEF DaemonInv, ManagerOK, Daemons, Liveness, NoHealth, Sample
    <3>2. c \in Calls /\ ops' = [ops EXCEPT ![o] = c]
      BY <1>1, <1>2, <2>2, <3>1 DEF CallsOK, Calls
    <3>3. c.kind = ops[o].kind /\ c.todo = P1 /\ c.user = ops[o].user /\ c.guarded = ops[o].guarded
      BY <1>2 DEF Calls
    <3> QED BY <3>2, <3>3
  <2> QED BY <2>1, <2>2 DEF Probe
<1>4. Stands(c) /\ ~InSync(c) /\ ~InSync(ops[o]) /\ ~Repairs(ops[o])
  BY <1>2, <1>3, OutsideSync, ProgramKinds, ProgramNow, ProgramsHave, IdleTyped
<1>5. Accounts'
  <2>1. Harmless(ops[o]) => Harmless(c)'
    BY <1>2, <1>3, IdleTyped DEF Passive, Harmless
  <2>2. Alive' => Alive /\ daemon'.token = daemon.token
    BY <1>1 DEF Alive
  <2> QED BY <1>1, <1>3, <1>4, <2>1, <2>2, OrdinaryStep, IdleTyped DEF Passive
<1>6. ManagerOK'
  BY <1>1 DEF DaemonInv, ManagerOK, Alive
<1>7. GuardDropped(o, c) \/ GuardKept(o, c)
  BY <1>1, <1>2, <1>3, IdleTyped DEF GuardKept, GuardDropped, DaemonInv, GuardOK
<1>8. ops[o].todo # S1
  BY <1>2, ProgramNow
<1> QED BY <1>1, <1>3, <1>4, <1>5, <1>6, <1>7, <1>8, CallStep

(* A command that starts: a slot that does nothing becomes a version       *)
(* check, or the click of a signed-in user.                                *)
LEMMA CommandStarts ==
  ASSUME DaemonInv, NEW o \in OpIds, NEW c \in Calls, ops' = [ops EXCEPT ![o] = c],
         ops[o].kind \in Passive,
         \/ c.kind = "version" /\ c.todo = VersionProgram
         \/ c.kind = "click" /\ user # None,
         UNCHANGED <<user, disk, daemon, forks>>,
         muddled' = (muddled \/ Overlap(o, c.kind))
  PROVE  Accounts'
<1> SUFFICES ASSUME ~muddled' PROVE (Exclusive /\ ForUser /\ ConfigRight /\ SidecarRight
                                     /\ OwnToken /\ SignedOut /\ DaemonRight)'
  BY DEF Accounts
<1>1. /\ Exclusive /\ ForUser /\ ConfigRight /\ SidecarRight
      /\ OwnToken /\ SignedOut /\ DaemonRight /\ ~Overlap(o, c.kind)
  BY DEF DaemonInv, Accounts
<1>2. /\ ops'[o] = c /\ \A x \in OpIds : x # o => ops'[x] = ops[x]
  BY DEF DaemonInv, CallsOK
<1>3. \A x \in OpIds : ops[x].kind \notin Session /\ ops'[x].kind \notin Session
  <2>1. \A x \in Others(o) : ops[x].kind \notin Session
    BY <1>1 DEF Overlap, Session, Passive
  <2>2. \A x \in OpIds : ops[x].kind \in Session => x \in Others(o)
    BY DEF Others, Session, Passive
  <2> QED BY <1>2, <2>1, <2>2 DEF Session
<1>4. \A x \in OpIds : /\ ~Alone(ops[x]) /\ ~Alone(ops'[x])
                       /\ ~ToWrite(ops[x]) /\ ~ToMark(ops[x]) /\ ~AtMark(ops[x]) /\ ~AtMark(ops'[x])
  BY <1>3 DEF Alone, InSync, ToWrite, ToMark, AtMark, Session
<1>5. Exclusive'
  BY <1>3, <1>4 DEF Exclusive, Alone, InSync
<1>6. ForUser'
  BY <1>3 DEF ForUser, Session
<1>7. ConfigRight' /\ SidecarRight'
  BY <1>1, <1>4 DEF ConfigRight, SidecarRight
<1>8. OwnToken'
  BY <1>1, <1>3, <1>4 DEF OwnToken, AtMark, Session
<1>9. \A x \in OpIds : Repairs(ops[x]) => ops[x].kind = "rotation"
  BY <1>3 DEF Repairs, Session
<1>10. user = None => ~Alive
  <2> SUFFICES ASSUME user = None, Alive PROVE FALSE
    OBVIOUS
  <2>1. daemon.token.of \in Users /\ None \notin Users
    BY OwnerAssumption DEF DaemonInv, ManagerOK, Token
  <2>2. PICK x \in OpIds : Repairs(ops[x])
    BY <1>1, <2>1 DEF DaemonRight
  <2>3. ops[x].kind = "rotation"
    BY <1>9, <2>2
  <2> QED BY <1>1, <2>3 DEF SignedOut, Harmless, Passive
<1>11. SignedOut'
  BY <1>1, <1>2, <1>10 DEF SignedOut, Harmless, Alive
<1>12. DaemonRight'
  BY <1>1, <1>2, <1>9 DEF DaemonRight, Repairs, Alive, Passive
<1> QED BY <1>5, <1>6, <1>7, <1>8, <1>11, <1>12

(* The caller of fetchHealth goes on with the answer.                      *)
LEMMA ResumeInv ==
  ASSUME DaemonInv, NEW o \in OpIds, ops[o].kind \in {"poll", "login"},
         ops[o].todo \in {P1, A1}, NEW m \in Managers, m.guard = mgr.guard, Resume(o, m),
         UNCHANGED <<user, disk, daemon, forks, dead, left>>
  PROVE  DaemonInv'
<1>1. CallsOK /\ ops[o] \in Calls /\ muddled \in BOOLEAN
  BY DEF DaemonInv, CallsOK, ManagerOK
<1>2. ops[o].todo # S1 /\ ~InSync(ops[o]) /\ ~Repairs(ops[o]) /\ ~ops[o].guarded
  BY OutsideSync, ProgramNow DEF DaemonInv, GuardOK
<1>3. Answer(ops[o].health, m) \in {"running", "auth_expired", "starting", "stopped"}
  BY DEF Answer
<1>4. CASE ops[o].kind = "poll"
  <2>1. mgr' \in Managers /\ mgr'.guard = mgr.guard
    BY <1>3, <1>4 DEF Resume, Managers
  <2>2. PICK c \in Calls :
          /\ Launch(o, c) /\ ~c.guarded
          /\ c = Idle \/ (c.kind = "version" /\ c.todo = VersionProgram)
    <3> DEFINE d == Call("version", VersionProgram, None, FALSE)
    <3>0. "version" \in Kinds /\ VersionProgram \in Programs /\ None \in Users \cup {None}
      BY ProgramsHave DEF Kinds
    <3>1. d \in Calls /\ d.kind = "version" /\ d.todo = VersionProgram /\ d.guarded = FALSE
      BY <3>0 DEF Call, Idle, NoHealth, Calls, Sample, Tokens
    <3>2. Launch(o, d) \/ Launch(o, Idle)
      BY <1>4 DEF Resume
    <3> HIDE DEF d
    <3> QED BY <3>1, <3>2, IdleTyped
  <2>3. ops' = [ops EXCEPT ![o] = c] /\ muddled' = (muddled \/ Overlap(o, c.kind))
    BY <2>2 DEF Launch
  <2>4. Stands(c)
    BY <2>2, IdleTyped, ProgramKinds, ProgramsHave
  <2>5. muddled' \in BOOLEAN
    BY <2>3
  <2>6. ManagerOK'
    BY <2>1, <2>5 DEF DaemonInv, ManagerOK, Alive
  <2>7. Accounts'
    <3>1. CASE c = Idle
      <4>1. /\ ~InSync(c) /\ c.kind \in Passive /\ (muddled => muddled')
            /\ (Alive' => Alive /\ daemon'.token = daemon.token) /\ Harmless(c)'
        BY <2>3, <3>1, IdleTyped, OutsideSync DEF Passive, Harmless, Alive
      <4> QED BY <1>2, <2>3, <4>1, OrdinaryStep
    <3>2. CASE c # Idle
      BY <1>4, <2>2, <2>3, <3>2, CommandStarts DEF Passive
    <3> QED BY <3>1, <3>2
  <2>8. GuardDropped(o, c)
    BY <1>2, <2>1, <2>2 DEF GuardDropped
  <2> QED BY <1>2, <2>3, <2>4, <2>6, <2>7, <2>8, CallStep
<1>5. CASE ops[o].kind # "poll"
  <2>1. /\ mgr' = m /\ muddled' = muddled
        /\ \E p \in {VersionProgram, StartProgram} : Continue(o, p)
    BY <1>5 DEF Resume
  <2>2. PICK p \in {VersionProgram, StartProgram} : Continue(o, p)
    BY <2>1
  <2>3. p \in Programs /\ p # <<>>
    BY ProgramsHave, ProgramNow
  <2>4. PICK c \in Calls :
          /\ ops' = [ops EXCEPT ![o] = c]
          /\ c.kind = "login" /\ c.todo = p /\ c.user = ops[o].user /\ ~c.guarded
    BY <1>1, <1>2, <1>5, <2>2, <2>3, ContinueCall
  <2>5. Stands(c) /\ ~InSync(c)
    BY <2>4, ProgramKinds, ProgramsHave, ProgramNow, OutsideSync
  <2>6. ManagerOK'
    BY <2>1 DEF DaemonInv, ManagerOK, Alive
  <2>7. Accounts'
    <3>1. c.kind = ops[o].kind /\ ~Harmless(ops[o]) /\ (Alive' => Alive /\ daemon'.token = daemon.token)
      BY <1>5, <2>4 DEF Harmless, Passive, Alive
    <3> QED BY <1>2, <2>1, <2>4, <2>5, <3>1, OrdinaryStep
  <2>8. GuardDropped(o, c)
    BY <1>2, <2>1, <2>4 DEF GuardDropped
  <2> QED BY <1>2, <2>4, <2>5, <2>6, <2>7, <2>8, CallStep
<1> QED BY <1>4, <1>5

LEMMA JudgeInv == ASSUME DaemonInv, NEW o \in OpIds, Judge(o) PROVE DaemonInv'
<1>1. /\ At(o, "judge") /\ CallsOK /\ mgr \in Managers
      /\ UNCHANGED <<user, disk, daemon, forks, dead, left>>
  BY DEF Judge, DaemonInv, ManagerOK
<1>2. /\ ops[o] \in Calls /\ Stands(ops[o]) /\ ops[o].todo = P1
      /\ ops[o].kind \in {"poll", "login"}
  BY <1>1, AtStep, Standing
<1>3. CASE \E m \in Managers : m.guard = mgr.guard /\ Resume(o, m)
  BY <1>1, <1>2, <1>3, ResumeInv
<1>4. CASE /\ mgr' = [mgr EXCEPT !.attempt = "probed"] /\ muddled' = muddled
           /\ ops' = [ops EXCEPT ![o].todo = <<"ask", "verdict">>]
  <2> DEFINE d == [ops[o] EXCEPT !.todo = A2]
  <2>1. ops' = [ops EXCEPT ![o] = d] /\ d \in Calls
    BY <1>1, <1>2, <1>4, ProgramsHave DEF CallsOK, Calls, A2
  <2> HIDE DEF d
  <2>2. PICK c \in Calls :
          /\ ops' = [ops EXCEPT ![o] = c]
          /\ c.kind = ops[o].kind /\ c.todo = A2 /\ c.user = ops[o].user
          /\ c.guarded = ops[o].guarded
    BY <1>2, <2>1 DEF Calls, d
  <2>3. Stands(c) /\ ~InSync(c) /\ ~InSync(ops[o]) /\ ~Repairs(ops[o]) /\ ops[o].todo # S1
    BY <1>2, <2>2, OutsideSync, ProgramKinds, ProgramNow, ProgramsHave
  <2>4. mgr' \in Managers /\ mgr'.guard = mgr.guard
    BY <1>1, <1>4 DEF Managers
  <2>5. ManagerOK'
    BY <1>1, <1>4, <2>4 DEF DaemonInv, ManagerOK, Alive
  <2>6. Accounts'
    <3>1. Harmless(ops[o]) => Harmless(c)'
      BY <1>2, <2>2 DEF Passive, Harmless
    <3>2. (Alive' => Alive /\ daemon'.token = daemon.token) /\ (muddled => muddled')
      BY <1>1, <1>4 DEF Alive
    <3> QED BY <1>1, <1>4, <2>2, <2>3, <3>1, <3>2, OrdinaryStep
  <2>7. GuardKept(o, c)
    BY <2>2, <2>4 DEF GuardKept
  <2> QED BY <1>1, <2>2, <2>3, <2>5, <2>6, <2>7, CallStep
<1>5. \/ \E m \in Managers : m.guard = mgr.guard /\ Resume(o, m)
      \/ /\ mgr' = [mgr EXCEPT !.attempt = "probed"] /\ muddled' = muddled
         /\ ops' = [ops EXCEPT ![o].todo = <<"ask", "verdict">>]
  <2> DEFINE m == [mgr EXCEPT !.expired = FALSE, !.attempt = "none"]
  <2>1. m \in Managers /\ m.guard = mgr.guard
    BY <1>1 DEF Managers
  <2>2. Resume(o, m) \/ Resume(o, mgr) \/ /\ mgr' = [mgr EXCEPT !.attempt = "probed"] /\ muddled' = muddled
                                          /\ ops' = [ops EXCEPT ![o].todo = <<"ask", "verdict">>]
    BY DEF Judge
  <2> HIDE DEF m
  <2> QED BY <1>1, <2>1, <2>2
<1> QED BY <1>3, <1>4, <1>5

LEMMA VerdictInv == ASSUME DaemonInv, NEW o \in OpIds, Verdict(o) PROVE DaemonInv'
<1>1. /\ At(o, "verdict") /\ CallsOK /\ mgr \in Managers
      /\ UNCHANGED <<user, disk, daemon, forks, dead, left>>
  BY DEF Verdict, DaemonInv, ManagerOK
<1>2. /\ ops[o] \in Calls /\ Stands(ops[o]) /\ ops[o].todo = A1
      /\ ops[o].kind \in {"poll", "login"}
  BY <1>1, AtStep, Standing
<1> DEFINE m == [mgr EXCEPT !.expired = @ \/ ops[o].bad]
<1>3. m \in Managers /\ m.guard = mgr.guard
  <2>1. (mgr.expired \/ ops[o].bad) \in BOOLEAN
    OBVIOUS
  <2> QED BY <1>1, <2>1 DEF Managers
<1>4. Resume(o, m)
  BY DEF Verdict
<1> HIDE DEF m
<1> QED BY <1>1, <1>2, <1>3, <1>4, ResumeInv

LEMMA AskServerInv == ASSUME DaemonInv, NEW o \in OpIds, AskServer(o) PROVE DaemonInv'
<1>1. /\ At(o, "ask") /\ CallsOK
      /\ UNCHANGED <<user, mgr, disk, daemon, forks, dead, muddled, left>>
  BY DEF AskServer, DaemonInv
<1>2. /\ ops[o] \in Calls /\ Stands(ops[o]) /\ ops[o].todo = A2
      /\ ops[o].kind \in {"poll", "login"} /\ Rest(o) = A1
  BY <1>1, AtStep, Standing, ProgramAfter
<1>3. PICK c \in Calls :
        /\ ops' = [ops EXCEPT ![o] = c]
        /\ c.kind = ops[o].kind /\ c.todo = A1 /\ c.user = ops[o].user
        /\ c.guarded = ops[o].guarded
  <2>1. PICK bad \in BOOLEAN : ops' = [ops EXCEPT ![o].todo = A1, ![o].bad = bad]
    <3>1. (~Live(disk.desk)) \in BOOLEAN
      BY DEF Live
    <3>2. PICK bad \in {FALSE, ~Live(disk.desk)} :
            ops' = [ops EXCEPT ![o].todo = A1, ![o].bad = bad]
      BY <1>2 DEF AskServer
    <3>3. bad \in BOOLEAN
      BY <3>1, <3>2
    <3> QED BY <3>2, <3>3
  <2> DEFINE d == [ops[o] EXCEPT !.todo = A1, !.bad = bad]
  <2>2. d \in Calls /\ ops' = [ops EXCEPT ![o] = d]
    BY <1>1, <1>2, <2>1, ProgramsHave DEF CallsOK, Calls
  <2>3. d.kind = ops[o].kind /\ d.todo = A1 /\ d.user = ops[o].user /\ d.guarded = ops[o].guarded
    BY <1>2 DEF Calls
  <2> HIDE DEF d
  <2> QED BY <2>2, <2>3
<1>4. /\ Stands(c) /\ ~InSync(c) /\ ~InSync(ops[o]) /\ ~Repairs(ops[o]) /\ ops[o].todo # S1
  BY <1>2, <1>3, OutsideSync, ProgramKinds, ProgramNow, ProgramsHave
<1>5. Accounts'
  <2>1. Harmless(ops[o]) => Harmless(c)'
    BY <1>2, <1>3 DEF Passive, Harmless
  <2>2. Alive' => Alive /\ daemon'.token = daemon.token
    BY <1>1 DEF Alive
  <2> QED BY <1>1, <1>3, <1>4, <2>1, <2>2, OrdinaryStep
<1>6. ManagerOK'
  BY <1>1 DEF DaemonInv, ManagerOK, Alive
<1>7. GuardKept(o, c)
  BY <1>1, <1>3 DEF GuardKept
<1> QED BY <1>1, <1>3, <1>4, <1>5, <1>6, <1>7, CallStep

-----------------------------------------------------------------------------
(* The version check.                                                      *)

LEMMA SampleVersionInv == ASSUME DaemonInv, NEW o \in OpIds, SampleVersion(o) PROVE DaemonInv'
<1>1. /\ At(o, "version") /\ CallsOK
      /\ UNCHANGED <<user, mgr, disk, daemon, forks, dead, muddled, left>>
  BY DEF SampleVersion, DaemonInv
<1>2. /\ ops[o] \in Calls /\ Stands(ops[o]) /\ ops[o].todo = VersionProgram
      /\ ops[o].kind \in {"version", "login"} /\ Rest(o) = V1
  BY <1>1, AtStep, Standing, ProgramAfter
<1>3. PICK c \in Calls :
        /\ ops' = [ops EXCEPT ![o] = c]
        /\ c.kind = ops[o].kind /\ c.todo = V1 /\ c.user = ops[o].user
        /\ c.guarded = ops[o].guarded /\ c.health.up = daemon.up
  <2>1. Health \in Sample /\ V1 \in Programs /\ Health.up = daemon.up
    BY ProgramsHave DEF DaemonInv, ManagerOK, Daemons, Health, Sample
  <2> DEFINE d == [ops[o] EXCEPT !.todo = V1, !.health = Health]
  <2>2. d \in Calls /\ ops' = [ops EXCEPT ![o] = d]
    BY <1>1, <1>2, <2>1 DEF CallsOK, Calls, SampleVersion
  <2>3. /\ d.kind = ops[o].kind /\ d.todo = V1 /\ d.user = ops[o].user
        /\ d.guarded = ops[o].guarded /\ d.health.up = daemon.up
    BY <1>2, <2>1 DEF Calls
  <2> HIDE DEF d
  <2> QED BY <2>2, <2>3
<1>4. /\ Stands(c) /\ ~InSync(c) /\ ~InSync(ops[o]) /\ ~Repairs(ops[o]) /\ ops[o].todo # S1
  BY <1>2, <1>3, OutsideSync, ProgramKinds, ProgramNow, ProgramsHave
<1>5. Accounts'
  <2>1. Harmless(ops[o]) => Harmless(c)'
    BY <1>1, <1>2, <1>3 DEF Passive, Harmless, Alive
  <2>2. Alive' => Alive /\ daemon'.token = daemon.token
    BY <1>1 DEF Alive
  <2> QED BY <1>1, <1>3, <1>4, <2>1, <2>2, OrdinaryStep
<1>6. ManagerOK'
  BY <1>1 DEF DaemonInv, ManagerOK, Alive
<1>7. GuardKept(o, c)
  BY <1>1, <1>3 DEF GuardKept
<1> QED BY <1>1, <1>3, <1>4, <1>5, <1>6, <1>7, CallStep

LEMMA DecideInv == ASSUME DaemonInv, NEW o \in OpIds, Decide(o) PROVE DaemonInv'
<1> DEFINE action == DecideVersionAction(ops[o].health)
<1>1. /\ At(o, "decide") /\ CallsOK
      /\ mgr' = [mgr EXCEPT !.pending = (action = "defer")]
      /\ Continue(o, IF action = "restart" THEN RestartProgram ELSE <<>>)
      /\ UNCHANGED <<user, disk, daemon, forks, dead, muddled, left>>
  BY DEF Decide, DaemonInv
<1>2. /\ ops[o] \in Calls /\ Stands(ops[o]) /\ ops[o].todo = V1
      /\ ops[o].kind \in {"version", "login"}
  BY <1>1, AtStep, Standing
<1>3. ~ops[o].guarded /\ ops[o].todo # S1 /\ ~InSync(ops[o]) /\ ~Repairs(ops[o])
  BY <1>2, OutsideSync, ProgramNow DEF DaemonInv, GuardOK
<1>4. ops[o].health.up # "running" => action # "restart"
  BY DEF DecideVersionAction
<1>5. PICK c \in Calls :
        /\ ops' = [ops EXCEPT ![o] = c]
        /\ \/ c = Idle
           \/ /\ c.kind = ops[o].kind /\ c.todo = RestartProgram /\ c.user = ops[o].user
              /\ c.guarded = ops[o].guarded /\ ops[o].health.up = "running"
  <2>1. CASE action = "restart"
    <3>1. Continue(o, RestartProgram) /\ ops[o].health.up = "running"
      BY <1>1, <1>4, <2>1
    <3> QED BY <1>1, <3>1, ContinueCall, ProgramsHave, ProgramNow
  <2>2. CASE action # "restart"
    <3>1. Continue(o, <<>>)
      BY <1>1, <2>2
    <3> QED BY <1>1, <3>1, ContinueCall, ProgramsHave
  <2> QED BY <2>1, <2>2
<1>6. Stands(c) /\ ~InSync(c)
  BY <1>2, <1>5, IdleTyped, OutsideSync, ProgramKinds, ProgramNow, ProgramsHave
<1>7. Accounts'
  <2>1. Harmless(ops[o]) => Harmless(c)'
    BY <1>2, <1>5, IdleTyped, ProgramNow DEF Passive, Harmless
  <2>2. Alive' => Alive /\ daemon'.token = daemon.token
    BY <1>1 DEF Alive
  <2>3. (c.kind = ops[o].kind /\ c.user = ops[o].user) \/ c.kind \in Passive
    BY <1>5, IdleTyped DEF Passive
  <2> QED BY <1>1, <1>3, <1>5, <1>6, <2>1, <2>2, <2>3, OrdinaryStep
<1>8. mgr' \in Managers /\ mgr'.guard = mgr.guard
  <2>1. mgr \in Managers /\ (action = "defer") \in BOOLEAN
    BY DEF DaemonInv, ManagerOK
  <2> HIDE DEF action
  <2> QED BY <1>1, <2>1 DEF Managers
<1>9. ManagerOK'
  BY <1>1, <1>8 DEF DaemonInv, ManagerOK, Alive
<1>10. GuardDropped(o, c)
  BY <1>3, <1>5, <1>8, IdleTyped DEF GuardDropped
<1> QED BY <1>1, <1>3, <1>5, <1>6, <1>7, <1>9, <1>10, CallStep

-----------------------------------------------------------------------------
(* startDaemon, stopDaemon and the commands.                               *)

LEMMA UnguardTyped ==
  ASSUME NEW o, NEW m \in Managers
  PROVE  /\ Unguard(o, m) \in Managers
         /\ Unguard(o, m).guard = IF ops[o].guarded THEN FALSE ELSE m.guard
BY DEF Unguard, Managers

(* While nobody is signed in, nothing but a logout runs a command that     *)
(* stops or starts the daemon.                                             *)
LEMMA SignedIn ==
  ASSUME DaemonInv, ~muddled, NEW o \in OpIds, ops[o].todo # <<>>, ops[o].kind # "logout",
         Now(ops[o].todo) \in {"stop", "halt", "find", "launch", "exec", "await"}
  PROVE  user # None /\ ~Harmless(ops[o])
<1>1. ops[o].kind # "idle" /\ ops[o].kind # "poll"
  BY Standing DEF DaemonInv, CallsOK
<1>2. ops[o].todo # VersionProgram /\ ops[o].todo # V1
  BY ProgramNow
<1>3. ~Harmless(ops[o])
  BY <1>1, <1>2 DEF Harmless, Passive
<1> QED BY <1>3 DEF DaemonInv, Accounts, SignedOut

LEMMA StopInv == ASSUME DaemonInv, NEW o \in OpIds, Stop(o) PROVE DaemonInv'
<1>1. /\ At(o, "stop") /\ CallsOK /\ mgr \in Managers /\ muddled \in BOOLEAN
      /\ UNCHANGED <<user, disk, daemon, forks, dead, left>>
  BY DEF Stop, DaemonInv, ManagerOK
<1>2. /\ ops[o] \in Calls /\ Stands(ops[o]) /\ Rest(o) = After(ops[o].todo)
      /\ ops[o].todo # <<>> /\ Now(ops[o].todo) = "stop"
      /\ \/ /\ ops[o].todo = RestartProgram /\ Rest(o) = R5
            /\ ops[o].kind \in {"version", "rotation", "click", "login", "reauth"}
         \/ ops[o].todo = StopProgram /\ Rest(o) = T1 /\ ops[o].kind \in {"click", "logout"}
  BY <1>1, AtStep, Standing, ProgramAfter
<1>3. ops[o].todo # S1 /\ ~InSync(ops[o])
  BY <1>2, OutsideSync, ProgramNow
<1>4. Alive' => Alive /\ daemon'.token = daemon.token
  BY <1>1 DEF Alive
<1>5. CASE mgr' = Unguard(o, mgr) /\ Continue(o, <<>>) /\ muddled' = TRUE
  <2>1. ops' = [ops EXCEPT ![o] = Idle]
    BY <1>5 DEF Continue
  <2>2. mgr' \in Managers /\ GuardDropped(o, Idle)
    BY <1>1, <1>5, UnguardTyped, IdleTyped DEF GuardDropped
  <2>3. muddled' \in BOOLEAN
    BY <1>5
  <2>4. ManagerOK'
    BY <1>1, <2>2, <2>3 DEF DaemonInv, ManagerOK, Alive
  <2>5. Accounts'
    BY <1>5 DEF Accounts
  <2> QED BY <1>1, <1>3, <2>1, <2>2, <2>4, <2>5, IdleTyped, CallStep
<1>6. CASE /\ mgr' = [mgr EXCEPT !.shown = "stopping", !.expired = FALSE, !.attempt = "none"]
           /\ Continue(o, Rest(o)) /\ muddled' = muddled
  <2>1. Rest(o) \in {R5, T1} /\ Rest(o) \in Programs /\ Rest(o) # <<>>
    BY <1>2, ProgramsHave, ProgramNow
  <2>2. PICK c \in Calls :
          /\ ops' = [ops EXCEPT ![o] = c]
          /\ c.kind = ops[o].kind /\ c.todo = Rest(o) /\ c.user = ops[o].user
          /\ c.guarded = ops[o].guarded
    BY <1>1, <1>6, <2>1, ContinueCall
  <2>3. Stands(c) /\ ~InSync(c)
    BY <1>2, <2>1, <2>2, OutsideSync, ProgramKinds, ProgramNow, ProgramsHave
  <2>4. mgr' \in Managers /\ mgr'.guard = mgr.guard
    BY <1>1, <1>6 DEF Managers
  <2>5. ManagerOK'
    BY <1>1, <1>6, <2>4 DEF DaemonInv, ManagerOK, Alive
  <2>6. Accounts'
    <3>1. CASE muddled
      BY <1>6, <3>1 DEF Accounts
    <3>2. CASE ~muddled
      <4>1. user = None /\ Harmless(ops[o]) => Harmless(c)'
        BY <1>2, <2>2, <3>2, SignedIn DEF Harmless
      <4>2. Repairs(ops[o]) => Repairs(c)
        BY <1>2, <2>2, OutsideSync, ProgramNow DEF Repairs
      <4> QED BY <1>1, <1>3, <1>4, <1>6, <2>2, <2>3, <4>1, <4>2, OrdinaryStep
    <3> QED BY <3>1, <3>2
  <2>7. GuardKept(o, c)
    BY <2>2, <2>4 DEF GuardKept
  <2> QED BY <1>1, <1>3, <2>2, <2>3, <2>5, <2>6, <2>7, CallStep
<1> QED BY <1>5, <1>6 DEF Stop

LEMMA HaltInv == ASSUME DaemonInv, NEW o \in OpIds, Halt(o) PROVE DaemonInv'
<1> DEFINE m == [mgr EXCEPT !.shown = "stopped"]
<1>1. /\ At(o, "halt") /\ CallsOK /\ m \in Managers /\ m.guard = mgr.guard
      /\ UNCHANGED <<user, disk, forks, dead>>
  BY DEF Halt, DaemonInv, ManagerOK, Managers
<1>2. /\ ops[o] \in Calls /\ Stands(ops[o]) /\ Rest(o) = After(ops[o].todo)
      /\ ops[o].todo # <<>> /\ Now(ops[o].todo) = "halt"
      /\ \/ /\ ops[o].todo = R5 /\ Rest(o) = StartProgram
            /\ ops[o].kind \in {"version", "rotation", "click", "login", "reauth"}
         \/ ops[o].todo = T1 /\ Rest(o) = <<>> /\ ops[o].kind \in {"click", "logout"}
  BY <1>1, AtStep, Standing, ProgramAfter
<1>3. ops[o].todo # S1 /\ ~InSync(ops[o])
  BY <1>2, OutsideSync, ProgramNow
<1>4. Down \in Daemons /\ Down.up = "down"
  BY DEF Down, Daemons, Tokens
<1>5. CASE /\ daemon' = Down /\ mgr' = (IF Rest(o) = <<>> THEN Unguard(o, m) ELSE m)
           /\ Continue(o, Rest(o)) /\ UNCHANGED <<muddled, left>>
  <2>1. Rest(o) \in Programs /\ (Rest(o) = <<>> \/ Rest(o) = StartProgram)
    BY <1>2, ProgramsHave
  <2>2. PICK c \in Calls :
          /\ ops' = [ops EXCEPT ![o] = c]
          /\ Rest(o) = <<>> => c = Idle
          /\ Rest(o) # <<>> => /\ c.kind = ops[o].kind /\ c.todo = StartProgram
                               /\ c.user = ops[o].user /\ c.guarded = ops[o].guarded
    BY <1>1, <1>5, <2>1, ContinueCall
  <2>3. Stands(c) /\ ~InSync(c)
    BY <1>2, <2>1, <2>2, IdleTyped, OutsideSync, ProgramKinds, ProgramNow, ProgramsHave
  <2>4. mgr' \in Managers /\ (GuardDropped(o, c) \/ GuardKept(o, c))
    BY <1>1, <1>5, <2>2, IdleTyped, UnguardTyped DEF GuardDropped, GuardKept
  <2>5. ~Alive'
    BY <1>4, <1>5 DEF Alive
  <2>6. ManagerOK'
    BY <1>1, <1>4, <1>5, <2>4, <2>5 DEF DaemonInv, ManagerOK
  <2>7. Accounts'
    <3>1. CASE muddled
      BY <1>5, <3>1 DEF Accounts
    <3>2. CASE ~muddled
      <4>1. user = None /\ Harmless(ops[o]) => Harmless(c)'
        BY <1>2, <2>2, <3>2, IdleTyped, SignedIn DEF Harmless, Passive
      <4>2. (c.kind = ops[o].kind /\ c.user = ops[o].user) \/ c.kind \in Passive
        BY <2>2, IdleTyped DEF Passive
      <4> QED BY <1>1, <1>3, <1>5, <2>2, <2>3, <2>5, <4>1, <4>2, OrdinaryStep
    <3> QED BY <3>1, <3>2
  <2> QED BY <1>1, <1>3, <2>2, <2>3, <2>4, <2>6, <2>7, CallStep
<1>6. CASE /\ Alive /\ Fault /\ daemon' \in {daemon, Down} /\ mgr' = Unguard(o, m)
           /\ Continue(o, <<>>) /\ muddled' = TRUE
  <2>1. ops' = [ops EXCEPT ![o] = Idle]
    BY <1>6 DEF Continue
  <2>2. mgr' \in Managers /\ GuardDropped(o, Idle)
    BY <1>1, <1>6, UnguardTyped, IdleTyped DEF GuardDropped
  <2>3. muddled' \in BOOLEAN /\ left' \in 0..MaxEvents
    <3>1. muddled' \in BOOLEAN
      BY <1>6
    <3>2. left \in 0..MaxEvents /\ left > 0 /\ left' = left - 1
      BY <1>6 DEF Fault, Event, DaemonInv, ManagerOK
    <3>3. left' \in 0..MaxEvents
      BY <3>2, BoundsAssumption
    <3> QED BY <3>1, <3>3
  <2>4. daemon' \in Daemons /\ (Alive' => daemon'.token \in Token)
    BY <1>4, <1>6 DEF DaemonInv, ManagerOK, Alive
  <2>5. ManagerOK'
    BY <1>1, <2>2, <2>3, <2>4 DEF DaemonInv, ManagerOK
  <2>6. Accounts'
    BY <1>6 DEF Accounts
  <2> QED BY <1>1, <1>3, <2>1, <2>2, <2>5, <2>6, IdleTyped, CallStep
<1> QED BY <1>5, <1>6 DEF Halt

(* startDaemon from its probe on: it ends, as nothing or as a poll, or it  *)
(* goes on, and only a step of a signed-in user spawns a process.          *)
LEMMA StartStep ==
  ASSUME DaemonInv, NEW o \in OpIds, NEW s \in {"find", "launch", "exec", "await"}, At(o, s),
         NEW c \in Calls, ops' = [ops EXCEPT ![o] = c],
         \/ c.kind \in Passive /\ Stands(c) /\ GuardDropped(o, c)
         \/ /\ c.kind = ops[o].kind /\ c.todo \in {S3, S2, S1} /\ c.user = ops[o].user
            /\ GuardKept(o, c),
         mgr' \in Managers,
         \/ forks' = forks /\ (s = "await" => forks = 0)
         \/ forks' = forks + 1 /\ s # "await" /\ c.todo = S1,
         UNCHANGED <<user, disk, daemon, dead, muddled, left>>
  PROVE  DaemonInv'
<1>1. /\ ops[o] \in Calls /\ Stands(ops[o]) /\ ops[o].todo # <<>> /\ Now(ops[o].todo) = s
      /\ ops[o].kind \in {"version", "rotation", "click", "login", "reauth"}
      /\ CallsOK
  BY AtStep, Standing DEF DaemonInv
<1>2. ~InSync(ops[o]) /\ ~Repairs(ops[o])
  BY <1>1, OutsideSync, ProgramNow
<1>3. Stands(c) /\ ~InSync(c)
  <2>1. CASE c.kind \in Passive
    BY <1>1, <2>1, OutsideSync DEF Passive
  <2>2. CASE c.kind = ops[o].kind /\ c.todo \in {S3, S2, S1}
    BY <1>1, <2>2, OutsideSync, ProgramKinds, ProgramsHave, ProgramNow
  <2> QED BY <1>1, <2>1, <2>2 DEF Passive
<1>4. ManagerOK'
  BY DEF DaemonInv, ManagerOK, Alive
<1>5. ops[o].todo = S1 => s = "await"
  BY <1>1, ProgramNow
<1>6. s # "await" => ops[o].todo # S1
  BY <1>5
<1>7. Accounts'
  <2>1. CASE muddled
    BY <2>1 DEF Accounts
  <2>2. CASE ~muddled
    <3>1. user # None /\ ~Harmless(ops[o])
      BY <1>1, <2>2, SignedIn
    <3>2. Alive' => Alive /\ daemon'.token = daemon.token
      BY DEF Alive
    <3>3. ops[o].kind \notin Passive \cup {"logout"}
      BY <1>1 DEF Passive
    <3>4. (c.kind = ops[o].kind /\ c.user = ops[o].user) \/ c.kind \in Passive
      OBVIOUS
    <3> QED BY <1>2, <1>3, <3>1, <3>2, <3>3, <3>4, OrdinaryStep
  <2> QED BY <2>1, <2>2
<1> QED BY <1>3, <1>4, <1>5, <1>6, <1>7, CallStep

LEMMA PollCall ==
  LET c == Call("poll", PollProgram, None, FALSE)
  IN  c \in Calls /\ c.kind \in Passive /\ Stands(c) /\ c.guarded = FALSE
<1> DEFINE c == Call("poll", PollProgram, None, FALSE)
<1>1. PollProgram \in Programs /\ PollProgram \in Probing
  BY ProgramsHave
<1>2. c \in Calls /\ c.kind = "poll" /\ c.todo = PollProgram /\ c.guarded = FALSE
  BY <1>1 DEF Call, Idle, NoHealth, Calls, Sample, Tokens, Kinds
<1> HIDE DEF c
<1>3. Stands(c) /\ c.kind \in Passive
  BY <1>1, <1>2, ProgramKinds DEF Passive
<1> QED BY <1>2, <1>3 DEF c

LEMMA FindInv == ASSUME DaemonInv, NEW o \in OpIds, Find(o) PROVE DaemonInv'
<1>1. /\ At(o, "find") /\ CallsOK /\ mgr \in Managers
      /\ UNCHANGED <<user, disk, daemon, forks, dead, muddled, left>>
  BY DEF Find, DaemonInv, ManagerOK
<1>2. ops[o] \in Calls /\ Rest(o) = S3
  BY <1>1, AtStep, Standing, ProgramAfter
<1>3. CASE mgr' = Unguard(o, mgr) /\ Continue(o, <<>>)
  <2>1. ops' = [ops EXCEPT ![o] = Idle]
    BY <1>3 DEF Continue
  <2>2. GuardDropped(o, Idle) /\ mgr' \in Managers /\ Idle.kind \in Passive
    BY <1>1, <1>3, UnguardTyped, IdleTyped DEF GuardDropped, Passive
  <2> QED BY <1>1, <2>1, <2>2, IdleTyped, StartStep
<1>4. CASE ops' = [ops EXCEPT ![o].todo = Rest(o), ![o].health = Liveness] /\ mgr' = mgr
  <2> DEFINE d == [ops[o] EXCEPT !.todo = S3, !.health = Liveness]
  <2>1. Liveness \in Sample /\ S3 \in Programs
    BY ProgramsHave DEF DaemonInv, ManagerOK, Daemons, Liveness, NoHealth, Sample
  <2>2. d \in Calls /\ ops' = [ops EXCEPT ![o] = d]
    BY <1>1, <1>2, <1>4, <2>1 DEF CallsOK, Calls
  <2>3. d.kind = ops[o].kind /\ d.todo = S3 /\ d.user = ops[o].user /\ d.guarded = ops[o].guarded
    BY <1>2 DEF Calls
  <2> HIDE DEF d
  <2>4. PICK c \in Calls :
          /\ ops' = [ops EXCEPT ![o] = c]
          /\ c.kind = ops[o].kind /\ c.todo = S3 /\ c.user = ops[o].user
          /\ c.guarded = ops[o].guarded
    BY <2>2, <2>3
  <2>5. GuardKept(o, c) /\ mgr' \in Managers
    BY <1>1, <1>4, <2>4 DEF GuardKept
  <2> QED BY <1>1, <2>4, <2>5, StartStep
<1> QED BY <1>3, <1>4 DEF Find

LEMMA LaunchDaemonInv == ASSUME DaemonInv, NEW o \in OpIds, LaunchDaemon(o) PROVE DaemonInv'
<1>1. /\ At(o, "launch") /\ CallsOK /\ mgr \in Managers
      /\ UNCHANGED <<user, disk, daemon, forks, dead, muddled, left>>
  BY DEF LaunchDaemon, DaemonInv, ManagerOK
<1>2. Rest(o) = S2 /\ S2 # <<>> /\ S2 \in Programs
  BY <1>1, AtStep, Standing, ProgramAfter, ProgramNow, ProgramsHave
<1>3. CASE /\ mgr' = Unguard(o, mgr)
           /\ ops' = [ops EXCEPT ![o] = Call("poll", PollProgram, None, FALSE)]
  <2>1. PICK c \in Calls : /\ ops' = [ops EXCEPT ![o] = c]
                           /\ c.kind \in Passive /\ Stands(c) /\ c.guarded = FALSE
    BY <1>3, PollCall
  <2>2. GuardDropped(o, c) /\ mgr' \in Managers
    BY <1>1, <1>3, <2>1, UnguardTyped DEF GuardDropped
  <2> QED BY <1>1, <2>1, <2>2, StartStep
<1>4. CASE /\ mgr' = [mgr EXCEPT !.shown = "starting", !.attempt = "fresh", !.expired = FALSE]
           /\ Continue(o, Rest(o))
  <2>1. PICK c \in Calls :
          /\ ops' = [ops EXCEPT ![o] = c]
          /\ c.kind = ops[o].kind /\ c.todo = S2 /\ c.user = ops[o].user
          /\ c.guarded = ops[o].guarded
    BY <1>1, <1>2, <1>4, ContinueCall
  <2>2. GuardKept(o, c) /\ mgr' \in Managers
    BY <1>1, <1>4, <2>1 DEF GuardKept, Managers
  <2> QED BY <1>1, <2>1, <2>2, StartStep
<1> QED BY <1>3, <1>4 DEF LaunchDaemon

LEMMA ExecInv == ASSUME DaemonInv, NEW o \in OpIds, Exec(o) PROVE DaemonInv'
<1>1. /\ At(o, "exec") /\ CallsOK /\ mgr \in Managers
      /\ UNCHANGED <<user, disk, daemon, dead, muddled, left>>
  BY DEF Exec, DaemonInv, ManagerOK
<1>2. Rest(o) = S1 /\ S1 # <<>> /\ S1 \in Programs
  BY <1>1, AtStep, Standing, ProgramAfter, ProgramNow, ProgramsHave
<1>3. CASE /\ mgr' = Unguard(o, [mgr EXCEPT !.shown = "stopped"])
           /\ Continue(o, <<>>) /\ forks' = forks
  <2>1. ops' = [ops EXCEPT ![o] = Idle]
    BY <1>3 DEF Continue
  <2>2. [mgr EXCEPT !.shown = "stopped"] \in Managers
        /\ [mgr EXCEPT !.shown = "stopped"].guard = mgr.guard
    BY <1>1 DEF Managers
  <2>3. GuardDropped(o, Idle) /\ mgr' \in Managers /\ Idle.kind \in Passive
    BY <1>3, <2>2, UnguardTyped, IdleTyped DEF GuardDropped, Passive
  <2> QED BY <1>1, <1>3, <2>1, <2>3, IdleTyped, StartStep
<1>4. CASE forks' = forks + 1 /\ Continue(o, Rest(o)) /\ mgr' = mgr
  <2>1. PICK c \in Calls :
          /\ ops' = [ops EXCEPT ![o] = c]
          /\ c.kind = ops[o].kind /\ c.todo = S1 /\ c.user = ops[o].user
          /\ c.guarded = ops[o].guarded
    BY <1>1, <1>2, <1>4, ContinueCall
  <2>2. GuardKept(o, c) /\ mgr' \in Managers
    BY <1>1, <1>4, <2>1 DEF GuardKept
  <2>3. ManagerOK
    BY DEF DaemonInv
  <2> QED BY <1>1, <1>4, <2>1, <2>2, StartStep
<1> QED BY <1>3, <1>4 DEF Exec

LEMMA AwaitInv == ASSUME DaemonInv, NEW o \in OpIds, Await(o) PROVE DaemonInv'
<1>1. /\ At(o, "await") /\ forks = 0 /\ mgr \in Managers /\ mgr' = Unguard(o, mgr)
      /\ ops' = [ops EXCEPT ![o] = Call("poll", PollProgram, None, FALSE)]
      /\ UNCHANGED <<user, disk, daemon, forks, dead, muddled, left>>
  BY DEF Await, DaemonInv, ManagerOK
<1>2. PICK c \in Calls : /\ ops' = [ops EXCEPT ![o] = c]
                         /\ c.kind \in Passive /\ Stands(c) /\ c.guarded = FALSE
  BY <1>1, PollCall
<1>3. GuardDropped(o, c) /\ mgr' \in Managers
  BY <1>1, <1>2, UnguardTyped DEF GuardDropped
<1> QED BY <1>1, <1>2, <1>3, StartStep

LEMMA EnterGuardInv == ASSUME DaemonInv, NEW o \in OpIds, EnterGuard(o) PROVE DaemonInv'
<1>1. /\ At(o, "enter") /\ CallsOK /\ mgr \in Managers
      /\ UNCHANGED <<user, disk, daemon, forks, dead, left>>
  BY DEF EnterGuard, DaemonInv, ManagerOK
<1>2. ops[o] \in Calls /\ ops[o].todo = L1 /\ ops[o].kind = "logout" /\ ~ops[o].guarded
  BY <1>1, AtStep, Standing
<1>3. ops[o].todo # S1 /\ ~InSync(ops[o]) /\ muddled \in BOOLEAN
  BY <1>2, OutsideSync, ProgramNow DEF DaemonInv, ManagerOK
<1>4. CASE mgr.guard /\ Continue(o, <<>>) /\ muddled' = TRUE /\ mgr' = mgr
  <2>1. ops' = [ops EXCEPT ![o] = Idle]
    BY <1>4 DEF Continue
  <2>2. GuardDropped(o, Idle)
    BY <1>2, <1>4, IdleTyped DEF GuardDropped
  <2>3. muddled' \in BOOLEAN
    BY <1>4
  <2>4. ManagerOK'
    BY <1>1, <1>4, <2>3 DEF DaemonInv, ManagerOK, Alive
  <2>5. Accounts'
    BY <1>4 DEF Accounts
  <2> QED BY <1>1, <1>3, <2>1, <2>2, <2>4, <2>5, IdleTyped, CallStep
<1>5. CASE /\ ~mgr.guard /\ mgr' = [mgr EXCEPT !.guard = TRUE] /\ muddled' = muddled
           /\ ops' = [ops EXCEPT ![o].guarded = TRUE, ![o].todo = StopProgram]
  <2> DEFINE d == [ops[o] EXCEPT !.guarded = TRUE, !.todo = StopProgram]
  <2>1. ops' = [ops EXCEPT ![o] = d] /\ d \in Calls
    BY <1>1, <1>2, <1>5, ProgramsHave DEF CallsOK, Calls
  <2>2. d.kind = ops[o].kind /\ d.todo = StopProgram /\ d.user = ops[o].user /\ d.guarded = TRUE
    BY <1>2 DEF Calls
  <2> HIDE DEF d
  <2>3. PICK c \in Calls :
          /\ ops' = [ops EXCEPT ![o] = c]
          /\ c.kind = ops[o].kind /\ c.todo = StopProgram /\ c.user = ops[o].user
          /\ c.guarded = TRUE
    BY <2>1, <2>2
  <2>4. Stands(c) /\ ~InSync(c)
    BY <1>2, <2>3, OutsideSync, ProgramKinds
  <2>5. mgr' \in Managers /\ GuardTaken(o, c)
    BY <1>1, <1>2, <1>5, <2>3 DEF Managers, GuardTaken
  <2>6. ManagerOK'
    BY <1>1, <1>5, <2>5 DEF DaemonInv, ManagerOK, Alive
  <2>7. Accounts'
    <3>1. Harmless(c)' /\ Repairs(c)
      BY <1>2, <2>3 DEF Harmless, Repairs
    <3>2. Alive' => Alive /\ daemon'.token = daemon.token
      BY <1>1 DEF Alive
    <3> QED BY <1>1, <1>3, <1>5, <2>3, <2>4, <3>1, <3>2, OrdinaryStep
  <2> QED BY <1>1, <1>3, <2>3, <2>4, <2>5, <2>6, <2>7, CallStep
<1> QED BY <1>4, <1>5 DEF EnterGuard

-----------------------------------------------------------------------------
(* syncToken, clearToken, reauthenticate.  The call that rewrites the      *)
(* config is alone: what the accounts need is said of it and of the disk.  *)

LEMMA LoneCall ==
  ASSUME DaemonInv, ~muddled, NEW o \in OpIds, Alone(ops[o])
  PROVE  /\ forks = 0
         /\ \A x \in OpIds \ {o} : /\ Quiet(ops[x]) /\ ~ToWrite(ops[x]) /\ ~ToMark(ops[x])
                                   /\ ~AtMark(ops[x]) /\ ~Repairs(ops[x])
         /\ ops[o].kind \in {"login", "reauth"} => ops[o].user = user /\ user \in Users /\ user # None
         /\ Alive => daemon.token.of = user \/ Repairs(ops[o])
<1>1. Exclusive /\ ForUser /\ DaemonRight /\ user \in Users \cup {None}
  BY DEF DaemonInv, Accounts, ManagerOK
<1>2. forks = 0 /\ \A x \in OpIds \ {o} : Quiet(ops[x])
  BY <1>1 DEF Exclusive
<1>3. \A x \in OpIds \ {o} : /\ ~ToWrite(ops[x]) /\ ~ToMark(ops[x])
                             /\ ~AtMark(ops[x]) /\ ~Repairs(ops[x])
  BY <1>2 DEF Quiet, Passive, ToWrite, ToMark, AtMark, Repairs
<1>4. ops[o].kind \in {"login", "reauth"} => ops[o].user = user /\ user \in Users /\ user # None
  BY <1>1 DEF ForUser
<1>5. Alive => daemon.token.of = user \/ Repairs(ops[o])
  BY <1>1, <1>3 DEF DaemonRight
<1> QED BY <1>2, <1>3, <1>4, <1>5

LEMMA LoneStep ==
  ASSUME DaemonInv, ~muddled, NEW o \in OpIds, Alone(ops[o]), NEW c \in Calls,
         ops' = [ops EXCEPT ![o] = c], UNCHANGED <<user, daemon, forks>>,
         c.kind = ops[o].kind, c.user = ops[o].user,
         \/ ToWrite(c)
         \/ disk'.cli = disk.cli /\ ~ToWrite(ops[o])
         \/ disk'.cli = NoToken \/ disk'.cli.of = user,
         ToMark(c) \/ user = None \/ disk'.owner = user,
         c.kind \in {"login", "reauth"} /\ c.todo \in {I3, Q3} => c.token.of = user,
         disk'.owner # None /\ disk'.desk # NoToken => disk'.desk.of = disk'.owner \/ AtMark(c),
         AtMark(c) => disk'.desk.of = user,
         Alive => daemon.token.of = user \/ Repairs(c)'
  PROVE  Accounts'
<1>1. /\ Exclusive /\ ForUser /\ ConfigRight /\ SidecarRight
      /\ OwnToken /\ SignedOut /\ DaemonRight
  BY DEF DaemonInv, Accounts
<1>2. /\ ops'[o] = c /\ \A x \in OpIds : x # o => ops'[x] = ops[x]
  BY DEF DaemonInv, CallsOK
<1>3. /\ forks = 0
      /\ \A x \in OpIds \ {o} : /\ Quiet(ops[x]) /\ ~ToWrite(ops[x]) /\ ~ToMark(ops[x])
                                /\ ~AtMark(ops[x]) /\ ~Repairs(ops[x])
  BY LoneCall
<1>4. Exclusive'
  <2>1. \A x \in OpIds \ {o} : Quiet(ops'[x])
    BY <1>2, <1>3
  <2>2. \A x \in OpIds \ {o} : ops'[x].kind \notin Session /\ ~Alone(ops'[x])
    BY <2>1 DEF Quiet, Passive, Session, Alone, InSync
  <2> QED BY <1>3, <2>1, <2>2 DEF Exclusive, Quiet, Alone, InSync, Session
<1>5. ForUser'
  BY <1>1, <1>2 DEF ForUser
<1>6. ConfigRight'
  <2>1. ASSUME user # None, \A x \in OpIds : ~ToWrite(ops'[x])
        PROVE  disk'.cli = NoToken \/ disk'.cli.of = user
    <3>1. ~ToWrite(c)
      BY <1>2, <2>1
    <3>2. CASE disk'.cli = disk.cli /\ ~ToWrite(ops[o])
      BY <1>1, <1>3, <2>1, <3>2 DEF ConfigRight
    <3> QED BY <3>1, <3>2
  <2>2. \A x \in OpIds : ToWrite(ops[x])' = ToWrite(ops'[x])
    BY DEF ToWrite
  <2> QED BY <2>1, <2>2 DEF ConfigRight
<1>7. SidecarRight'
  <2>1. ASSUME user # None, \A x \in OpIds : ~ToMark(ops'[x])
        PROVE  disk'.owner = user
    BY <1>2, <2>1
  <2>2. \A x \in OpIds : ToMark(ops[x])' = ToMark(ops'[x])
    BY DEF ToMark
  <2> QED BY <2>1, <2>2 DEF SidecarRight
<1>8. OwnToken'
  <2>1. \A x \in OpIds : AtMark(ops[x])' = AtMark(ops'[x])
    BY DEF AtMark
  <2>2. /\ \A x \in OpIds : AtMark(ops'[x]) => x = o /\ disk'.desk.of = user
        /\ disk'.owner # None /\ disk'.desk # NoToken =>
             disk'.desk.of = disk'.owner \/ AtMark(ops'[o])
    BY <1>2, <1>3
  <2>3. \A x \in OpIds : ops'[x].kind \in {"login", "reauth"} /\ ops'[x].todo \in {I3, Q3} =>
          ops'[x].token.of = user
    BY <1>2, <1>3 DEF Quiet, Passive
  <2> QED BY <2>1, <2>2, <2>3 DEF OwnToken
<1>9. SignedOut'
  <2>1. user = None => ops[o].kind = "logout"
    BY <1>1 DEF ForUser, Alone, InSync
  <2> QED BY <1>2, <1>3, <2>1 DEF SignedOut, Harmless, Quiet
<1>10. DaemonRight'
  <2>1. Alive' = Alive /\ daemon'.token = daemon.token /\ user' = user
    BY DEF Alive
  <2>2. Repairs(ops[o])' = Repairs(c)'
    BY <1>2 DEF Repairs
  <2> QED BY <2>1, <2>2 DEF DaemonRight
<1> QED BY <1>4, <1>5, <1>6, <1>7, <1>8, <1>9, <1>10 DEF Accounts

(* Where a program stands decides which parts of the synchronisation are   *)
(* still ahead of it.                                                      *)
LEMMA SyncStages ==
  ASSUME NEW c
  PROVE  /\ c.kind \in {"login", "reauth"} =>
              /\ c.todo \in {LoginProgram, I4, I3, ReauthProgram, Q6, Q5, Q4, Q3} =>
                   ToWrite(c) /\ ToMark(c) /\ ~AtMark(c)
              /\ c.todo \in {I2, Q2} => ~ToWrite(c) /\ ToMark(c) /\ AtMark(c)
              /\ c.todo \in {I1, Q1, PollProgram, RestartProgram} =>
                   ~ToWrite(c) /\ ~ToMark(c) /\ ~AtMark(c)
              /\ c.todo \in Syncing => Alone(c)
         /\ c.kind = "logout" => ~ToWrite(c) /\ ~ToMark(c) /\ ~AtMark(c) /\ Alone(c)
<1>1. /\ \A p \in {LoginProgram, I4, I3, ReauthProgram, Q6, Q5, Q4, Q3} :
           p \in Unwritten /\ p \in Unmarked /\ p \notin {I2, Q2}
      /\ \A p \in {I2, Q2} : p \notin Unwritten /\ p \in Unmarked
      /\ \A p \in {I1, Q1, PollProgram, RestartProgram} :
           p \notin Unwritten /\ p \notin Unmarked /\ p \notin {I2, Q2}
  <2>1. \A p \in {LoginProgram, I4, I3, ReauthProgram, Q6, Q5, Q4, Q3} :
          p \in Unwritten /\ p \in Unmarked /\ Now(p) # "mark"
    BY ProgramNow DEF Unwritten, Unmarked
  <2>2. \A p \in Unwritten : Now(p) \in {"read", "mint", "write", "untoken", "unmark"}
    BY ProgramNow DEF Unwritten
  <2>3. \A p \in {I2, Q2} : Now(p) = "mark" /\ p \in Unmarked
    BY ProgramNow DEF Unmarked
  <2>4. \A p \in {I1, Q1, PollProgram, RestartProgram} : Now(p) \in {"rotate", "probe", "stop"}
    BY ProgramNow
  <2> QED BY <2>1, <2>2, <2>3, <2>4 DEF Unmarked
<1> QED BY <1>1 DEF ToWrite, ToMark, AtMark, Alone, InSync

LEMMA ClearTokenInv == ASSUME DaemonInv, NEW o \in OpIds, ClearToken(o) PROVE DaemonInv'
<1>1. /\ At(o, "untoken") /\ CallsOK /\ disk \in Disks
      /\ disk' = WriteProfileConfig(NoToken) /\ Continue(o, Rest(o))
      /\ UNCHANGED <<user, mgr, daemon, forks, dead, muddled, left>>
  BY DEF ClearToken, DaemonInv, ManagerOK
<1>2. /\ ops[o] \in Calls /\ Stands(ops[o])
      /\ \/ /\ ops[o].todo = LogoutProgram /\ ops[o].kind = "logout" /\ Rest(o) = L2
            /\ ~ops[o].guarded
         \/ ops[o].todo = ReauthProgram /\ ops[o].kind = "reauth" /\ Rest(o) = Q6
  BY <1>1, AtStep, Standing, ProgramAfter
<1>3. ops[o].todo # S1 /\ Rest(o) \in Programs /\ Rest(o) # <<>>
  BY <1>2, ProgramNow, ProgramsHave
<1>4. PICK c \in Calls :
        /\ ops' = [ops EXCEPT ![o] = c]
        /\ c.kind = ops[o].kind /\ c.todo = Rest(o) /\ c.user = ops[o].user
        /\ c.guarded = ops[o].guarded
  BY <1>1, <1>3, ContinueCall
<1>5. Stands(c)
  BY <1>2, <1>4, ProgramKinds
<1>6. disk' \in Disks /\ disk'.desk = NoToken /\ disk'.cli = disk.cli /\ disk'.owner = disk.owner
  BY <1>1 DEF WriteProfileConfig, Disks, Tokens
<1>7. ManagerOK'
  BY <1>1, <1>6 DEF DaemonInv, ManagerOK, Alive
<1>8. Accounts'
  <2>1. CASE muddled
    BY <1>1, <2>1 DEF Accounts
  <2>2. CASE ~muddled
    <3>1. Alone(ops[o]) /\ ~AtMark(c)
      BY <1>2, <1>4, SyncStages, ProgramsHave
    <3>2. CASE ops[o].kind = "logout"
      <4>1. user = None /\ Repairs(c)'
        BY <1>4, <2>2, <3>2 DEF DaemonInv, Accounts, ForUser, Repairs
      <4> QED BY <1>1, <1>2, <1>4, <1>6, <2>2, <3>1, <3>2, <4>1, LoneStep, SyncStages
    <3>3. CASE ops[o].kind = "reauth"
      <4>1. ToWrite(c) /\ ToMark(c) /\ c.todo \notin {I3, Q3} /\ ~Repairs(ops[o])
        BY <1>2, <1>4, <3>3, SyncStages, ProgramNow DEF Repairs
      <4>2. Alive => daemon.token.of = user
        BY <2>2, <3>1, <4>1, LoneCall
      <4> QED BY <1>1, <1>4, <1>6, <2>2, <3>1, <4>1, <4>2, LoneStep
    <3> QED BY <1>2, <3>2, <3>3
  <2> QED BY <2>1, <2>2
<1>9. GuardKept(o, c)
  BY <1>1, <1>4 DEF GuardKept
<1> QED BY <1>1, <1>3, <1>4, <1>5, <1>7, <1>8, <1>9, CallStep

LEMMA RemoveSidecarInv == ASSUME DaemonInv, NEW o \in OpIds, RemoveSidecar(o) PROVE DaemonInv'
<1>1. /\ At(o, "unmark") /\ CallsOK /\ disk \in Disks
      /\ disk' = [disk EXCEPT !.owner = None] /\ Continue(o, Rest(o))
      /\ UNCHANGED <<user, mgr, daemon, forks, dead, muddled, left>>
  BY DEF RemoveSidecar, DaemonInv, ManagerOK
<1>2. /\ ops[o] \in Calls /\ Stands(ops[o])
      /\ \/ ops[o].todo = L2 /\ ops[o].kind = "logout" /\ Rest(o) = L1 /\ ~ops[o].guarded
         \/ ops[o].todo = Q6 /\ ops[o].kind = "reauth" /\ Rest(o) = Q5
  BY <1>1, AtStep, Standing, ProgramAfter
<1>3. ops[o].todo # S1 /\ Rest(o) \in Programs /\ Rest(o) # <<>>
  BY <1>2, ProgramNow, ProgramsHave
<1>4. PICK c \in Calls :
        /\ ops' = [ops EXCEPT ![o] = c]
        /\ c.kind = ops[o].kind /\ c.todo = Rest(o) /\ c.user = ops[o].user
        /\ c.guarded = ops[o].guarded
  BY <1>1, <1>3, ContinueCall
<1>5. Stands(c)
  BY <1>2, <1>4, ProgramKinds
<1>6. disk' \in Disks /\ disk'.desk = disk.desk /\ disk'.cli = disk.cli /\ disk'.owner = None
  BY <1>1 DEF Disks
<1>7. ManagerOK'
  BY <1>1, <1>6 DEF DaemonInv, ManagerOK, Alive
<1>8. Accounts'
  <2>1. CASE muddled
    BY <1>1, <2>1 DEF Accounts
  <2>2. CASE ~muddled
    <3>1. Alone(ops[o]) /\ ~AtMark(c)
      BY <1>2, <1>4, SyncStages, ProgramsHave
    <3>2. CASE ops[o].kind = "logout"
      <4>1. user = None /\ Repairs(c)'
        BY <1>4, <2>2, <3>2 DEF DaemonInv, Accounts, ForUser, Repairs
      <4> QED BY <1>1, <1>2, <1>4, <1>6, <2>2, <3>1, <3>2, <4>1, LoneStep, SyncStages
    <3>3. CASE ops[o].kind = "reauth"
      <4>1. ToWrite(c) /\ ToMark(c) /\ c.todo \notin {I3, Q3} /\ ~Repairs(ops[o])
        BY <1>2, <1>4, <3>3, SyncStages, ProgramNow DEF Repairs
      <4>2. Alive => daemon.token.of = user
        BY <2>2, <3>1, <4>1, LoneCall
      <4> QED BY <1>1, <1>4, <1>6, <2>2, <3>1, <4>1, <4>2, LoneStep
    <3> QED BY <1>2, <3>2, <3>3
  <2> QED BY <2>1, <2>2
<1>9. GuardKept(o, c)
  BY <1>1, <1>4 DEF GuardKept
<1> QED BY <1>1, <1>3, <1>4, <1>5, <1>7, <1>8, <1>9, CallStep

LEMMA ReadConfigInv == ASSUME DaemonInv, NEW o \in OpIds, ReadConfig(o) PROVE DaemonInv'
<1> DEFINE reuse == disk.owner = ops[o].user /\ disk.desk # NoToken
           stale == disk.owner \notin {None, ops[o].user}
<1>1. /\ At(o, "read") /\ CallsOK /\ disk \in Disks
      /\ ops' = [ops EXCEPT ![o].changed = stale,
                            ![o].token = IF reuse THEN disk.desk ELSE NoToken,
                            ![o].todo = IF reuse THEN Tail(Rest(o)) ELSE Rest(o)]
      /\ UNCHANGED <<user, mgr, disk, daemon, forks, dead, muddled, left>>
  BY DEF ReadConfig, DaemonInv, ManagerOK
<1>2. /\ ops[o] \in Calls /\ Stands(ops[o])
      /\ \/ /\ ops[o].todo = LoginProgram /\ ops[o].kind = "login"
            /\ Rest(o) = I4 /\ Tail(Rest(o)) = I3
         \/ ops[o].todo = Q5 /\ ops[o].kind = "reauth" /\ Rest(o) = Q4 /\ Tail(Rest(o)) = Q3
  BY <1>1, AtStep, Standing, ProgramAfter DEF After
<1>3. PICK c \in Calls :
        /\ ops' = [ops EXCEPT ![o] = c]
        /\ c.kind = ops[o].kind /\ c.user = ops[o].user /\ c.guarded = ops[o].guarded
        /\ \/ ops[o].kind = "login" /\ c.todo \in {I4, I3}
           \/ ops[o].kind = "reauth" /\ c.todo \in {Q4, Q3}
        /\ c.todo \in {I3, Q3} => reuse /\ c.token = disk.desk
        /\ c.changed <=> stale
  <2> DEFINE p == IF reuse THEN Tail(Rest(o)) ELSE Rest(o)
             t == IF reuse THEN disk.desk ELSE NoToken
             d == [ops[o] EXCEPT !.changed = stale, !.token = t, !.todo = p]
  <2>1. p \in Programs /\ t \in Tokens /\ stale \in BOOLEAN
    <3>1. p \in Programs
      BY <1>2, ProgramsHave
    <3>2. t \in Tokens
      BY <1>1 DEF Disks, Tokens
    <3> QED BY <3>1, <3>2
  <2>2. /\ \/ ops[o].kind = "login" /\ p \in {I4, I3}
           \/ ops[o].kind = "reauth" /\ p \in {Q4, Q3}
        /\ p \in {I3, Q3} => reuse /\ t = disk.desk
    <3>1. I4 \notin {I3, Q3} /\ Q4 \notin {I3, Q3}
      BY ProgramNow
    <3> QED BY <1>2, <3>1
  <2> HIDE DEF p, t, stale
  <2>3. d \in Calls /\ ops' = [ops EXCEPT ![o] = d]
    BY <1>1, <1>2, <2>1 DEF CallsOK, Calls, p, t
  <2>4. /\ d.kind = ops[o].kind /\ d.user = ops[o].user /\ d.guarded = ops[o].guarded
        /\ d.todo = p /\ d.token = t /\ d.changed = stale
    BY <1>2 DEF Calls
  <2> HIDE DEF d, reuse
  <2> QED BY <2>2, <2>3, <2>4
<1> HIDE DEF reuse, stale
<1>4. Stands(c) /\ ToWrite(c) /\ ToMark(c) /\ ~AtMark(c) /\ ops[o].todo # S1
      /\ Alone(ops[o]) /\ ~AtMark(ops[o])
  BY <1>2, <1>3, ProgramKinds, ProgramNow, ProgramsHave, SyncStages
<1>5. Accounts'
  <2>1. CASE muddled
    BY <1>1, <2>1 DEF Accounts
  <2>2. CASE ~muddled
    <3>1. ops[o].user = user /\ user # None
      BY <1>2, <1>4, <2>2, LoneCall
    <3>2. disk.owner # None /\ disk.desk # NoToken => disk.desk.of = disk.owner
      <4>1. \A x \in OpIds : ~AtMark(ops[x])
        BY <1>4, <2>2, LoneCall
      <4> QED BY <2>2, <4>1 DEF DaemonInv, Accounts, OwnToken
    <3>3. c.todo \in {I3, Q3} => c.token.of = user
      BY <1>3, <3>1, <3>2 DEF reuse
    <3>4. Alive => daemon.token.of = user \/ Repairs(c)'
      <4>1. Alive => daemon.token.of = user \/ Repairs(ops[o])
        BY <1>4, <2>2, LoneCall
      <4>2. Repairs(ops[o]) => ops[o].kind = "login" /\ stale
        <5>1. ops[o].todo \notin {I4, I3, I2, I1}
          BY <1>2, ProgramNow
        <5> QED BY <1>2, <3>1, <5>1 DEF Repairs, stale
      <4>3. Repairs(ops[o]) => Repairs(c)'
        BY <1>3, <4>2 DEF Repairs
      <4> QED BY <4>1, <4>3
    <3>5. /\ UNCHANGED <<user, daemon, forks>>
          /\ disk'.owner # None /\ disk'.desk # NoToken => disk'.desk.of = disk'.owner \/ AtMark(c)
      BY <1>1, <3>2
    <3> QED BY <1>3, <1>4, <2>2, <3>3, <3>4, <3>5, LoneStep
  <2> QED BY <2>1, <2>2
<1>6. ManagerOK'
  BY <1>1 DEF DaemonInv, ManagerOK, Alive
<1>7. GuardKept(o, c)
  BY <1>1, <1>3 DEF GuardKept
<1> QED BY <1>1, <1>3, <1>4, <1>5, <1>6, <1>7, CallStep

LEMMA WriteTokenInv == ASSUME DaemonInv, NEW o \in OpIds, WriteToken(o) PROVE DaemonInv'
<1>1. /\ At(o, "write") /\ CallsOK /\ disk \in Disks
      /\ disk' = WriteProfileConfig(ops[o].token)
      /\ ops' = [ops EXCEPT ![o].todo = Rest(o), ![o].token = NoToken]
      /\ UNCHANGED <<user, mgr, daemon, forks, dead, muddled, left>>
  BY DEF WriteToken, DaemonInv, ManagerOK
<1>2. /\ ops[o] \in Calls /\ Stands(ops[o])
      /\ \/ ops[o].todo = I3 /\ ops[o].kind = "login" /\ Rest(o) = I2
         \/ ops[o].todo = Q3 /\ ops[o].kind = "reauth" /\ Rest(o) = Q2
  BY <1>1, AtStep, Standing, ProgramAfter
<1>3. PICK c \in Calls :
        /\ ops' = [ops EXCEPT ![o] = c]
        /\ c.kind = ops[o].kind /\ c.user = ops[o].user /\ c.guarded = ops[o].guarded
        /\ c.todo = Rest(o) /\ c.changed = ops[o].changed
  <2> DEFINE d == [ops[o] EXCEPT !.todo = Rest(o), !.token = NoToken]
  <2>1. Rest(o) \in Programs /\ NoToken \in Tokens
    BY <1>2, ProgramsHave DEF Tokens
  <2>2. d \in Calls /\ ops' = [ops EXCEPT ![o] = d]
    BY <1>1, <1>2, <2>1 DEF CallsOK, Calls
  <2>3. /\ d.kind = ops[o].kind /\ d.user = ops[o].user /\ d.guarded = ops[o].guarded
        /\ d.todo = Rest(o) /\ d.changed = ops[o].changed
    BY <1>2 DEF Calls
  <2> HIDE DEF d
  <2> QED BY <2>2, <2>3
<1>4. Stands(c) /\ ~ToWrite(c) /\ ToMark(c) /\ AtMark(c) /\ ops[o].todo # S1 /\ Alone(ops[o])
  BY <1>2, <1>3, ProgramKinds, ProgramNow, ProgramsHave, SyncStages
<1>5. /\ disk' \in Disks /\ disk'.desk = ops[o].token /\ disk'.owner = disk.owner
      /\ disk'.cli = IF ops[o].token = NoToken THEN disk.cli ELSE ops[o].token
  <2>1. ops[o].token \in Tokens
    BY <1>2 DEF Calls
  <2> QED BY <1>1, <2>1 DEF WriteProfileConfig, Disks
<1>6. Accounts'
  <2>1. CASE muddled
    BY <1>1, <2>1 DEF Accounts
  <2>2. CASE ~muddled
    <3>1. user # None /\ ops[o].token.of = user
      BY <1>2, <1>4, <2>2, LoneCall DEF DaemonInv, Accounts, OwnToken
    <3>2. disk'.cli.of = user /\ disk'.desk.of = user
      BY <1>5, <3>1 DEF NoToken
    <3>3. c.todo \notin {I3, Q3}
      BY <1>2, <1>3, ProgramNow
    <3>4. Alive => daemon.token.of = user \/ Repairs(c)'
      <4>1. Alive => daemon.token.of = user \/ Repairs(ops[o])
        BY <1>4, <2>2, LoneCall
      <4>2. Repairs(ops[o]) => ops[o].kind = "login" /\ ops[o].changed
        <5>1. ops[o].todo # LoginProgram /\ ops[o].todo # I1
          BY <1>2, ProgramNow
        <5> QED BY <1>2, <5>1 DEF Repairs
      <4>3. ops[o].kind = "login" => c.todo = I2
        BY <1>2, <1>3
      <4>4. Repairs(ops[o]) => Repairs(c)'
        BY <1>3, <4>2, <4>3 DEF Repairs
      <4> QED BY <4>1, <4>4
    <3> QED BY <1>1, <1>3, <1>4, <2>2, <3>2, <3>3, <3>4, LoneStep
  <2> QED BY <2>1, <2>2
<1>7. ManagerOK'
  BY <1>1, <1>5 DEF DaemonInv, ManagerOK, Alive
<1>8. GuardKept(o, c)
  BY <1>1, <1>3 DEF GuardKept
<1> QED BY <1>1, <1>3, <1>4, <1>6, <1>7, <1>8, CallStep

LEMMA MintPatInv == ASSUME DaemonInv, NEW o \in OpIds, MintPat(o) PROVE DaemonInv'
<1>1. /\ At(o, "mint") /\ CallsOK /\ UNCHANGED <<mgr, disk, daemon, forks, dead>>
  BY DEF MintPat, DaemonInv
<1>2. /\ ops[o] \in Calls /\ Stands(ops[o])
      /\ \/ ops[o].todo = I4 /\ ops[o].kind = "login" /\ Rest(o) = I3
         \/ ops[o].todo = Q4 /\ ops[o].kind = "reauth" /\ Rest(o) = Q3
  BY <1>1, AtStep, Standing, ProgramAfter
<1>3. ops[o].todo # S1 /\ Alone(ops[o]) /\ ~ops[o].guarded
  BY <1>2, ProgramNow, ProgramsHave, SyncStages DEF DaemonInv, GuardOK
<1>4. CASE /\ ops' = [ops EXCEPT ![o].token = Minted(ops[o].user), ![o].todo = Rest(o)]
           /\ UNCHANGED <<user, muddled, left>>
  <2>1. Minted(ops[o].user) \in Tokens /\ Minted(ops[o].user).of = ops[o].user
    <3>1. ops[o].user \in Users \cup {None} /\ None \notin Users /\ dead \subseteq Users
      BY <1>2, OwnerAssumption DEF Calls, DaemonInv, ManagerOK
    <3> QED BY <3>1 DEF Minted, Tokens, Token, NoToken
  <2>2. PICK c \in Calls :
          /\ ops' = [ops EXCEPT ![o] = c]
          /\ c.kind = ops[o].kind /\ c.user = ops[o].user /\ c.guarded = ops[o].guarded
          /\ c.todo = Rest(o) /\ c.changed = ops[o].changed /\ c.token.of = ops[o].user
    <3> DEFINE t == Minted(ops[o].user)
               d == [ops[o] EXCEPT !.token = t, !.todo = Rest(o)]
    <3>1. Rest(o) \in Programs /\ t \in Tokens /\ t.of = ops[o].user
      BY <1>2, <2>1, ProgramsHave
    <3>2. ops' = [ops EXCEPT ![o].token = t, ![o].todo = Rest(o)]
      BY <1>4
    <3> HIDE DEF t
    <3>3. d \in Calls /\ ops' = [ops EXCEPT ![o] = d]
      BY <1>1, <1>2, <3>1, <3>2 DEF CallsOK, Calls
    <3>4. /\ d.kind = ops[o].kind /\ d.user = ops[o].user /\ d.guarded = ops[o].guarded
          /\ d.todo = Rest(o) /\ d.changed = ops[o].changed /\ d.token = t
      BY <1>2 DEF Calls
    <3> HIDE DEF d
    <3> QED BY <3>1, <3>3, <3>4
  <2>3. Stands(c) /\ ToWrite(c) /\ ToMark(c) /\ ~AtMark(c) /\ ~AtMark(ops[o])
    BY <1>2, <2>2, ProgramKinds, SyncStages
  <2>4. Accounts'
    <3>1. CASE muddled
      BY <1>4, <3>1 DEF Accounts
    <3>2. CASE ~muddled
      <4>1. c.token.of = user
        BY <1>2, <1>3, <2>2, <3>2, LoneCall
      <4>2. disk.owner # None /\ disk.desk # NoToken => disk.desk.of = disk.owner
        <5>1. \A x \in OpIds : ~AtMark(ops[x])
          BY <1>3, <2>3, <3>2, LoneCall
        <5> QED BY <3>2, <5>1 DEF DaemonInv, Accounts, OwnToken
      <4>3. Alive => daemon.token.of = user \/ Repairs(c)'
        <5>1. Alive => daemon.token.of = user \/ Repairs(ops[o])
          BY <1>3, <3>2, LoneCall
        <5>2. Repairs(ops[o]) => ops[o].kind = "login" /\ ops[o].changed
          <6>1. ops[o].todo # LoginProgram /\ ops[o].todo # I1
            BY <1>2, ProgramNow
          <6> QED BY <1>2, <6>1 DEF Repairs
        <5>3. ops[o].kind = "login" => c.todo = I3
          BY <1>2, <2>2
        <5>4. Repairs(ops[o]) => Repairs(c)'
          BY <2>2, <5>2, <5>3 DEF Repairs
        <5> QED BY <5>1, <5>4
      <4>4. /\ UNCHANGED <<user, daemon, forks>>
            /\ disk'.owner # None /\ disk'.desk # NoToken =>
                 disk'.desk.of = disk'.owner \/ AtMark(c)
        BY <1>1, <1>4, <4>2
      <4> QED BY <1>3, <2>2, <2>3, <3>2, <4>1, <4>3, <4>4, LoneStep
    <3> QED BY <3>1, <3>2
  <2>5. ManagerOK'
    BY <1>1, <1>4 DEF DaemonInv, ManagerOK, Alive
  <2>6. GuardKept(o, c)
    BY <1>1, <2>2 DEF GuardKept
  <2> QED BY <1>1, <1>3, <2>2, <2>3, <2>4, <2>5, <2>6, CallStep
<1>5. CASE /\ Fault /\ muddled' = TRUE /\ user' \in {user, None}
           /\ \/ Continue(o, <<>>)
              \/ ops' = [ops EXCEPT ![o] = Call("logout", LogoutProgram, None, FALSE)]
  <2>1. PICK c \in Calls : ops' = [ops EXCEPT ![o] = c] /\ Stands(c) /\ c.guarded = FALSE
    <3>1. CASE Continue(o, <<>>)
      <4>1. ops' = [ops EXCEPT ![o] = Idle]
        BY <3>1 DEF Continue
      <4>2. Idle.guarded = FALSE
        BY DEF Idle
      <4> QED BY <4>1, <4>2, IdleTyped
    <3>2. CASE ops' = [ops EXCEPT ![o] = Call("logout", LogoutProgram, None, FALSE)]
      <4> DEFINE d == Call("logout", LogoutProgram, None, FALSE)
      <4>1. LogoutProgram \in Programs
        BY ProgramsHave
      <4>2. d \in Calls /\ d.kind = "logout" /\ d.todo = LogoutProgram /\ d.guarded = FALSE
        BY <4>1 DEF Call, Idle, NoHealth, Calls, Sample, Tokens, Kinds
      <4> HIDE DEF d
      <4>3. Stands(d)
        BY <4>2, ProgramKinds
      <4> QED BY <3>2, <4>2, <4>3 DEF d
    <3> QED BY <1>5, <3>1, <3>2
  <2>2. muddled' \in BOOLEAN /\ left' \in 0..MaxEvents /\ user' \in Users \cup {None}
    <3>1. muddled' \in BOOLEAN
      BY <1>5
    <3>2. left \in 0..MaxEvents /\ left > 0 /\ left' = left - 1
      BY <1>5 DEF Fault, Event, DaemonInv, ManagerOK
    <3>3. left' \in 0..MaxEvents
      BY <3>2, BoundsAssumption
    <3>4. user' \in Users \cup {None}
      BY <1>5 DEF DaemonInv, ManagerOK
    <3> QED BY <3>1, <3>3, <3>4
  <2>3. ManagerOK'
    BY <1>1, <2>2 DEF DaemonInv, ManagerOK, Alive
  <2>4. Accounts'
    BY <1>5 DEF Accounts
  <2>5. GuardDropped(o, c)
    BY <1>1, <1>3, <2>1 DEF GuardDropped
  <2> QED BY <1>1, <1>3, <2>1, <2>3, <2>4, <2>5, CallStep
<1> QED BY <1>4, <1>5 DEF MintPat

LEMMA WriteSidecarInv == ASSUME DaemonInv, NEW o \in OpIds, WriteSidecar(o) PROVE DaemonInv'
<1> DEFINE p == IF ops[o].changed THEN Rest(o) ELSE Tail(Rest(o))
<1>1. /\ At(o, "mark") /\ CallsOK /\ disk \in Disks
      /\ disk' = [disk EXCEPT !.owner = ops[o].user] /\ Continue(o, p)
      /\ UNCHANGED <<user, mgr, daemon, forks, dead, muddled, left>>
  BY DEF WriteSidecar, DaemonInv, ManagerOK
<1>2. /\ ops[o] \in Calls /\ Stands(ops[o])
      /\ \/ /\ ops[o].todo = I2 /\ ops[o].kind = "login"
            /\ Rest(o) = I1 /\ Tail(Rest(o)) = PollProgram
         \/ /\ ops[o].todo = Q2 /\ ops[o].kind = "reauth"
            /\ Rest(o) = Q1 /\ Tail(Rest(o)) = RestartProgram
  <2>1. /\ ops[o] \in Calls /\ Stands(ops[o])
        /\ \/ ops[o].todo = I2 /\ ops[o].kind = "login" /\ Rest(o) = I1
           \/ ops[o].todo = Q2 /\ ops[o].kind = "reauth" /\ Rest(o) = Q1
    BY <1>1, AtStep, Standing, ProgramAfter
  <2>2. Tail(I1) = PollProgram /\ Tail(Q1) = RestartProgram
    BY ProgramAfter DEF After
  <2> QED BY <2>1, <2>2
<1>3. p \in Programs /\ p # <<>>
      /\ \/ ops[o].kind = "login" /\ p = IF ops[o].changed THEN I1 ELSE PollProgram
         \/ ops[o].kind = "reauth" /\ p \in {Q1, RestartProgram}
  <2>1. {I1, Q1, PollProgram, RestartProgram} \subseteq Programs
    BY ProgramsHave
  <2>2. <<>> \notin {I1, Q1, PollProgram, RestartProgram}
    BY ProgramNow
  <2> QED BY <1>2, <2>1, <2>2
<1> HIDE DEF p
<1>4. PICK c \in Calls :
        /\ ops' = [ops EXCEPT ![o] = c]
        /\ c.kind = ops[o].kind /\ c.todo = p /\ c.user = ops[o].user
        /\ c.guarded = ops[o].guarded
  BY <1>1, <1>3, ContinueCall
<1>5. /\ Stands(c) /\ ~ToWrite(c) /\ ~ToWrite(ops[o]) /\ ~ToMark(c) /\ ~AtMark(c)
      /\ AtMark(ops[o]) /\ ops[o].todo # S1 /\ Alone(ops[o]) /\ c.todo \notin {I3, Q3}
  BY <1>2, <1>3, <1>4, ProgramKinds, ProgramNow, ProgramsHave, SyncStages
<1>6. disk' \in Disks /\ disk'.desk = disk.desk /\ disk'.cli = disk.cli /\ disk'.owner = ops[o].user
  <2>1. ops[o].user \in Users \cup {None}
    BY <1>2 DEF Calls
  <2> QED BY <1>1, <2>1 DEF Disks
<1>7. Accounts'
  <2>1. CASE muddled
    BY <1>1, <2>1 DEF Accounts
  <2>2. CASE ~muddled
    <3>1. ops[o].user = user
      BY <1>2, <1>5, <2>2, LoneCall
    <3>2. disk'.owner = user /\ disk'.desk.of = user
      BY <1>5, <1>6, <2>2, <3>1 DEF DaemonInv, Accounts, OwnToken
    <3>3. Alive => daemon.token.of = user \/ Repairs(c)'
      <4>1. Alive => daemon.token.of = user \/ Repairs(ops[o])
        BY <1>5, <2>2, LoneCall
      <4>2. Repairs(ops[o]) => ops[o].kind = "login" /\ ops[o].changed
        <5>1. ops[o].todo # LoginProgram /\ ops[o].todo # I1
          BY <1>2, ProgramNow
        <5> QED BY <1>2, <5>1 DEF Repairs
      <4>3. ops[o].kind = "login" /\ ops[o].changed => c.todo = I1
        BY <1>3, <1>4
      <4>4. Repairs(ops[o]) => Repairs(c)'
        BY <1>4, <4>2, <4>3 DEF Repairs
      <4> QED BY <4>1, <4>4
    <3> QED BY <1>1, <1>4, <1>5, <1>6, <2>2, <3>2, <3>3, LoneStep
  <2> QED BY <2>1, <2>2
<1>8. ManagerOK'
  BY <1>1, <1>6 DEF DaemonInv, ManagerOK, Alive
<1>9. GuardKept(o, c)
  BY <1>1, <1>4 DEF GuardKept
<1> QED BY <1>1, <1>4, <1>5, <1>7, <1>8, <1>9, CallStep

(* A live daemon is restarted by a call of its own, which replaces it.     *)
LEMMA RotateInv == ASSUME DaemonInv, NEW o \in OpIds, Rotate(o) PROVE DaemonInv'
<1>1. /\ At(o, "rotate") /\ CallsOK
      /\ UNCHANGED <<user, mgr, disk, daemon, forks, dead, muddled, left>>
  BY DEF Rotate, DaemonInv
<1>2. /\ ops[o] \in Calls /\ Stands(ops[o])
      /\ \/ ops[o].todo = I1 /\ ops[o].kind = "login" /\ Rest(o) = PollProgram
         \/ ops[o].todo = Q1 /\ ops[o].kind = "reauth" /\ Rest(o) = RestartProgram
  BY <1>1, AtStep, Standing, ProgramAfter
<1>3. /\ ops[o].todo # S1 /\ ~AtMark(ops[o]) /\ ~ToWrite(ops[o]) /\ ~ToMark(ops[o])
      /\ Alone(ops[o]) /\ ~ops[o].guarded
      /\ Rest(o) \in Programs /\ Rest(o) # <<>> /\ Rest(o) \notin {I3, Q3}
  BY <1>2, ProgramNow, ProgramsHave, SyncStages DEF DaemonInv, GuardOK
<1>4. ManagerOK'
  BY <1>1 DEF DaemonInv, ManagerOK, Alive
<1>5. CASE ~Alive /\ Continue(o, Rest(o))
  <2>1. PICK c \in Calls :
          /\ ops' = [ops EXCEPT ![o] = c]
          /\ c.kind = ops[o].kind /\ c.todo = Rest(o) /\ c.user = ops[o].user
          /\ c.guarded = ops[o].guarded
    BY <1>1, <1>3, <1>5, ContinueCall
  <2>2. Stands(c) /\ ~ToWrite(c) /\ ~ToMark(c) /\ ~AtMark(c)
    BY <1>2, <2>1, ProgramKinds, ProgramsHave, SyncStages
  <2>3. Accounts'
    <3>1. CASE muddled
      BY <1>1, <3>1 DEF Accounts
    <3>2. CASE ~muddled
      <4>1. \A x \in OpIds : ~AtMark(ops[x]) /\ ~ToMark(ops[x])
        BY <1>3, <3>2, LoneCall
      <4>2. user = None \/ disk.owner = user
        BY <3>2, <4>1 DEF DaemonInv, Accounts, SidecarRight
      <4>3. disk.owner # None /\ disk.desk # NoToken => disk.desk.of = disk.owner
        BY <3>2, <4>1 DEF DaemonInv, Accounts, OwnToken
      <4>4. c.todo \notin {I3, Q3}
        BY <1>3, <2>1
      <4> QED BY <1>1, <1>3, <1>5, <2>1, <2>2, <3>2, <4>2, <4>3, <4>4, LoneStep
    <3> QED BY <3>1, <3>2
  <2>4. GuardKept(o, c)
    BY <1>1, <2>1 DEF GuardKept
  <2> QED BY <1>1, <1>3, <1>4, <2>1, <2>2, <2>3, <2>4, CallStep
<1>6. ASSUME Alive, NEW x \in OpIds, Free(x),
             ops' = [ops EXCEPT ![o].todo = Rest(o),
                                ![x] = Call("rotation", RestartProgram, None, FALSE)]
      PROVE  DaemonInv'
  <2>1. PICK c \in Calls :
          /\ c.kind = ops[o].kind /\ c.user = ops[o].user /\ c.guarded = ops[o].guarded
          /\ c.todo = Rest(o) /\ c = [ops[o] EXCEPT !.todo = Rest(o)]
    <3> DEFINE d == [ops[o] EXCEPT !.todo = Rest(o)]
    <3>1. d \in Calls
      BY <1>2, <1>3 DEF Calls
    <3>2. /\ d.kind = ops[o].kind /\ d.user = ops[o].user /\ d.guarded = ops[o].guarded
          /\ d.todo = Rest(o)
      BY <1>2 DEF Calls
    <3> QED BY <3>1, <3>2
  <2>2. PICK r \in Calls :
          /\ r.kind = "rotation" /\ r.todo = RestartProgram /\ r.guarded = FALSE
          /\ r = Call("rotation", RestartProgram, None, FALSE)
    <3> DEFINE d == Call("rotation", RestartProgram, None, FALSE)
    <3>1. RestartProgram \in Programs
      BY ProgramsHave
    <3>2. d \in Calls /\ d.kind = "rotation" /\ d.todo = RestartProgram /\ d.guarded = FALSE
      BY <3>1 DEF Call, Idle, NoHealth, Calls, Sample, Tokens, Kinds
    <3> HIDE DEF d
    <3> QED BY <3>2 DEF d
  <2>3. ops[x].kind = "idle" /\ ops[x].todo = <<>> /\ ~ops[x].guarded /\ x # o
    <3>1. ops[x].kind = "idle" /\ Stands(ops[x])
      BY <1>1, <1>6 DEF Free, CallsOK
    <3> QED BY <1>2, <3>1, Standing DEF DaemonInv, GuardOK
  <2>4. /\ ops' \in [OpIds -> Calls] /\ ops'[o] = c /\ ops'[x] = r
        /\ \A y \in OpIds \ {o, x} : ops'[y] = ops[y]
    <3>1. ops' = [ops EXCEPT ![o] = c, ![x] = r]
      BY <1>1, <1>6, <2>1, <2>2 DEF CallsOK
    <3> QED BY <1>1, <2>3, <3>1 DEF CallsOK
  <2>5. Stands(c) /\ Stands(r) /\ c.todo # S1 /\ r.todo # S1
        /\ ~InSync(c) /\ ~ToWrite(c) /\ ~ToMark(c) /\ ~AtMark(c)
    <3>1. c.todo \in {PollProgram, RestartProgram}
      BY <1>2, <2>1
    <3>2. /\ c.todo # S1 /\ r.todo # S1
          /\ Now(c.todo) \notin {"untoken", "unmark", "read", "mint", "write", "mark", "rotate"}
      BY <2>2, <3>1, ProgramNow
    <3>3. Stands(c) /\ Stands(r)
      BY <1>2, <2>1, <2>2, ProgramKinds, ProgramsHave
    <3>4. ~InSync(c)
      BY <3>2, OutsideSync
    <3> QED BY <1>2, <2>1, <3>1, <3>2, <3>3, <3>4, SyncStages
  <2>6. CallsOK'
    BY <1>1, <2>4, <2>5 DEF CallsOK
  <2>7. GuardOK'
    <3>1. ~ops'[o].guarded /\ ~ops'[x].guarded
      BY <1>3, <2>1, <2>2, <2>4
    <3>2. \A y \in OpIds : ops'[y].guarded => ops'[y] = ops[y]
      BY <2>4, <3>1
    <3>3. \A y \in OpIds : ops[y].guarded => ops'[y] = ops[y]
      BY <1>3, <2>3, <2>4
    <3> QED BY <1>1, <3>2, <3>3 DEF DaemonInv, GuardOK
  <2>8. ForksOK'
    <3>1. Awaiting' = Awaiting
      <4>1. S1 # <<>>
        BY ProgramNow
      <4> QED BY <1>3, <2>3, <2>4, <2>5, <4>1 DEF Awaiting
    <3> QED BY <1>1, <3>1 DEF DaemonInv, ForksOK
  <2>9. Accounts'
    <3> SUFFICES ASSUME ~muddled' PROVE (Exclusive /\ ForUser /\ ConfigRight /\ SidecarRight
                                         /\ OwnToken /\ SignedOut /\ DaemonRight)'
      BY DEF Accounts
    <3>1. /\ ~muddled /\ forks = 0
          /\ \A y \in OpIds \ {o} : /\ Quiet(ops[y]) /\ ~ToWrite(ops[y]) /\ ~ToMark(ops[y])
                                    /\ ~AtMark(ops[y])
          /\ ops[o].user = user /\ user \in Users /\ user # None
      BY <1>1, <1>2, <1>3, LoneCall
    <3>2. \A y \in OpIds : /\ y \notin {o, x} => Quiet(ops'[y])
                           /\ ~ToWrite(ops'[y]) /\ ~ToMark(ops'[y]) /\ ~AtMark(ops'[y])
                           /\ ~Alone(ops'[y])
      <4>1. ~ToWrite(r) /\ ~ToMark(r) /\ ~AtMark(r) /\ ~Alone(r)
        BY <2>2 DEF ToWrite, ToMark, AtMark, Alone, InSync
      <4>2. ~Alone(c)
        BY <1>2, <2>1, <2>5 DEF Alone
      <4>3. \A y \in OpIds \ {o} : ~Alone(ops[y])
        BY <3>1 DEF Quiet, Passive, Alone, InSync
      <4> QED BY <2>4, <2>5, <3>1, <4>1, <4>2, <4>3
    <3>3. \A y \in OpIds : /\ ToWrite(ops[y])' = ToWrite(ops'[y]) /\ ToMark(ops[y])' = ToMark(ops'[y])
                           /\ AtMark(ops[y])' = AtMark(ops'[y]) /\ Alone(ops[y])' = Alone(ops'[y])
                           /\ Quiet(ops[y])' = Quiet(ops'[y])
      BY DEF ToWrite, ToMark, AtMark, Alone, InSync, Quiet
    <3>4. Exclusive'
      <4>1. \A y \in OpIds \ {o} : ops'[y].kind \in Passive \cup {"rotation"}
        BY <2>2, <2>4, <3>2 DEF Quiet
      <4>2. \A y \in OpIds : ops'[y].kind \in Session => y = o
        BY <4>1 DEF Passive, Session
      <4> QED BY <3>2, <3>3, <4>1, <4>2 DEF Exclusive
    <3>5. ForUser'
      <4>1. \A y \in OpIds : ops'[y].kind \in {"login", "reauth", "logout"} => y = o
        BY <2>2, <2>4, <3>2 DEF Quiet, Passive
      <4>2. ops'[o].kind \in {"login", "reauth"} /\ ops'[o].user = user /\ user' = user
        BY <1>1, <1>2, <2>1, <2>4, <3>1
      <4> QED BY <3>1, <4>1, <4>2 DEF ForUser
    <3>6. ConfigRight' /\ SidecarRight'
      <4>1. \A y \in OpIds : ~ToWrite(ops[y]) /\ ~ToMark(ops[y])
        BY <1>3, <3>1
      <4>2. (disk.cli = NoToken \/ disk.cli.of = user) /\ disk.owner = user
        BY <3>1, <4>1 DEF DaemonInv, Accounts, ConfigRight, SidecarRight
      <4> QED BY <1>1, <4>2 DEF ConfigRight, SidecarRight
    <3>7. OwnToken'
      <4>1. disk.owner # None /\ disk.desk # NoToken => disk.desk.of = disk.owner
        BY <1>3, <3>1 DEF DaemonInv, Accounts, OwnToken
      <4>2. \A y \in OpIds : ~(ops'[y].kind \in {"login", "reauth"} /\ ops'[y].todo \in {I3, Q3})
        BY <3>2, SyncParts
      <4> QED BY <1>1, <3>2, <3>3, <4>1, <4>2 DEF OwnToken
    <3>8. SignedOut'
      BY <1>1, <3>1 DEF SignedOut
    <3>9. DaemonRight'
      <4>1. Repairs(ops[x])'
        BY <2>2, <2>4 DEF Repairs
      <4> QED BY <4>1 DEF DaemonRight
    <3> QED BY <3>4, <3>5, <3>6, <3>7, <3>8, <3>9
  <2> QED BY <1>4, <2>6, <2>7, <2>8, <2>9 DEF DaemonInv
<1> QED BY <1>5, <1>6 DEF Rotate

-----------------------------------------------------------------------------
(* The calls that start.                                                   *)

(* A sign-in, a logout or a reauthentication that nothing overlaps.        *)
LEMMA SessionStarts ==
  ASSUME DaemonInv, NEW o \in OpIds, NEW c \in Calls, ops' = [ops EXCEPT ![o] = c],
         ops[o].kind = "idle", muddled' = (muddled \/ Overlap(o, c.kind)),
         UNCHANGED <<disk, daemon, forks>>,
         \/ /\ c.kind = "login" /\ c.todo = LoginProgram
            /\ c.user = user' /\ user' \in Users \ {user}
         \/ c.kind = "logout" /\ c.todo = LogoutProgram /\ user' = None
         \/ /\ c.kind = "reauth" /\ c.todo = ReauthProgram
            /\ c.user = user /\ user' = user /\ user # None
  PROVE  Accounts'
<1> SUFFICES ASSUME ~muddled' PROVE (Exclusive /\ ForUser /\ ConfigRight /\ SidecarRight
                                     /\ OwnToken /\ SignedOut /\ DaemonRight)'
  BY DEF Accounts
<1>1. /\ Exclusive /\ ForUser /\ ConfigRight /\ SidecarRight
      /\ OwnToken /\ SignedOut /\ DaemonRight /\ ~Overlap(o, c.kind)
  BY DEF DaemonInv, Accounts
<1>2. /\ ops'[o] = c /\ \A x \in OpIds : x # o => ops'[x] = ops[x]
  BY DEF DaemonInv, CallsOK
<1>3. forks = 0 /\ forks' = 0 /\ Others(o) = {}
  BY <1>1 DEF Overlap, Session, DaemonInv, ManagerOK
<1>4. /\ \A x \in OpIds : ops[x].kind \in Passive
      /\ \A x \in OpIds \ {o} : ops'[x].kind \in Passive
  BY <1>2, <1>3 DEF Others, Passive
<1>5. \A x \in OpIds : /\ ~ToWrite(ops[x]) /\ ~ToMark(ops[x]) /\ ~AtMark(ops[x])
                       /\ ~Repairs(ops[x])
  BY <1>4 DEF ToWrite, ToMark, AtMark, Repairs, Passive
<1>6. ~AtMark(c) /\ (c.kind # "logout" => ToWrite(c) /\ ToMark(c)) /\ c.todo \notin {I3, Q3}
  BY SyncStages, ProgramNow
<1>7. user \in Users \cup {None} /\ None \notin Users
  BY OwnerAssumption DEF DaemonInv, ManagerOK
<1>8. Exclusive'
  BY <1>3, <1>4 DEF Exclusive, Alone, InSync, Quiet, Passive, Session
<1>9. ForUser'
  BY <1>2, <1>4, <1>7 DEF ForUser, Passive
<1>10. ConfigRight' /\ SidecarRight'
  <2>1. user' # None => ToWrite(ops'[o]) /\ ToMark(ops'[o])
    BY <1>2, <1>6
  <2>2. ToWrite(ops[o])' = ToWrite(ops'[o]) /\ ToMark(ops[o])' = ToMark(ops'[o])
    BY DEF ToWrite, ToMark
  <2> QED BY <2>1, <2>2 DEF ConfigRight, SidecarRight
<1>11. OwnToken'
  <2>1. disk.owner # None /\ disk.desk # NoToken => disk.desk.of = disk.owner
    BY <1>1, <1>5 DEF OwnToken
  <2>2. \A x \in OpIds : ops'[x].kind \in {"login", "reauth"} => x = o /\ ops'[x] = c
    BY <1>2, <1>4 DEF Passive
  <2>3. \A x \in OpIds : ~AtMark(ops[x])'
    BY <1>6, <2>2 DEF AtMark
  <2> QED BY <1>6, <2>1, <2>2, <2>3 DEF OwnToken
<1>12. SignedOut'
  <2>1. user' = None => c.kind = "logout"
    BY <1>7
  <2> QED BY <1>2, <1>3, <1>4, <2>1 DEF SignedOut, Harmless
<1>13. DaemonRight'
  <2> SUFFICES ASSUME Alive' PROVE daemon'.token.of = user' \/ Repairs(ops[o])'
    BY DEF DaemonRight
  <2>1. daemon.token.of = user /\ user # None
    <3>1. Alive /\ daemon.token.of = user
      BY <1>1, <1>5 DEF DaemonRight, Alive
    <3> QED BY <1>7, <3>1 DEF DaemonInv, ManagerOK, Token
  <2>2. disk.owner = user
    BY <1>1, <1>5, <2>1 DEF SidecarRight
  <2>3. CASE c.kind = "login"
    BY <1>2, <2>1, <2>2, <2>3 DEF Repairs
  <2>4. CASE c.kind = "logout"
    BY <1>2, <2>4 DEF Repairs
  <2>5. CASE c.kind = "reauth"
    BY <2>1, <2>5
  <2> QED BY <2>3, <2>4, <2>5
<1> QED BY <1>8, <1>9, <1>10, <1>11, <1>12, <1>13

LEMMA PollTimerInv == ASSUME DaemonInv, NEW o \in OpIds, PollTimer(o) PROVE DaemonInv'
<1>1. /\ ops[o].kind = "idle" /\ CallsOK /\ muddled \in BOOLEAN
      /\ UNCHANGED <<user, mgr, disk, daemon, forks, dead, left>>
  BY DEF PollTimer, Free, DaemonInv, ManagerOK
<1>2. PICK c \in Calls : Launch(o, c) /\ c.kind = "poll" /\ c.todo = P1 /\ c.guarded = FALSE
  <2> DEFINE b == Call("poll", <<"judge">>, None, FALSE)
             d == [b EXCEPT !.health = Liveness]
  <2>1. Liveness \in Sample /\ P1 \in Programs
    BY ProgramsHave DEF DaemonInv, ManagerOK, Daemons, Liveness, NoHealth, Sample
  <2>2. b \in Calls /\ b.kind = "poll" /\ b.todo = P1 /\ b.guarded = FALSE
    BY <2>1 DEF Call, Idle, NoHealth, Calls, Sample, Tokens, Kinds, P1
  <2>3. Launch(o, d)
    BY DEF PollTimer
  <2> HIDE DEF b
  <2>4. d \in Calls /\ d.kind = "poll" /\ d.todo = P1 /\ d.guarded = FALSE
    BY <2>1, <2>2 DEF Calls
  <2> HIDE DEF d
  <2> QED BY <2>3, <2>4
<1>3. ops' = [ops EXCEPT ![o] = c] /\ muddled' = (muddled \/ Overlap(o, c.kind))
  BY <1>2 DEF Launch
<1>4. Stands(c) /\ ~InSync(c) /\ ~InSync(ops[o]) /\ ops[o].todo # S1 /\ ~Repairs(ops[o])
      /\ ~ops[o].guarded
  <2>1. ops[o].todo = <<>> /\ S1 # <<>>
    BY <1>1, Standing, ProgramNow DEF CallsOK
  <2>2. Stands(c)
    BY <1>2, ProgramKinds, ProgramsHave
  <2> QED BY <1>1, <1>2, <2>1, <2>2 DEF InSync, Repairs, DaemonInv, GuardOK
<1>5. muddled' \in BOOLEAN
  BY <1>3
<1>6. ManagerOK'
  BY <1>1, <1>5 DEF DaemonInv, ManagerOK, Alive
<1>7. Accounts'
  <2>1. /\ c.kind \in Passive /\ Harmless(c)' /\ (muddled => muddled')
        /\ (Alive' => Alive /\ daemon'.token = daemon.token)
    BY <1>1, <1>2, <1>3 DEF Passive, Harmless, Alive
  <2> QED BY <1>1, <1>3, <1>4, <2>1, OrdinaryStep
<1>8. GuardDropped(o, c)
  BY <1>1, <1>2, <1>4 DEF GuardDropped
<1> QED BY <1>1, <1>3, <1>4, <1>6, <1>7, <1>8, CallStep

LEMMA EventTyped == ASSUME DaemonInv, Event PROVE left' \in 0..MaxEvents
<1>1. left \in 0..MaxEvents /\ left > 0 /\ left' = left - 1
  BY DEF Event, DaemonInv, ManagerOK
<1> QED BY <1>1, BoundsAssumption

LEMMA ClickInv == ASSUME DaemonInv, NEW o \in OpIds, Click(o) PROVE DaemonInv'
<1>1. /\ ops[o].kind = "idle" /\ CallsOK /\ muddled \in BOOLEAN /\ user # None
      /\ ~mgr.guard /\ mgr' = [mgr EXCEPT !.guard = TRUE] /\ mgr \in Managers
      /\ left' \in 0..MaxEvents /\ UNCHANGED <<user, disk, daemon, forks, dead>>
  BY EventTyped DEF Click, Free, DaemonInv, ManagerOK
<1>2. PICK p \in {StartProgram, StopProgram, RestartProgram} :
        Launch(o, Call("click", p, None, TRUE))
  BY DEF Click
<1>3. PICK c \in Calls : Launch(o, c) /\ c.kind = "click" /\ c.todo = p /\ c.guarded = TRUE
  <2> DEFINE d == Call("click", p, None, TRUE)
  <2>1. p \in Programs
    BY ProgramsHave
  <2>2. d \in Calls /\ d.kind = "click" /\ d.todo = p /\ d.guarded = TRUE
    BY <2>1 DEF Call, Idle, NoHealth, Calls, Sample, Tokens, Kinds
  <2> HIDE DEF d
  <2> QED BY <1>2, <2>2 DEF d
<1>4. ops' = [ops EXCEPT ![o] = c] /\ muddled' = (muddled \/ Overlap(o, c.kind))
  BY <1>3 DEF Launch
<1>5. Stands(c) /\ ops[o].todo # S1
  <2>1. ops[o].todo = <<>> /\ S1 # <<>>
    BY <1>1, Standing, ProgramNow DEF CallsOK
  <2> QED BY <1>3, <2>1, ProgramKinds, ProgramsHave
<1>6. muddled' \in BOOLEAN
  BY <1>4
<1>7. mgr' \in Managers /\ GuardTaken(o, c)
  BY <1>1, <1>3 DEF Managers, GuardTaken
<1>8. ManagerOK'
  BY <1>1, <1>6, <1>7 DEF DaemonInv, ManagerOK, Alive
<1>9. Accounts'
  BY <1>1, <1>3, <1>4, CommandStarts DEF Passive
<1> QED BY <1>1, <1>4, <1>5, <1>7, <1>8, <1>9, CallStep

(* The renderer's session effects.                                         *)
LEMMA SessionInv ==
  ASSUME DaemonInv, NEW o \in OpIds, Login(o) \/ Logout(o) \/ Reauthenticate(o)
  PROVE  DaemonInv'
<1>1. /\ ops[o].kind = "idle" /\ CallsOK /\ muddled \in BOOLEAN /\ user \in Users \cup {None}
      /\ left' \in 0..MaxEvents /\ UNCHANGED <<mgr, disk, daemon, forks, dead>>
  BY EventTyped DEF Login, Logout, Reauthenticate, Free, DaemonInv, ManagerOK
<1>2. PICK c \in Calls :
        /\ Launch(o, c) /\ Stands(c) /\ c.guarded = FALSE
        /\ \/ /\ c.kind = "login" /\ c.todo = LoginProgram
              /\ c.user = user' /\ user' \in Users \ {user}
           \/ c.kind = "logout" /\ c.todo = LogoutProgram /\ user' = None
           \/ /\ c.kind = "reauth" /\ c.todo = ReauthProgram
              /\ c.user = user /\ user' = user /\ user # None
  <2>1. LoginProgram \in Programs /\ LogoutProgram \in Programs /\ ReauthProgram \in Programs
    BY ProgramsHave
  <2>2. CASE Login(o)
    <3>1. PICK u \in Users \ {user} : user' = u /\ Launch(o, Call("login", LoginProgram, u, FALSE))
      BY <2>2 DEF Login
    <3> DEFINE d == Call("login", LoginProgram, u, FALSE)
    <3>2. d \in Calls /\ d.kind = "login" /\ d.todo = LoginProgram /\ d.user = u /\ d.guarded = FALSE
      BY <2>1 DEF Call, Idle, NoHealth, Calls, Sample, Tokens, Kinds
    <3>3. Launch(o, d)
      BY <3>1
    <3> HIDE DEF d
    <3> QED BY <3>1, <3>2, <3>3, ProgramKinds
  <2>3. CASE Logout(o)
    <3> DEFINE d == Call("logout", LogoutProgram, None, FALSE)
    <3>1. d \in Calls /\ d.kind = "logout" /\ d.todo = LogoutProgram /\ d.guarded = FALSE
      BY <2>1 DEF Call, Idle, NoHealth, Calls, Sample, Tokens, Kinds
    <3>2. Launch(o, d) /\ user' = None
      BY <2>3 DEF Logout
    <3> HIDE DEF d
    <3> QED BY <3>1, <3>2, ProgramKinds
  <2>4. CASE Reauthenticate(o)
    <3> DEFINE d == Call("reauth", ReauthProgram, user, FALSE)
    <3>1. d \in Calls /\ d.kind = "reauth" /\ d.todo = ReauthProgram /\ d.user = user
          /\ d.guarded = FALSE
      BY <1>1, <2>1 DEF Call, Idle, NoHealth, Calls, Sample, Tokens, Kinds
    <3>2. Launch(o, d) /\ user' = user /\ user # None
      BY <2>4 DEF Reauthenticate
    <3> HIDE DEF d
    <3> QED BY <3>1, <3>2, ProgramKinds
  <2> QED BY <2>2, <2>3, <2>4
<1>3. ops' = [ops EXCEPT ![o] = c] /\ muddled' = (muddled \/ Overlap(o, c.kind))
  BY <1>2 DEF Launch
<1>4. ops[o].todo # S1 /\ ~ops[o].guarded
  <2>1. ops[o].todo = <<>> /\ S1 # <<>>
    BY <1>1, Standing, ProgramNow DEF CallsOK
  <2> QED BY <1>1, <2>1 DEF DaemonInv, GuardOK
<1>5. muddled' \in BOOLEAN /\ user' \in Users \cup {None}
  <2>1. muddled' \in BOOLEAN
    BY <1>3
  <2>2. user' \in Users \cup {None}
    BY <1>1, <1>2
  <2> QED BY <2>1, <2>2
<1>6. ManagerOK'
  BY <1>1, <1>5 DEF DaemonInv, ManagerOK, Alive
<1>7. Accounts'
  BY <1>1, <1>2, <1>3, SessionStarts
<1>8. GuardDropped(o, c)
  BY <1>1, <1>2, <1>4 DEF GuardDropped
<1> QED BY <1>1, <1>2, <1>3, <1>4, <1>6, <1>7, <1>8, CallStep

-----------------------------------------------------------------------------
(* The install, the timers and the daemon process.                         *)

LEMMA WorldInv ==
  ASSUME DaemonInv, ManagerOK', mgr'.guard = mgr.guard,
         UNCHANGED <<user, disk, ops, muddled>>, forks' <= forks,
         Alive' => \/ Alive /\ daemon'.token = daemon.token
                   \/ forks > 0 /\ daemon'.token = disk.cli /\ disk.cli # NoToken
  PROVE  DaemonInv'
<1>1. CallsOK' /\ GuardOK'
  BY DEF DaemonInv, CallsOK, GuardOK
<1>2. forks' \in Nat /\ forks \in Nat
  BY DEF DaemonInv, ManagerOK
<1>3. ForksOK'
  <2>1. Cardinality(Awaiting) \in Nat
    BY OpIdsFinite, FS_Subset, FS_CardinalityType DEF Awaiting
  <2>2. Awaiting' = Awaiting
    BY DEF Awaiting
  <2> QED BY <1>2, <2>1, <2>2 DEF DaemonInv, ForksOK
<1>4. Accounts'
  BY <1>2, WorldStep
<1> QED BY <1>1, <1>3, <1>4 DEF DaemonInv

LEMMA TimersInv ==
  ASSUME DaemonInv, BootstrapCli \/ RetryInstall \/ GracePasses
  PROVE  DaemonInv'
<1>1. /\ UNCHANGED <<user, disk, forks, dead, ops, muddled>> /\ ManagerOK
      /\ mgr \in Managers /\ daemon \in Daemons
  BY DEF BootstrapCli, RetryInstall, GracePasses, DaemonInv, ManagerOK
<1>2. mgr' \in Managers /\ mgr'.guard = mgr.guard
  BY <1>1 DEF BootstrapCli, RetryInstall, GracePasses, Managers
<1>3. left' \in 0..MaxEvents
  BY EventTyped DEF BootstrapCli, RetryInstall, GracePasses, Fault, DaemonInv, ManagerOK
<1>4. daemon' \in Daemons /\ daemon'.up = daemon.up /\ daemon'.token = daemon.token
  <2>1. CASE RetryInstall
    <3>1. PICK newer \in BOOLEAN : daemon' = [daemon EXCEPT !.old = Alive /\ (@ \/ newer)]
      BY <2>1 DEF RetryInstall
    <3>2. (Alive /\ (daemon.old \/ newer)) \in BOOLEAN
      OBVIOUS
    <3> QED BY <1>1, <3>1, <3>2 DEF Daemons
  <2>2. CASE BootstrapCli \/ GracePasses
    BY <1>1, <2>2 DEF BootstrapCli, GracePasses
  <2> QED BY <2>1, <2>2
<1>5. ManagerOK'
  BY <1>1, <1>2, <1>3, <1>4 DEF ManagerOK, Alive
<1>6. forks' <= forks /\ (Alive' => Alive /\ daemon'.token = daemon.token)
  BY <1>1, <1>4 DEF Alive, ManagerOK
<1> QED BY <1>1, <1>2, <1>5, <1>6, WorldInv

LEMMA ProcessInv ==
  ASSUME DaemonInv, Bind \/ Preflight \/ FinishTask \/ Crash \/ TakeTask
  PROVE  DaemonInv'
<1>1. /\ UNCHANGED <<user, mgr, disk, dead, ops, muddled>> /\ ManagerOK
      /\ daemon \in Daemons /\ forks \in Nat
  BY DEF Bind, Preflight, FinishTask, Crash, TakeTask, DaemonInv, ManagerOK
<1>2. left' \in 0..MaxEvents
  BY EventTyped DEF Bind, Preflight, FinishTask, Crash, TakeTask, Fault, DaemonInv, ManagerOK
<1>3. forks' \in Nat /\ forks' <= forks
  <2>1. CASE Bind
    BY <1>1, <2>1 DEF Bind
  <2>2. CASE ~Bind
    BY <1>1, <2>2 DEF Preflight, FinishTask, Crash, TakeTask
  <2> QED BY <2>1, <2>2
<1>4. /\ daemon' \in Daemons
      /\ Alive' => \/ Alive /\ daemon'.token = daemon.token
                   \/ forks > 0 /\ daemon'.token = disk.cli /\ disk.cli # NoToken
  <2>1. Down \in Daemons /\ Down.up = "down"
    BY DEF Down, Daemons, Tokens
  <2>2. CASE Bind
    <3>1. CASE UNCHANGED daemon
      BY <1>1, <3>1 DEF Alive
    <3>2. CASE disk.cli # NoToken /\ daemon' = [Down EXCEPT !.up = "starting", !.token = disk.cli]
      <4>1. disk.cli \in Tokens
        BY <1>1 DEF ManagerOK, Disks
      <4>2. daemon' \in Daemons /\ daemon'.token = disk.cli
        BY <2>1, <3>2, <4>1 DEF Daemons
      <4> QED BY <2>2, <3>2, <4>2 DEF Bind
    <3> QED BY <2>2, <3>1, <3>2 DEF Bind
  <2>3. CASE Preflight
    BY <1>1, <2>1, <2>3 DEF Preflight, Daemons, Alive
  <2>4. CASE FinishTask
    BY <1>1, <2>4 DEF FinishTask, Daemons, Alive
  <2>5. CASE Crash
    BY <2>1, <2>5 DEF Crash, Alive
  <2>6. CASE TakeTask
    BY <1>1, <2>6 DEF TakeTask, Daemons, Alive
  <2> QED BY <2>2, <2>3, <2>4, <2>5, <2>6
<1>5. Alive' => daemon'.token \in Token
  BY <1>1, <1>4 DEF ManagerOK, Disks, Tokens
<1>6. ManagerOK'
  BY <1>1, <1>2, <1>3, <1>4, <1>5 DEF ManagerOK
<1> QED BY <1>1, <1>3, <1>4, <1>6, WorldInv

LEMMA RevokeInv == ASSUME DaemonInv, Revoke PROVE DaemonInv'
<1>1. /\ UNCHANGED <<user, mgr, disk, daemon, forks, ops, muddled>> /\ ManagerOK /\ CallsOK
      /\ left' \in 0..MaxEvents
  BY EventTyped DEF Revoke, Fault, DaemonInv
<1>2. PICK t \in {disk.desk, disk.cli, daemon.token} \cup {ops[o].token : o \in OpIds} :
        Live(t) /\ dead' = dead \cup {t.of}
  BY DEF Revoke
<1>3. t \in Tokens
  BY <1>1, <1>2 DEF ManagerOK, CallsOK, Disks, Daemons, Calls
<1>4. t.of \in Users
  BY <1>2, <1>3 DEF Live, Tokens, Token
<1>5. dead' \subseteq Users
  BY <1>1, <1>2, <1>4 DEF ManagerOK
<1>6. ManagerOK'
  BY <1>1, <1>5 DEF ManagerOK, Alive
<1>7. forks' <= forks /\ (Alive' => Alive /\ daemon'.token = daemon.token)
  BY <1>1 DEF Alive, ManagerOK
<1> QED BY <1>1, <1>6, <1>7, WorldInv

-----------------------------------------------------------------------------
(* The theorems.                                                           *)

LEMMA StepInv == ASSUME DaemonInv, NEW o \in OpIds, Step(o) PROVE DaemonInv'
<1>1. CASE Probe(o) \/ Judge(o) \/ AskServer(o) \/ Verdict(o) \/ SampleVersion(o) \/ Decide(o)
  BY <1>1, ProbeInv, JudgeInv, AskServerInv, VerdictInv, SampleVersionInv, DecideInv
<1>2. CASE Stop(o) \/ Halt(o) \/ Find(o) \/ LaunchDaemon(o) \/ Exec(o) \/ Await(o)
  BY <1>2, StopInv, HaltInv, FindInv, LaunchDaemonInv, ExecInv, AwaitInv
<1>3. CASE ReadConfig(o) \/ MintPat(o) \/ WriteToken(o) \/ WriteSidecar(o) \/ Rotate(o)
  BY <1>3, ReadConfigInv, MintPatInv, WriteTokenInv, WriteSidecarInv, RotateInv
<1>4. CASE ClearToken(o) \/ RemoveSidecar(o) \/ EnterGuard(o)
  BY <1>4, ClearTokenInv, RemoveSidecarInv, EnterGuardInv
<1> QED BY <1>1, <1>2, <1>3, <1>4 DEF Step

LEMMA DaemonInvNext == DaemonInv /\ [DaemonNext]_daemonVars => DaemonInv'
<1> SUFFICES ASSUME DaemonInv, [DaemonNext]_daemonVars PROVE DaemonInv'
  OBVIOUS
<1>1. ASSUME NEW o \in OpIds, Step(o) \/ PollTimer(o) \/ Renderer(o) PROVE DaemonInv'
  BY <1>1, StepInv, PollTimerInv, SessionInv, ClickInv DEF Renderer
<1>2. CASE BootstrapCli \/ RetryInstall \/ GracePasses
  BY <1>2, TimersInv
<1>3. CASE Progress \/ Crash \/ TakeTask
  BY <1>3, ProcessInv DEF Progress
<1>4. CASE Revoke
  BY <1>4, RevokeInv
<1>5. CASE UNCHANGED daemonVars
  <2>1. UNCHANGED <<user, mgr, disk, daemon, forks, dead, ops, muddled, left>>
    BY <1>5 DEF daemonVars
  <2>2. ManagerOK' /\ forks' <= forks /\ (Alive' => Alive /\ daemon'.token = daemon.token)
    BY <2>1 DEF DaemonInv, ManagerOK, Alive
  <2> QED BY <2>1, <2>2, WorldInv
<1> QED BY <1>1, <1>2, <1>3, <1>4, <1>5 DEF DaemonNext

(* The inductive invariant: where every call stands, the guard's one       *)
(* holder, the processes that are waited for and, until an account change  *)
(* overlaps another call, whose token is where.                            *)
THEOREM DaemonInvariant == DaemonSpec => []DaemonInv
BY DaemonInvInit, DaemonInvNext, PTL DEF DaemonSpec

(* Every variable of daemon-manager.ts keeps its type, a guarded call      *)
(* holds withGuard's flag, no two calls do, and the processes spawned but  *)
(* not bound are never more than the calls that wait for one.              *)
THEOREM DaemonTypeCorrect == DaemonSpec => []DaemonTypeOK
<1>1. DaemonInv => DaemonTypeOK
  <2> SUFFICES ASSUME DaemonInv PROVE DaemonTypeOK
    OBVIOUS
  <2>1. ManagerOK /\ GuardOK /\ ForksOK
    BY DEF DaemonInv
  <2>2. /\ user \in Users \cup {None}
        /\ mgr.shown \in {"installing_cli", "cli_not_found", "stopped", "starting",
                          "running", "stopping", "auth_expired"}
        /\ mgr.attempt \in {"none", "fresh", "due", "probed"}
        /\ mgr.cli \in {"resolving", "missing", "found"}
        /\ disk.desk \in Token \cup {NoToken} /\ disk.cli \in Token \cup {NoToken}
        /\ disk.owner \in Users \cup {None}
    BY <2>1 DEF ManagerOK, Managers, Disks, Tokens
  <2>3. /\ daemon.up \in {"down", "starting", "running"}
        /\ daemon.token \in Token \cup {NoToken} /\ (Alive => daemon.token # NoToken)
    <3>1. NoToken \notin Token
      BY OwnerAssumption DEF Token, NoToken
    <3> QED BY <2>1, <3>1 DEF ManagerOK, Daemons, Tokens
  <2>4. forks \in 0..Cardinality(OpIds) /\ left \in 0..MaxEvents
    <3>1. /\ Cardinality(Awaiting) \in Nat /\ Cardinality(Awaiting) <= Cardinality(OpIds)
      BY OpIdsFinite, FS_Subset, FS_CardinalityType DEF Awaiting
    <3> QED BY <2>1, <3>1, OpIdsFinite DEF ManagerOK, ForksOK
  <2>5. mgr.guard <=> \E o \in OpIds : ops[o].guarded
    BY <2>1 DEF GuardOK
  <2>6. Cardinality({o \in OpIds : ops[o].guarded}) <= 1
    <3> DEFINE G == {o \in OpIds : ops[o].guarded}
    <3>1. CASE G = {}
      <4>1. Cardinality(G) = 0
        BY <3>1, FS_EmptySet
      <4> QED BY <4>1
    <3>2. ASSUME NEW o \in G PROVE Cardinality(G) <= 1
      <4>1. G = {o}
        BY <2>1, <3>2 DEF GuardOK
      <4>2. Cardinality(G) = 1
        BY <4>1, FS_Singleton
      <4> QED BY <4>2
    <3> QED BY <3>1, <3>2
  <2> QED BY <2>2, <2>3, <2>4, <2>5, <2>6 DEF DaemonTypeOK
<1> QED BY <1>1, DaemonInvariant, PTL

(* Once the calls have ended, a daemon that is up runs with a token of the *)
(* signed-in user: the sidecar makes a sync restart the daemon it did not  *)
(* start, and clearToken with the logout's stop leaves none behind.        *)
THEOREM CredentialsFollow == DaemonSpec => []CredentialsFollowUser
<1>1. DaemonInv => CredentialsFollowUser
  <2> SUFFICES ASSUME DaemonInv, Settled, ~muddled, Alive PROVE daemon.token.of = user
    BY DEF CredentialsFollowUser
  <2>1. \A o \in OpIds : ~Repairs(ops[o])
    BY SyncParts DEF Settled
  <2> QED BY <2>1 DEF DaemonInv, Accounts, DaemonRight
<1> QED BY <1>1, DaemonInvariant, PTL

=============================================================================
