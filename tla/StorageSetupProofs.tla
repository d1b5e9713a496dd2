------------------------- MODULE StorageSetupProofs -------------------------
(***************************************************************************)
(* Proofs about StorageSetup, whatever is wrong with the input and however  *)
(* often servers go down and come back.                                     *)
(***************************************************************************)
EXTENDS StorageSetup, TLAPS

USE SetupAssumption

-----------------------------------------------------------------------------
(* The tasks of the commands.                                              *)

Commands == {"restoreSessions", "restoreSessionsFromDump", "setSessions", "getSessions"}

LEMMA TheCommands == DOMAIN TaskList = Commands /\ DOMAIN Uses = Commands
BY DEF TaskList, Uses, Commands

LEMMA TasksOfRestore ==
  LET t == TaskList["restoreSessions"] IN
  /\ Len(t) = 8
  /\ t[1] = "config" /\ t[2] = "band"
  /\ t[3] = "redis" /\ t[4] = "ns" /\ t[5] = "as" /\ t[6] = "clickhouse"
  /\ t[7] = "file" /\ t[8] = "work"
BY DEF TaskList, Storages

LEMMA TasksOfDump ==
  LET t == TaskList["restoreSessionsFromDump"] IN
  /\ Len(t) = 10
  /\ t[1] = "config" /\ t[2] = "args" /\ t[3] = "band"
  /\ t[4] = "redis" /\ t[5] = "ns" /\ t[6] = "as" /\ t[7] = "clickhouse"
  /\ t[8] = "second" /\ t[9] = "file" /\ t[10] = "work"
BY DEF TaskList, Storages

LEMMA TasksOfSet ==
  LET t == TaskList["setSessions"] IN
  /\ Len(t) = 7
  /\ t[1] = "config" /\ t[2] = "file"
  /\ t[3] = "redis" /\ t[4] = "ns" /\ t[5] = "as" /\ t[6] = "clickhouse"
  /\ t[7] = "work"
BY DEF TaskList, Storages

LEMMA TasksOfGet ==
  LET t == TaskList["getSessions"] IN
  /\ Len(t) = 8
  /\ t[1] = "config" /\ t[2] = "args" /\ t[3] = "format"
  /\ t[4] = "redis" /\ t[5] = "ns" /\ t[6] = "as" /\ t[7] = "clickhouse"
  /\ t[8] = "work"
BY DEF TaskList, Storages

\* The work comes last, behind all that it uses; a storage comes behind those that
\* Setup connects before it.
Ordered(t, uses) ==
    /\ Len(t) \in Nat \ {0}
    /\ \A p \in 1..Len(t) : t[p] = "work" <=> p = Len(t)
    /\ \A u \in uses : \E p \in 1..(Len(t) - 1) : t[p] = u
    /\ \A p \in 1..Len(t) : \A i, j \in 1..4 :
          i < j /\ t[p] = Storages[j] => \E q \in 1..(p - 1) : t[q] = Storages[i]
    /\ DOMAIN t = 1..Len(t)

LEMMA TasksAreOrdered == ASSUME NEW c \in Commands PROVE Ordered(TaskList[c], Uses[c])
<1> DEFINE t == TaskList[c]
<1>0. DOMAIN t = 1..Len(t)
  BY DEF TaskList, Storages, Commands
<1>1. CASE c = "restoreSessions"
  <2>1. Uses[c] = {"redis", "ns", "as", "clickhouse"}
    BY <1>1 DEF Uses
  <2> QED
    BY <1>0, <1>1, <2>1, TasksOfRestore DEF Ordered, Storages
<1>2. CASE c = "restoreSessionsFromDump"
  <2>1. Uses[c] = {"redis", "second", "ns", "clickhouse"}
    BY <1>2 DEF Uses
  <2> QED
    BY <1>0, <1>2, <2>1, TasksOfDump DEF Ordered, Storages
<1>3. CASE c = "setSessions"
  <2>1. Uses[c] = {"redis", "ns"}
    BY <1>3 DEF Uses
  <2> QED
    BY <1>0, <1>3, <2>1, TasksOfSet DEF Ordered, Storages
<1>4. CASE c = "getSessions"
  <2>1. Uses[c] = {"redis"}
    BY <1>4 DEF Uses
  <2> QED
    BY <1>0, <1>4, <2>1, TasksOfGet DEF Ordered, Storages
<1> QED
  BY <1>1, <1>2, <1>3, <1>4 DEF Commands

-----------------------------------------------------------------------------
(* Connections.                                                            *)

Passed == {Tasks[p] : p \in 1..(step - 1)}

\* What has been passed is connected, and nothing is touched before its turn.
Connections ==
    /\ Passed \intersect Handles \subseteq handles
    /\ tried \union handles \subseteq {Tasks[p] : p \in 1..step}
    /\ ended = "done" => task = "work"

\* An exit has a reason that is not a server.
OnlyBadInputIsFatal == ended \in {"returned", "fatal"} => Obstacles \ Lasting # {}

SetupInv == TypeOK /\ Connections /\ OnlyBadInputIsFatal

LEMMA Positions ==
  ASSUME NEW n \in Nat, NEW k \in 1..n
  PROVE  /\ k # n => k + 1 \in 1..n
         /\ \A p \in 1..k : p \in 1..n
OBVIOUS

LEMMA Here ==
  ASSUME TypeOK
  PROVE  /\ Ordered(Tasks, Uses[cmd]) /\ step \in 1..Len(Tasks) /\ Len(Tasks) \in Nat
         /\ DOMAIN Tasks = 1..Len(Tasks)
         /\ task # "work" => step + 1 \in 1..Len(Tasks)
<1>1. Ordered(Tasks, Uses[cmd]) /\ step \in 1..Len(Tasks)
  BY TheCommands, TasksAreOrdered DEF TypeOK, Tasks
<1>2. /\ Len(Tasks) \in Nat /\ DOMAIN Tasks = 1..Len(Tasks)
      /\ Tasks[step] = "work" <=> step = Len(Tasks)
  BY <1>1 DEF Ordered
<1>3. task # "work" => step # Len(Tasks)
  BY <1>2 DEF task
<1>4. step # Len(Tasks) => step + 1 \in 1..Len(Tasks)
  BY <1>1, <1>2, Positions
<1> QED
  BY <1>1, <1>2, <1>3, <1>4

\* Everything but the position, the end and the connections.
Frame == UNCHANGED <<cmd, bad, reachable>>

\* An exit without a connection; what is wrong is in the way of this command.
LEMMA EndKeeps ==
  ASSUME SetupInv, Frame, End, UNCHANGED handles, Running,
         tried' = tried \/ tried' = tried \union {task}, tried' \subseteq Servers,
         (task \in bad /\ task \notin Lasting) \/ "password" \in bad
  PROVE  SetupInv'
<1>1. TypeOK' /\ Tasks' = Tasks /\ task' = task
  BY DEF SetupInv, TypeOK, Frame, End, Tasks, task
<1>2. step \in 1..step /\ step \in DOMAIN Tasks
  BY Here DEF SetupInv
<1>3. Connections'
  BY <1>1, <1>2 DEF SetupInv, Connections, End, Passed, task
<1>4. Obstacles' \ Lasting # {}
  BY <1>1, <1>2 DEF Obstacles, Frame, task, Lasting, Postgres
<1> QED
  BY <1>1, <1>3, <1>4 DEF SetupInv, OnlyBadInputIsFatal

\* The next task; if this one was a storage it is connected.
LEMMA AdvanceKeeps ==
  ASSUME SetupInv, Frame, Advance, Running, task # "work",
         handles' = handles \/ handles' = handles \union {task}, handles' \subseteq Handles,
         tried' = tried \/ tried' = tried \union {task}, tried' \subseteq Servers,
         task \in Handles => task \in handles'
  PROVE  SetupInv'
<1>1. /\ step + 1 \in 1..Len(Tasks) /\ step \in 1..Len(Tasks) /\ step' = step + 1
      /\ Tasks' = Tasks /\ Tasks[step] = task
  BY Here DEF SetupInv, Advance, Frame, Tasks, task
<1>2. TypeOK' /\ ended' = ended /\ ended' = "no"
  BY <1>1 DEF SetupInv, TypeOK, Frame, Advance, Running
<1>3. Connections'
  <2>1. \A p \in 1..(step' - 1) : p \in 1..(step - 1) \/ p = step
    BY <1>1
  <2>2. Passed' \subseteq Passed \union {task}
    BY <1>1, <2>1 DEF Passed
  <2>3. \A p \in 1..step : p \in 1..step'
    BY <1>1
  <2>4. step \in 1..step'
    BY <1>1
  <2>5. {Tasks[p] : p \in 1..step} \union {task} \subseteq {Tasks'[p] : p \in 1..step'}
    BY <1>1, <2>3, <2>4
  <2>6. /\ Passed \intersect Handles \subseteq handles
        /\ tried \union handles \subseteq {Tasks[p] : p \in 1..step}
    BY DEF SetupInv, Connections
  <2>7. Passed' \intersect Handles \subseteq handles'
    BY <2>2, <2>6
  <2>8. tried' \union handles' \subseteq {Tasks'[p] : p \in 1..step'}
    BY <2>5, <2>6
  <2> QED
    BY <1>2, <2>7, <2>8 DEF Connections
<1> QED
  BY <1>2, <1>3 DEF SetupInv, OnlyBadInputIsFatal

\* A ping without an answer.
LEMMA WaitKeeps ==
  ASSUME SetupInv, UNCHANGED <<cmd, bad, step, ended, handles>>,
         reachable' \subseteq Servers,
         tried' = tried \/ tried' = tried \union {task}, tried' \subseteq Servers
  PROVE  SetupInv'
<1>1. Tasks' = Tasks /\ task' = task /\ Tasks[step] = task /\ step \in 1..step
  BY Here DEF SetupInv, Tasks, task
<1>2. TypeOK'
  BY <1>1 DEF SetupInv, TypeOK
<1>3. Connections'
  BY <1>1 DEF SetupInv, Connections, Passed
<1>4. OnlyBadInputIsFatal'
  BY <1>1 DEF SetupInv, OnlyBadInputIsFatal, Obstacles
<1> QED
  BY <1>2, <1>3, <1>4 DEF SetupInv

LEMMA SetupInvStep == SetupInv /\ [Next]_vars => SetupInv'
<1> SUFFICES ASSUME SetupInv, [Next]_vars PROVE SetupInv'
  OBVIOUS
<1>0. tried \subseteq Servers /\ handles \subseteq Handles /\ reachable \subseteq Servers
  BY DEF SetupInv, TypeOK
<1>1. CASE InitConfig \/ ParseArgs \/ CheckOutputFormat \/ ParseInputFile \/ SetupBand
  <2>1. /\ task \in {"config", "args", "format", "file", "band"} /\ Running /\ Perform
        /\ Frame /\ UNCHANGED <<handles, tried>>
    BY <1>1
    DEF InitConfig, ParseArgs, CheckOutputFormat, ParseInputFile, SetupBand, Frame
  <2>2. task \notin Handles /\ task # "work" /\ task \notin Lasting
    BY <2>1 DEF Handles, Lasting, Postgres
  <2>3. CASE task \in bad /\ End
    BY <1>0, <2>1, <2>2, <2>3, EndKeeps
  <2>4. CASE Advance
    BY <1>0, <2>1, <2>2, <2>4, AdvanceKeeps
  <2> QED
    BY <2>1, <2>3, <2>4 DEF Perform
<1>2. ASSUME NEW r \in {"redis", "second"}, NewClient(r) PROVE SetupInv'
  <2>1. /\ task = r /\ Running /\ Perform /\ Frame /\ UNCHANGED tried
        /\ r \in Handles /\ r # "work" /\ r \notin Lasting
        /\ handles' = IF r \in bad THEN handles ELSE handles \union {r}
    BY <1>2 DEF NewClient, Frame, Handles, Lasting, Postgres
  <2>2. CASE r \in bad
    BY <1>0, <2>1, <2>2, EndKeeps DEF Perform
  <2>3. CASE r \notin bad
    BY <1>0, <2>1, <2>3, AdvanceKeeps DEF Perform
  <2> QED
    BY <2>2, <2>3
<1>3. CASE OpenFails
  <2>1. task \in bad /\ task \notin Lasting /\ Running /\ End /\ Frame
        /\ UNCHANGED <<handles, tried>>
    BY <1>3 DEF OpenFails, Frame, Lasting, Postgres
  <2> QED
    BY <1>0, <2>1, EndKeeps
<1>4. ASSUME NEW s \in Servers, Ping(s), Connected(s) PROVE SetupInv'
  <2>1. /\ task = s /\ Running /\ Advance /\ Frame
        /\ handles' = handles \union {s} /\ tried' = tried \union {s}
        /\ s \in Handles /\ s # "work"
    BY <1>4 DEF Ping, Connected, Frame, Servers, Postgres, Handles
  <2> QED
    BY <1>0, <2>1, AdvanceKeeps
<1>5. ASSUME NEW s \in Servers, Ping(s), UNCHANGED <<step, ended, handles>> PROVE SetupInv'
  BY <1>0, <1>5, WaitKeeps DEF Ping
<1>6. ASSUME Ping("clickhouse"), "password" \in bad, End, UNCHANGED handles PROVE SetupInv'
  <2>1. task = "clickhouse" /\ Running /\ Frame /\ tried' = tried \union {task}
        /\ "clickhouse" \in Servers
    BY <1>6 DEF Ping, Frame, Servers
  <2> QED
    BY <1>0, <1>6, <2>1, EndKeeps
<1>7. ASSUME NEW s \in Postgres, PingPostgres(s) \/ RetryPostgres(s) PROVE SetupInv'
  BY <1>4, <1>5, <1>7 DEF PingPostgres, RetryPostgres, Servers
<1>8. CASE PingClickhouse \/ RetryClickhouse
  <2>1. "clickhouse" \in Servers
    BY DEF Servers
  <2> QED
    BY <1>4, <1>5, <1>6, <1>8, <2>1 DEF PingClickhouse, RetryClickhouse
<1>9. CASE Work \/ Kill
  <2>1. /\ UNCHANGED <<cmd, bad, step, handles, reachable, tried>>
        /\ ended' \in {"done", "killed"}
        /\ ended' = "done" => task = "work"
    BY <1>9 DEF Work, Kill, Working
  <2>2. Tasks' = Tasks /\ task' = task
    BY <2>1 DEF Tasks, task
  <2>3. TypeOK'
    BY <2>1, <2>2 DEF SetupInv, TypeOK
  <2> QED
    BY <2>1, <2>2, <2>3 DEF SetupInv, Connections, Passed, OnlyBadInputIsFatal
<1>10. ASSUME NEW s \in Servers, Fail(s) \/ Recover(s) PROVE SetupInv'
  BY <1>0, <1>10, WaitKeeps DEF Fail, Recover
<1>11. CASE UNCHANGED vars
  BY <1>0, <1>11, WaitKeeps DEF vars
<1> QED
  BY <1>1, <1>2, <1>3, <1>7, <1>8, <1>9, <1>10, <1>11
  DEF Next, Step, SetupRedis, SetupSecondRedis

LEMMA SetupInvAlways == Spec => []SetupInv
<1>1. Init => SetupInv
  <2> SUFFICES ASSUME Init PROVE SetupInv
    OBVIOUS
  <2>1. Ordered(Tasks, Uses[cmd]) /\ step = 1
    BY TheCommands, TasksAreOrdered DEF Init, Tasks
  <2>2. TypeOK
    <3>1. Len(Tasks) \in Nat \ {0}
      BY <2>1 DEF Ordered
    <3>2. step \in 1..Len(Tasks)
      BY <2>1, <3>1
    <3> QED
      BY <3>2 DEF Init, TypeOK
  <2>3. 1..(step - 1) = {}
    BY <2>1
  <2> QED
    BY <2>2, <2>3 DEF Init, SetupInv, Connections, Passed, OnlyBadInputIsFatal
<1> QED
  BY <1>1, SetupInvStep, PTL DEF Spec

\* Every reachable state of a start is well typed.
THEOREM TypeCorrect == Spec => []TypeOK
<1>1. SetupInv => TypeOK
  BY DEF SetupInv
<1> QED
  BY <1>1, SetupInvAlways, PTL

\* No command works with a connection it lacks, wherever it waited on the way.
THEOREM WorkIsConnected == Spec => []UsesAreConnected
<1>1. SetupInv => UsesAreConnected
  <2> SUFFICES ASSUME SetupInv, task = "work", NEW u \in Uses[cmd] PROVE u \in handles
    BY DEF UsesAreConnected, SetupInv, Connections, Working
  <2>1. Ordered(Tasks, Uses[cmd]) /\ step \in 1..Len(Tasks)
    BY Here DEF SetupInv
  <2>2. step = Len(Tasks)
    BY <2>1 DEF Ordered, task
  <2>3. u \in Passed
    BY <2>1, <2>2 DEF Ordered, Passed
  <2>4. u \in Handles
    <3>1. Uses[cmd] \subseteq Handles
      BY TheCommands DEF SetupInv, TypeOK, Uses, Handles, Commands
    <3> QED
      BY <3>1
  <2> QED
    BY <2>3, <2>4 DEF SetupInv, Connections
<1> QED
  BY <1>1, SetupInvAlways, PTL

\* One silent server keeps all later ones from being asked.
THEOREM ServersAreTriedInOrder == Spec => []LaterServersWait
<1>1. SetupInv => LaterServersWait
  <2> SUFFICES ASSUME SetupInv, NEW i \in DOMAIN Storages, NEW j \in DOMAIN Storages, i < j,
                      Storages[j] \in tried \union handles
               PROVE  Storages[i] \in handles
    BY DEF LaterServersWait
  <2>1. Ordered(Tasks, Uses[cmd]) /\ step \in 1..Len(Tasks) /\ Len(Tasks) \in Nat
    BY Here DEF SetupInv
  <2>2. PICK p \in 1..step : Tasks[p] = Storages[j]
    BY DEF SetupInv, Connections
  <2>3. DOMAIN Storages = 1..4
    BY DEF Storages
  <2>4. PICK q \in 1..(p - 1) : Tasks[q] = Storages[i]
    <3>1. p \in 1..Len(Tasks)
      BY <2>1, <2>2, Positions
    <3>2. \A k \in 1..Len(Tasks) : \A m, n \in 1..4 :
             m < n /\ Tasks[k] = Storages[n] => \E q \in 1..(k - 1) : Tasks[q] = Storages[m]
      BY <2>1 DEF Ordered
    <3> QED
      BY <2>2, <2>3, <3>1, <3>2
  <2>5. q \in 1..(step - 1)
    BY <2>1, <2>2, <2>4
  <2>6. Storages[i] \in Handles
    BY <2>3 DEF Storages, Handles
  <2> QED
    BY <2>4, <2>5, <2>6 DEF SetupInv, Connections, Passed
<1> QED
  BY <1>1, SetupInvAlways, PTL
-----------------------------------------------------------------------------
(* What is wrong is met before the work.                                   *)

LEMMA ClickhouseIsOnTheWay ==
  ASSUME NEW c \in Commands
  PROVE  \E p \in 1..(Len(TaskList[c]) - 1) : TaskList[c][p] = "clickhouse"
<1>1. CASE c = "restoreSessions"
  BY <1>1, TasksOfRestore
<1>2. CASE c = "restoreSessionsFromDump"
  BY <1>2, TasksOfDump
<1>3. CASE c = "setSessions"
  BY <1>3, TasksOfSet
<1>4. CASE c = "getSessions"
  BY <1>4, TasksOfGet
<1> QED
  BY <1>1, <1>2, <1>3, <1>4 DEF Commands

\* A task with which nothing is wrong; ClickHouse also asks for the password and the
\* database.
Good(t) ==
    t \notin bad /\ (t = "clickhouse" => "password" \notin bad /\ "database" \notin bad)

PassedIsGood == \A t \in Passed : Good(t)

\* The position moves by one task, and only past a good one.
LEMMA OnlyGoodIsPassed ==
  ASSUME SetupInv, [Next]_vars
  PROVE  /\ UNCHANGED <<cmd, bad>>
         /\ step' = step \/ (step' = step + 1 /\ Good(task))
<1>1. ASSUME Running, UNCHANGED <<cmd, bad>>, Perform, task # "clickhouse"
      PROVE  step' = step \/ (step' = step + 1 /\ Good(task))
  BY <1>1 DEF Perform, End, Advance, Good
<1>2. CASE InitConfig \/ ParseArgs \/ CheckOutputFormat \/ ParseInputFile \/ SetupBand
  BY <1>1, <1>2 DEF InitConfig, ParseArgs, CheckOutputFormat, ParseInputFile, SetupBand
<1>3. ASSUME NEW r \in {"redis", "second"}, NewClient(r)
      PROVE  /\ UNCHANGED <<cmd, bad>>
             /\ step' = step \/ (step' = step + 1 /\ Good(task))
  BY <1>1, <1>3 DEF NewClient
<1>4. CASE OpenFails
  BY <1>4 DEF OpenFails, End
<1>5. ASSUME NEW s \in Postgres, PingPostgres(s) \/ RetryPostgres(s)
      PROVE  /\ UNCHANGED <<cmd, bad>>
             /\ step' = step \/ (step' = step + 1 /\ Good(task))
  BY <1>5
  DEF PingPostgres, RetryPostgres, Ping, Answers, Rejects, Connected, Advance, Good, Postgres
<1>6. CASE PingClickhouse \/ RetryClickhouse
  BY <1>6
  DEF PingClickhouse, RetryClickhouse, Ping, Answers, Rejects, Connected, Advance, End, Good
<1>7. CASE Work \/ Kill
  BY <1>7 DEF Work, Kill
<1>8. ASSUME NEW s \in Servers, Fail(s) \/ Recover(s)
      PROVE  UNCHANGED <<cmd, bad, step>>
  BY <1>8 DEF Fail, Recover
<1>9. CASE UNCHANGED vars
  BY <1>9 DEF vars
<1> QED
  BY <1>2, <1>3, <1>4, <1>5, <1>6, <1>7, <1>8, <1>9
  DEF Next, Step, SetupRedis, SetupSecondRedis

LEMMA PassedIsGoodStep == SetupInv /\ PassedIsGood /\ [Next]_vars => PassedIsGood'
<1> SUFFICES ASSUME SetupInv, PassedIsGood, [Next]_vars PROVE PassedIsGood'
  OBVIOUS
<1>1. /\ UNCHANGED <<cmd, bad>>
      /\ step' = step \/ (step' = step + 1 /\ Good(task))
  BY OnlyGoodIsPassed
<1>2. step \in Nat /\ Tasks' = Tasks /\ task = Tasks[step]
  BY <1>1, Here DEF SetupInv, Tasks, task
<1>3. Passed' \subseteq Passed \union {task}
  <2>1. CASE step' = step
    BY <1>2, <2>1 DEF Passed
  <2>2. CASE step' = step + 1
    <3>1. \A p \in 1..(step' - 1) : p \in 1..(step - 1) \/ p = step
      BY <1>2, <2>2
    <3> QED
      BY <1>2, <3>1 DEF Passed
  <2> QED
    BY <1>1, <2>1, <2>2
<1>4. CASE step' = step
  BY <1>1, <1>2, <1>4 DEF PassedIsGood, Passed, Good
<1>5. CASE Good(task)
  BY <1>1, <1>3, <1>5 DEF PassedIsGood, Good
<1> QED
  BY <1>1, <1>4, <1>5

\* A server that is down or turns the tool away, for however long, never makes a
\* command exit, unless it is ClickHouse with a wrong password; and a command that
\* has done its work had nothing wrong with any of its input, what concerns only a
\* server that it never asks anything included.
THEOREM OutcomesFollowInput == Spec => []OutcomeFollowsInput
<1>1. Init => PassedIsGood
  <2> SUFFICES ASSUME Init PROVE PassedIsGood
    OBVIOUS
  <2>1. 1..(step - 1) = {}
    BY DEF Init
  <2> QED
    BY <2>1 DEF PassedIsGood, Passed
<1>2. SetupInv /\ PassedIsGood => OutcomeFollowsInput
  <2> SUFFICES ASSUME SetupInv, PassedIsGood, ended = "done", NEW b \in Obstacles
               PROVE  FALSE
    BY DEF OutcomeFollowsInput, SetupInv, OnlyBadInputIsFatal
  <2>1. task = "work"
    BY DEF SetupInv, Connections
  <2>2. /\ Ordered(Tasks, Uses[cmd]) /\ step \in 1..Len(Tasks)
        /\ DOMAIN Tasks = 1..Len(Tasks) /\ Len(Tasks) \in Nat
    BY Here DEF SetupInv
  <2>3. step = Len(Tasks)
    BY <2>1, <2>2 DEF Ordered, task
  <2>4. "clickhouse" \in Passed
    <3>1. cmd \in Commands
      BY TheCommands DEF SetupInv, TypeOK
    <3> QED
      BY <2>3, <3>1, ClickhouseIsOnTheWay DEF Passed, Tasks
  <2>5. CASE b \in {"password", "database"}
    BY <2>4, <2>5 DEF PassedIsGood, Good, Obstacles
  <2>6. ASSUME NEW p \in DOMAIN Tasks, b = Tasks[p] PROVE FALSE
    <3>1. b \in bad /\ "work" \notin bad
      BY DEF Obstacles, SetupInv, TypeOK, Inputs, Handles
    <3>2. p # Len(Tasks)
      BY <2>1, <2>3, <2>6, <3>1 DEF task
    <3>3. p \in 1..(step - 1)
      BY <2>2, <2>3, <3>2
    <3> QED
      BY <2>6, <3>1, <3>3 DEF PassedIsGood, Passed, Good
  <2> QED
    BY <2>5, <2>6 DEF Obstacles
<1> QED
  BY <1>1, <1>2, SetupInvAlways, PassedIsGoodStep, PTL DEF Spec
=============================================================================
