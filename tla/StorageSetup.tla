---------------------------- MODULE StorageSetup ----------------------------
(***************************************************************************)
(* The start of a command: configuration, arguments, band, the connections  *)
(* to the five storages, the input file.  The tasks follow one another; the *)
(* first one that fails ends the process.  A server that is unreachable, or *)
(* answers the ping with an error, is pinged again every two seconds; only  *)
(* ClickHouse's answer that the password is wrong ends the process.         *)
(*                                                                         *)
(* Servers go down and come back at any time, also after their ping.       *)
(***************************************************************************)
EXTENDS Naturals, Sequences, FiniteSets

CONSTANT MaxBad    \* bound on what is wrong at the same time

ASSUME SetupAssumption == MaxBad \in Nat

\* storage.Setup, in its order.
Storages == <<"redis", "ns", "as", "clickhouse">>
Handles == {"redis", "ns", "as", "clickhouse", "second"}
Postgres == {"ns", "as"}
Servers == Postgres \union {"clickhouse"}

\* The tasks of each command; "work" is all that the modules named after the
\* commands are about.
TaskList ==
    [restoreSessions |-> <<"config", "band">> \o Storages \o <<"file", "work">>,
     restoreSessionsFromDump |->
        <<"config", "args", "band">> \o Storages \o <<"second", "file", "work">>,
     setSessions |-> <<"config", "file">> \o Storages \o <<"work">>,
     getSessions |-> <<"config", "args", "format">> \o Storages \o <<"work">>]

\* The storages whose handles the work of a command takes.
Uses ==
    [restoreSessions |-> {"redis", "ns", "as", "clickhouse"},
     restoreSessionsFromDump |-> {"redis", "second", "ns", "clickhouse"},
     setSessions |-> {"redis", "ns"},
     getSessions |-> {"redis"}]

\* What can be wrong: a task's file, argument or part of the configuration; for
\* "ns" and "as" that is a DSN that is malformed or names a user, a password or a
\* database that the server does not take.  For ClickHouse it is the address, and
\* apart from that the password, and the database or what else the server answers
\* with an exception of its own.
Inputs ==
    {"config", "args", "format", "band", "file", "password", "database"} \union Handles

VARIABLES
    cmd,        \* the command
    bad,        \* what is wrong
    step,       \* position in the tasks
    ended,      \* how the process ended, or "no"
    handles,    \* the package variables that are not nil
    reachable,  \* servers that answer
    tried       \* history: servers that have been pinged

vars == <<cmd, bad, step, ended, handles, reachable, tried>>

Tasks == TaskList[cmd]
task == Tasks[step]
Running == ended = "no"
Working == Running /\ task = "work"

TypeOK ==
    /\ cmd \in DOMAIN TaskList
    /\ bad \subseteq Inputs /\ Cardinality(bad) <= MaxBad
    /\ step \in 1..Len(Tasks)
    /\ ended \in {"no", "returned", "fatal", "done", "killed"}
    /\ handles \subseteq Handles
    /\ reachable \subseteq Servers /\ tried \subseteq Servers

Init ==
    /\ cmd \in DOMAIN TaskList
    /\ bad \in {b \in SUBSET Inputs : Cardinality(b) <= MaxBad}
    /\ step = 1 /\ ended = "no"
    /\ handles = {} /\ tried = {}
    /\ reachable \in SUBSET Servers

-----------------------------------------------------------------------------

\* Fault: a task too many is left out.
AdvanceTwice == step' = step + 2 /\ UNCHANGED ended

Advance == step' = step + 1 /\ UNCHANGED ended

\* get-sessions returns when its DevEUIs cannot be parsed; every other error is
\* log.Fatal.
End ==
    /\ ended' = IF cmd = "getSessions" /\ task = "args" THEN "returned" ELSE "fatal"
    /\ UNCHANGED step

Perform == IF task \in bad THEN End ELSE Advance

\* initConfig: without any file the defaults are used, which have no second
\* Redis; a file that cannot be read or is malformed is fatal.
InitConfig ==
    /\ Running /\ task = "config"
    /\ Perform
    /\ UNCHANGED <<cmd, bad, handles, reachable, tried>>

\* The date of the dump; the DevEUIs of get-sessions.
ParseArgs ==
    /\ Running /\ task = "args"
    /\ Perform
    /\ UNCHANGED <<cmd, bad, handles, reachable, tried>>

\* "unknown format".
CheckOutputFormat ==
    /\ Running /\ task = "format"
    /\ Perform
    /\ UNCHANGED <<cmd, bad, handles, reachable, tried>>

\* One malformed line of the file is enough, and so is an empty list.
ParseInputFile ==
    /\ Running /\ task = "file"
    /\ Perform
    /\ UNCHANGED <<cmd, bad, handles, reachable, tried>>

\* The name of the band must be one that the library knows, and the extra
\* channels must suit it.
SetupBand ==
    /\ Running /\ task = "band"
    /\ Perform
    /\ UNCHANGED <<cmd, bad, handles, reachable, tried>>

\* One server must be named.  The client connects when it is first used.
NewClient(r) ==
    /\ Running /\ task = r
    /\ Perform
    /\ handles' = IF r \in bad THEN handles ELSE handles \union {r}
    /\ UNCHANGED <<cmd, bad, reachable, tried>>

SetupRedis == NewClient("redis")
SetupSecondRedis == NewClient("second")

\* Fault: a DSN is tried out when it is opened.
OpenTriesDSN ==
    /\ Running /\ task \in Servers \intersect bad
    /\ End
    /\ UNCHANGED <<cmd, bad, handles, reachable, tried>>

\* Neither servers nor host of ClickHouse.  The DSN of Postgres is not looked at
\* before the ping.
OpenFails ==
    /\ Running /\ task = "clickhouse" /\ task \in bad
    /\ End
    /\ UNCHANGED <<cmd, bad, handles, reachable, tried>>

\* What makes a Postgres server or ClickHouse answer each ping with an error that
\* is tried again.  ClickHouse looks at the password first.
Lasting == Postgres \union {"database"}

Rejects(s) ==
    IF s = "clickhouse" THEN "database" \in bad /\ "password" \notin bad ELSE s \in bad

Answers(s) == s \in reachable /\ ~Rejects(s)

Ping(s) ==
    /\ Running /\ task = s
    /\ s = "clickhouse" => s \notin bad
    /\ tried' = tried \union {s}
    /\ UNCHANGED <<cmd, bad, reachable>>

Connected(s) == Advance /\ handles' = handles \union {s}

PingPostgres(s) ==
    /\ Ping(s)
    /\ Answers(s)
    /\ Connected(s)

\* Fault: the loop is left whether or not there was an answer.
RetryPostgresOnce(s) ==
    /\ Ping(s)
    /\ ~Answers(s)
    /\ Advance
    /\ UNCHANGED handles

\* "will retry in 2s".
RetryPostgres(s) ==
    /\ Ping(s)
    /\ ~Answers(s)
    /\ UNCHANGED <<step, ended, handles>>

\* Fault: the rejected password, too, is tried again.
PingClickhouseStubborn ==
    /\ Ping("clickhouse")
    /\ Answers("clickhouse")
    /\ IF "password" \in bad THEN UNCHANGED <<step, ended, handles>>
                             ELSE Connected("clickhouse")

\* Fault: no error of the ping ends the set-up, the loop is left with any answer.
PingClickhouseAnyPassword ==
    /\ Ping("clickhouse")
    /\ Answers("clickhouse")
    /\ Connected("clickhouse")

\* Fault: every exception of a reachable server is returned.
PingClickhouseReturns ==
    /\ Ping("clickhouse")
    /\ "clickhouse" \in reachable
    /\ IF {"password", "database"} \intersect bad # {}
          THEN End /\ UNCHANGED handles
          ELSE Connected("clickhouse")

\* Exception 516 says that the password is wrong.
PingClickhouse ==
    /\ Ping("clickhouse")
    /\ Answers("clickhouse")
    /\ IF "password" \in bad THEN End /\ UNCHANGED handles
                             ELSE Connected("clickhouse")

\* Fault: every error of the ping is returned.
RetryClickhouseReturns ==
    /\ Ping("clickhouse")
    /\ ~Answers("clickhouse")
    /\ End
    /\ UNCHANGED handles

\* No answer, or another exception: "will retry in 2s".
RetryClickhouse ==
    /\ Ping("clickhouse")
    /\ ~Answers("clickhouse")
    /\ UNCHANGED <<step, ended, handles>>

Work ==
    /\ Working
    /\ ended' = "done"
    /\ UNCHANGED <<cmd, bad, step, handles, reachable, tried>>

\* An operator who has waited long enough.
Kill ==
    /\ Running
    /\ ended' = "killed"
    /\ UNCHANGED <<cmd, bad, step, handles, reachable, tried>>

Fail(s) ==
    /\ s \in reachable
    /\ reachable' = reachable \ {s}
    /\ UNCHANGED <<cmd, bad, step, ended, handles, tried>>

Recover(s) ==
    /\ s \notin reachable
    /\ reachable' = reachable \union {s}
    /\ UNCHANGED <<cmd, bad, step, ended, handles, tried>>

Step ==
    \/ InitConfig \/ ParseArgs \/ CheckOutputFormat \/ SetupBand
    \/ SetupRedis \/ SetupSecondRedis \/ ParseInputFile \/ OpenFails
    \/ \E s \in Postgres : PingPostgres(s) \/ RetryPostgres(s)
    \/ PingClickhouse \/ RetryClickhouse
    \/ Work

Next ==
    \/ Step
    \/ Kill
    \/ \E s \in Servers : Fail(s) \/ Recover(s)

\* The process runs; nothing is assumed of the servers or of the operator.
Spec == Init /\ [][Next]_vars /\ WF_vars(Step)

-----------------------------------------------------------------------------
(* Properties.                                                             *)

\* What is wrong that this command comes across.
Obstacles ==
    bad \intersect
        ({Tasks[i] : i \in DOMAIN Tasks} \union {"password", "database"})

\* No command works with a package variable that is still nil, whatever has
\* been down on the way: DBLogger's methods would panic.
UsesAreConnected == ended = "done" \/ Working => Uses[cmd] \subseteq handles

\* Neither an unreachable server nor one that turns the tool away is ever the
\* reason for an exit, but for ClickHouse's rejected password: the reason is in the
\* rest of the configuration, in the arguments or in the file.  Nor does a command
\* get through its work with any input wrong, also if the work itself would never
\* have come across it.
OutcomeFollowsInput ==
    /\ ended \in {"returned", "fatal"} => Obstacles \ Lasting # {}
    /\ ended = "done" => Obstacles = {}

\* The servers are not tried side by side: as long as one has not answered nobody
\* has asked the later ones, not even a command that needs only these.
LaterServersWait ==
    \A i, j \in DOMAIN Storages :
        i < j /\ Storages[j] \in tried \union handles => Storages[i] \in handles

\* The command has come to a server that turns it away whenever it is asked.
TurnedAway == Running /\ task \in Servers /\ Rejects(task)

\* If the servers come back for good, the command gets to its work and through
\* it, or to the error of its input, or it stays for ever, until it is killed, with
\* a server that turns it away: a wrong DSN or database is not told from a server
\* that is down, while a password that ClickHouse rejects is not tried again.
SetupSettles ==
    <>[](reachable = Servers) =>
        <>[](\/ ended = "killed"
             \/ ended = "done" /\ Obstacles = {}
             \/ ended \in {"fatal", "returned"} /\ Obstacles \ Lasting # {}
             \/ TurnedAway)
=============================================================================
