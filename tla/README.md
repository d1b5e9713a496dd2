# A TLA+ model of wrenches

`wrenches` is a command-line tool for a LoRaWAN platform built on ChirpStack.
Its commands read and write the *device-sessions* that the network-server keeps
in Redis: the address, keys and frame counters with which a device and the
network talk until the device joins again.  A session is lost when Redis loses
its data; a device without one is silent until it joins, which may take months.
The tool puts sessions back, from the databases of the platform
(`restore-sessions`), from a dump of Redis (`restore-sessions-from-dump`) or from
a CSV file (`set-sessions`), while the network-server goes on working.  A wrong
session is worse than none: a reused counter, keys of two activations, or a live
session overwritten silences a device that was working.

This directory holds the TLA+ modules, the TLC configurations and the TLAPS
proofs about that code.

## The system

| Component | Source (`src/`) | State | Operations | Speaks to |
|---|---|---|---|---|
| Session keys | `internal/storage/device_session.go` | `lora:ns:devaddr:<a>`: set of DevEUIs; `lora:ns:<band>:device:<d>`: session; each with a TTL | `GetDeviceSession` 233, `SaveDeviceSession` 255 | Redis |
| MAC-command queue | `internal/storage/mac_command.go` | `lora:ns:device:<d>:mac:queue` | `FlushMACCommandQueue` 28 | Redis |
| Session conversions | `device_session.go` 304-575, `device_session.proto` | none | to and from protobuf and CSV | |
| NS, AS and log queries | `ns_device.go`, `as_device.go`, `click.go`, `errors.go` | rows written by others | `GetDeviceFromNS`, `GetDeviceProfileFromNS`, `GetLastDeviceActivation`, `GetDeviceFromAS`, `GetLastFrameForDevEui` | PostgreSQL, ClickHouse |
| Storage setup | `storage.go`, `db.go`, `click.go` 70 | package variables: clients, TTL | `Setup`, `SetupSecondRedis`: retry loops without end | all servers |
| `restore-sessions` | `cmd/app/cmd/restore_sessions.go` | `restoreSession`: `devList`, `sessions` | parse, prepare, create | queries, session keys, queue |
| `restore-sessions-from-dump` | `cmd/app/cmd/restore_sessions_redis.go` | the same and `dumpDT` | parse, prepare, create | and a second Redis |
| `set-sessions` | `cmd/app/cmd/set_sessions.go` | `setSessionCtx.inputData` | parse CSV, prepare and save | NS query, session keys, queue |
| `get-sessions` | `cmd/app/cmd/get_sessions.go` | `getSessionCtx` | read, marshal, write a file | session keys |
| Band | `internal/band/band.go` | the band of the library | `Setup`, `Band` | lorawan library |
| Configuration | `internal/config`, `root.go` 104, `configfile.go` | the configuration | `initConfig`; `configfile` prints it | files |
| `plcrypt`, `version`, root | the rest of `cmd/app` | none | one library call or a print each | |

The tool is one process with one goroutine per run, so nothing in it is
concurrent; everything around it is.  All commands share the storage package and
meet only in the databases, with each other and with the network-server.

**What is hard.**  A run first *prepares* every session of its list, with five or
six queries each to four servers, and only then *creates* them: minutes can lie
between what was read and what is written, and each database shows a different
moment.  A save is two or three Redis transactions, deliberately not one (Redis
Cluster).  A run can be killed, or exits on the first Redis error, at any point,
and is then started again with the same list.  Lists contain duplicates.  The
network-server meanwhile handles joins, uplinks and downlinks for the same
devices, writes its log in batches and forgets keys.  `PROJECT.json` lists the
hazards, each at its line, with the properties that watch it.

**What makes each component correct.**

* Session keys: a stored session can be found through its address.
* Restoring: never a session of mixed or old keys, never over a session that is
  as new, no counter used twice, no device locked out, no queue inherited, and a
  device whose data is complete gets its session, whatever befalls the others.
* Restoring from a dump: the same, and nothing older than the last join.
* Moving sessions through a file: the counters are ahead of both sides if the
  increases cover what was counted since the export, however often a file is
  imported; a damaged row spoils one device at most, its own or the one whose
  DevEUI its own has become, and only if no error tells.
* Conversions: what is written is what is read.
* Set-up: no work without its connections, no exit for a server that is down, and
  with all servers up and nothing wrong it gets to the work.

## Modules

```
SessionKeys --+-- SessionStore ----- MCSessionStore, SessionStoreProofs
              |
              +-- NetworkServer --+-- RestoreSessions -- MCRestoreSessions
                                  |        |  implements SessionLifecycle
                                  +-- RestoreFromDump -- MCRestoreFromDump
                                  |        |  implements SessionLifecycle
                                  +-- MoveSessions ----- MCMoveSessions

SessionCodec ---- MCSessionCodec, SessionCodecProofs
StorageSetup ---- StorageSetupProofs
```

`NetworkServerProofs` holds what the proofs about the three commands share;
`RestoreSessionsProofs`, `RestoreFromDumpProofs` and `MoveSessionsProofs` extend it and
the module they are named after.  The first group is about what happens to the
keys of Redis, the other modules about what happens inside the tool; they have no
state in common with the first group and are modules of their own.

### SessionKeys

The two families of keys as two functions, and what one Redis command does to
them: `SAdd`, `SetSession`, `DoesNotExist` (a GET that answers `redis.Nil`).

### SessionStore: `SaveDeviceSession` by several clients

`SaveDeviceSession(c, d, s)` is the call, `IndexDevAddr`, `IndexPendingDevAddr`
(only for a session with a pending rejoin session) and `WriteSession` the
transactions, `Abort` a client that stops inside.  An error answered by Redis
makes every command exit, so it is `Abort` before or after the step.  Times to
live are kept as what is left of them (`setLeft`, `sessLeft`) and counted down by
`Tick`: there is no clock to bound.  `TTL = 0`, which the configuration allows, is
modelled as Redis has it: PEXPIRE deletes the set, SET makes a key that stays.

### NetworkServer: what is around the tool

Nothing of it is in the repository.  Each action is what the rows and keys that
`internal/storage` reads and writes say about it: `Join` (a row of
`device_activation`, a new session, an empty queue), `AppServerLearns` (the AS row
follows later), `UplinkAccepted`, `UplinkDropped`, `Downlink`, `EnqueueMac`, and
`LoseSession`, the reason the tool exists.  The activations of a device are
numbered; the number stands for the address and the keys it made.  `LogComplete`
says whether every frame is in ClickHouse before the tool looks.  The queries of
`internal/storage` are the operators of the same names, true when the query
finds its row.

### RestoreSessions: the command `restore-sessions`

| Action | Code (`restore_sessions.go`) |
|---|---|
| `Start` | `restoreSessions` 58, set-up and `parseInputFile` 100 |
| `ReadAS`, `ReadNS`, `ReadProfile`, `ReadActivation`, `ReadRX`, `ReadTX` | one query each of `prepareDeviceSessions` 140, with its `continue` |
| `Assemble` | the session literal 189-220: keys, address, counters |
| `NextDevice`, `Skip` | the loop 142; its end, and the early return 300 |
| `QueryFails` | any other query error, which skips too |
| `Check` | `GetDeviceSession` 306, `continue` if there is one |
| `Index`, `Set` | the transactions of `SaveDeviceSession` called at 315 |
| `Flush` | `FlushMACCommandQueue` 319 |
| `NextSession`, `Exit` | the loop 304, the end of the process |
| `Abort` | killed, or `log.Fatal` on a Redis error |

Between any two of them every action of `NetworkServer` can happen, except that
`JoinsDuringRun` and `LossDuringRun` switch joins and losses off during a run for
the properties that need it.  Four variables are history: `faulted` (the present run
has failed), `interrupted` (devices for which a run has saved but not flushed),
`overtaken` (devices that joined, or had a frame counted, after this run had read the
row that tells) and `behind` (devices to which a run gave a session made of such rows
because `Check`, or a join since then, did not prevent it; until their next join).

Abstracted: the radio settings and channels of a session (189-277), which no
property here reads; times to live, as a run is short against 31 days.

### RestoreFromDump: the command `restore-sessions-from-dump`

The same shape in another order: `Check` comes first, in the prepare phase;
`ReadDump` reads the second Redis; `ReadActivation` compares the last join with
the date of the dump; `ReadRX` and `ReadTX` improve the counters or keep the
dumped ones; the create phase is `Index`, `IndexPending` and `Set`, for 264-266 are
commented out.  A dumped session can hold the session of a pending rejoin, which has
an address of its own: `IndexPending` is the transaction that `SaveDeviceSession` has
for it (`device_session.go:278-287`).  No other command saves such a session: the
restored ones are made without, and no file has one.  `Rejoin`, in the network, brings
it about; to take it up is a `Join`, for all that this tool sees of it.  `SetExpires` is
the end of an address set that no session needs.  `TakeDump` copies the sessions and
notes the time the operator will give.
Here and in `MoveSessions` a set that a save has just refreshed outlives that save;
`SessionStore` has the expiry of sets in full.

### SessionLifecycle

What both commands promise when everything but activations is left out: a device
has the session of its newest activation or none; a restore fills a gap.  Both
modules implement it (`RestoresOnlyNewest`, by INSTANCE with a mapping that names
a session by the activation of its network keys).

### MoveSessions: the commands `get-sessions` and `set-sessions`

| Action | Code |
|---|---|
| `StartExport` | `get_sessions.go`: arguments, format, set-up (46-131) |
| `ReadSession`, `ReadFails` | the loop of `getDeviceSessionsfromRedis` 159; an error of the GET is a `continue` too |
| `WriteFile` | `marshalData`, `writeDataToFile` 183-231 |
| `StartImport` | `set_sessions.go`: the argument and set-up 49-89; the file as written, or with one row edited |
| `ParseInputFile` | 98-143: one unknown column or unreadable value and the command exits |
| `ItemOf` | `CSVfromDeviceSession` (`device_session.go` 304): the session, but for two keys of a 1.1 device |
| `PrepareRow` | the loop 148: `TargetOf` (150-156), `RowIsUsable` (150-163, 190-195), `Assemble` (173-216), `NextCounter` (185-187) |
| `QueryFails` | `GetDeviceFromNS` 159 fails for another reason than a missing row |
| `Index`, `Set`, `Flush` | `SaveDeviceSession` 218, `FlushMACCommandQueue` 222 |
| `Abort` | killed, or an error of Redis or of a file |

`set-sessions` saves each row as soon as it is prepared, and asks nobody whether a
session is there.  The command is for moving devices to another platform; the
model has one Redis, that of the platform which serves the devices, and a move
is `LoseSession`, for the sessions stay behind, followed by the import.  The frame
log plays no part (`LogKept` is FALSE).  `Defects` is what can be wrong with a row: a
spreadsheet strips leading zeros (`test.csv:2`), a column is missing or unknown
(`test3.csv:1`).  A DevEUI or `AESKey` that is not hex of whole bytes is reported and
the row skipped.  One that has lost a whole byte decodes, and nobody looks at its
length: `shortDevEUI` is read as another DevEUI (`ShortOf`), whose device, if it is
provisioned, gets this row's session, and `shortAESKey` is saved as a key that is
none.  The errors of five other columns (173-181) are overwritten unread, so a
damaged address is a different one and a damaged key no key.

`CSVfromDeviceSession` writes `FNwkSIntKey` into all three columns of network keys
(finding 4).  A row of a 1.1 device therefore has no network keys of any activation:
`ItemOf` makes them 0, and the session that an import saves is one that the
network-server cannot use.

Counters are `uint32` in the code and `0..MaxFCnt + 1` modulo `MaxFCnt + 2` here, so
that increases, of any sign, wrap.  `AFCntDown` is not increased: `root.go:92` promises
`-d` for `NFCntDown` only.  History: `outrun` (the counters that had gone further than
the increase makes up for, or wrapped, when a session was saved), `spoilt` (devices
for which a row with an unreported defect was saved), `interrupted` (saved, and
stopped before the flush), `stopped` (the present or last run was).

### SessionCodec: what the conversions keep

A session on its way between its three forms: `Load` and `Save` are
`deviceSessionFromPB` and `deviceSessionToPB` (`device_session.go` 349-575), `Export` is
`CSVfromDeviceSession` (304), `Import` the parsing of a row by `computeColumnIndexes`
and `stringTypeConverter` and the session made of it (`set_sessions.go` 124-338),
with `-u 0 -d 0`.  Every field of `DeviceSession` is there, grouped by the kind of
its types on both sides: what is copied, what is cut to 8, 16 or 32 bits, lists,
maps, times (the zero time becomes a negative number, which is read as the zero
time), the envelope, the session nested for a pending rejoin.  Strings, keys and
ids are numbers that name them.  `MapColumn` says whether struct2csv, a library,
writes a column for a field of map type; the command cannot parse one.
`FilesResetWhatTheyLack` goes through the fields: those with a value in the row keep
it; all others are reset by the first import, among them radio settings that the
device still has and the network-server needs (`RadioNotInFile`): the added channels,
whose column `CSVfromDeviceSession` never fills, the ping slot, the dwell times, the
frequencies of the channels, the power limit and the rejoin requests.

### StorageSetup: how a command starts

Each command has a list of tasks in the order of its code (`TaskList`): the
configuration, arguments, the band, the five storages, the input file, the work.
`bad` is what is wrong, chosen at the start: an unreadable file, an argument, a DSN,
the address, the password or the database of ClickHouse.  A task that fails ends the
process (`log.Fatal`; the arguments of `get-sessions` end it by a return).  PostgreSQL
and ClickHouse are pinged in loops (`storage.go` 62-69 and 79-86, `click.go` 109-124).
With the driver in `go.mod` (lib/pq 1.10.2) `sqlx.Open` does not look at the DSN: a
malformed one, an unknown database and a refused password are all errors of the
ping, which is repeated for ever (`Rejects`).  Of ClickHouse's exceptions one, 516 for a
wrong password, is not retried; the others, such as that for an unknown database,
are.  `Fail` and `Recover` take servers away and bring
them back at any time, also after their ping; `Kill` is the operator's patience.

## Runs

| Run | Question | Bounds | States |
|---|---|---|---|
| `concurrent_saves` | Is a stored session findable, however saves overlap, stop and expire? | 2 clients, 2 devices, 2 addresses, TTL 2 ticks | 3.0 M |
| `restore_race` | What can a run do wrong while the device joins and its session is lost again, with frames missing from the log? | 1 device, 2 joins, 2 runs, list of one or two lines, counters to 1 | 3.1 M |
| `restore_quiet` | Are counters fresh when frames go on and sessions are lost during the run, but no join races with it? Does it implement SessionLifecycle? | the same, counters to 2 | 1.3 M |
| `restore_two` | Does a skipped device keep another from being restored, at which step could it fall out, and is a run bounded? | 2 devices sharing an address, one with MAC 1.1, both list orders, 1 join each | 0.6 M |
| `dump_quiet` | The counters, the index of address and pending rejoin, SessionLifecycle and completeness for the dump, with losses and expiry during the run | 1 device with MAC 1.1, alone or after one that is not known; 2 joins, 1 rejoin address, 2 runs | 1.4 M |
| `dump_overwrites`, `dump_leftovers`, `dump_counters` | Does the code do what its text says? | 1 device with MAC 1.0, 2 joins, 2 runs | violated |
| `move_sessions` | What can an import do wrong, with files that are old, edited or imported again, and what does a bad row cost the others? | 3 devices, one with MAC 1.1, one not provisioned; a list with one device twice; 2 joins of one device or 1 of the other (`OneJoins`), counters to 1, `-u 1 -d 1`, 1 export, 2 imported rows, 5 defects | 4.0 M |
| `session_codec` | Which fields survive any number of saves, loads, exports and imports, and which files are refused? | sessions of LoRaWAN 1.0 with one field at its zero or largest value, alone and nested; widths 4, 8, 16 | 1.4 k |
| `csv_keys` | Do the keys survive a file? | the same and LoRaWAN 1.1 | violated |
| `storage_setup` | Which start-ups end, how, and does that depend on the input alone? | 4 commands, up to 2 things wrong at once | 29 k |

**Why the bounds are enough.**  A save touches one device and at most two
addresses; two clients and two devices give every overlap of two saves on a
shared set or on one key, and a TTL of two ticks a key that is refreshed, one
that is not and one that is gone.  Sessions of different devices meet in address
sets only, so the races of a run with the network need one device; two joins give
old and new keys, a second run gives the repetition after a failure, and a list
with the device twice the repetition within a run.  What needs several
devices, skipping, has a run with two; for the sets that devices share there are
`concurrent_saves` and the three theorems `SessionsAreIndexed`.  Counters matter as equal,
one less or more.  `MaxGen`, `MaxFCnt` and `MaxRuns` are the bounds of the guards; in the
runs of the restore commands counters stay far from 2^32 - 1, in `move_sessions` they
wrap.  `MaxImports` counts rows: a file of one row (of two reads one may fail) can be
imported twice, so an import can be repeated after a join or a loss.  `OneJoins`, a
constraint of that configuration, lets only one of its devices join in a behaviour,
the 1.1 device once: a file is of one list, so what devices do to each other there is
that a row is read as another device's, joined or not.  The theorems about
`MoveSessions` have neither bound.  In `session_codec` each field is converted by
itself, so sessions that differ in one field are enough; a width matters where a
value fits in one form and not in the other.  In `storage_setup` two wrong things
show which one is met first.

**Deadlock** is checked in `concurrent_saves` and in `storage_setup`, where servers always
come and go.  The other configurations turn it off: joins, frames and runs are
bounded, and when all are used up nothing happens; in `session_codec` a refused file is the end.

**Fairness** is weak fairness of `Step`, the steps of the tool when nothing fails.
The tool is one goroutine that waits for nothing but the answer of a server, and
a server that does not answer is an error: `Abort` or `QueryFails`, which the
liveness properties name as an excuse (`faulted`).  Nothing is assumed of the
network, of the operator or of runs being started.  `StorageSetup` has weak fairness
of its `Step`, which a failed ping is as well, and none of the servers: `SetupSettles`
is conditional on the servers being reachable from some moment on.  Then the command
gets through its work, or to the error of its input, or it stays for ever with a server
that turns it away each time (`TurnedAway`), until it is killed.

`RestorableIsRestored` and `DumpedIsRestored` rest on fairness; what they need besides is
stated without it.  `NoneIsPassedOver` follows a device that a run still has before it
(`Awaited`) from step to step: no skip, no late row, no end of a loop loses it unless it
has a session by then or something has failed.  `RunsAdvance` gives each state of a run a
number, `Remaining`, that every step lowers and the network leaves alone.
`NoRowIsPassedOver` says of `set-sessions` that a usable row is saved as it stands; the
excuse is a failed query for that very row, or a run that is stopped.

**Conditions worth knowing.**  `UplinkCounterFresh` and `DownlinkCounterFresh`
are checked with `LogComplete`: `restore-sessions` has no other source of counters than
the log.  What a run of it has read of a device is right later if nothing of the
device is counted and it does not join before the save; while it has no session
nothing is.  Two courses of events remain, and the code does go wrong in both:

* the device has a session when its rows are read, a frame is counted, the session is
  lost, `Check` finds none: the restored counters have been used already;
* the device joins after its rows are read, and loses that session before `Check`, or
  joins between `Check` and SET: the session restored is of the older activation.

`UplinkCounterFresh`, `DownlinkCounterFresh`, `LockoutOnlyFromOldFrame` and
`SessionIsNewest` of `RestoreSessions` excuse just the devices to which one of the two
has happened (`behind`), and nothing else that is lost or joins meanwhile;
`restore_quiet` has the first, `restore_race` the second.  In `restore-sessions-from-dump`
`Check` comes before the reads, so without joins during a run and with each device on
one line losses do no harm.

`LockoutOnlyFromOldFrame` names the
one way in which `restore-sessions` locks a device out: the last logged uplink is
of an earlier activation (the query at `click.go:136` does not look at the
address).  `OverwritesOnlyRacingJoin` names the one window that `Check` leaves
open.  `LeftoversOnlyAfterInterruption` names the one way a queue is inherited: a
run that stopped between save and flush, which no later run of `restore-sessions`
makes up for, while a repeated import does.

The theorems have `LogIsComplete` as hypothesis where counters are promised, and for the
dump that nobody joins during a run (`~JoinsDuringRun`) and `ListedOnce`.  With
a device on two lines the dump's counters are not fresh, as `dump_overwrites` shows.
In `MoveSessions` the excuse is in the property: a counter in `outrun`, a device in
`spoilt` or `interrupted`.

## Findings

1. `dump_overwrites`: the help text (`restore_sessions_redis.go:36`) says the command
   works only for devices without a session.  The check (168) is in the first
   phase and the save (260) in the second; a device listed twice has the session
   the run has just saved, which the network-server may already have counted in,
   replaced by the second copy.
2. `dump_leftovers`: line 268 logs "Flushed Mac-command queue"; the call (264-266) is
   commented out.
3. `dump_counters`: line 38 says counters are improved; line 211 takes the logged
   counter even when the dumped one is higher.
4. `csv_keys`: `device_session.go:321-322` fill the columns `SNwkSIntKey` and `NwkSEncKey`
   from `FNwkSIntKey`.  A session of LoRaWAN 1.1, whose three network keys differ,
   comes back from its file with two wrong ones; of 1.0 they are equal anyway.

A 1.1 device has two downlink counters, of which both commands restore
`AFCntDown` only: `restore-sessions` leaves `NFCntDown` at zero (lines 216-220), the
dump's is kept.  No text promises otherwise, so it is not a finding; the model has
frames in both counters, and `DownlinkCounterFresh` states the exception.

Some more the code does that no text contradicts, or that nothing here checks:

* the help of `set-sessions` announces AppSKeys written to the database of the AS; no
  line does that, and no property is about that database;
* the help of `restore-sessions` mentions `-u` and `-d`, which it does not register;
* `test.csv` and `test2.csv` have a column `AppSKey`, which the present program refuses:
  `computeColumnIndexes` knows `AESKey`;
* every import resets the fields that no row has a value for: `NoAppSKey`, and radio
  settings which the device keeps (`ExtraUplinkChannels`, `PingSlotDR`,
  `PingSlotFrequency`, the dwell times, `ChannelFrequencies`), so that device and
  network-server disagree about them until the next join (`FilesResetWhatTheyLack`);
  `RXWindow` has a column, which get-sessions fills with zero, and is lost in the save
  that follows, as the message has no field for it;
* a malformed DSN, a wrong password or database of PostgreSQL and an unknown database
  of ClickHouse are taken for a server that is down and pinged for ever (`SetupSettles`);
* `set-sessions` and `get-sessions` never check the name of the band, which is part of
  the keys they use;
* `configfile` prints the databases under `[postgres-ns]` and `[postgres-as]` (63, 108),
  while `config.go:81-94` reads `ns.postgre` and `as.postgre`: a command with the printed file
  uses the default DSNs; and it prints texts between quotes without escaping them;
* with a master name, `storage.go:47` gives the one Redis password to the sentinels
  only, with a single server or a cluster to the servers;
* that a second Redis is configured is checked only after all other servers have
  answered their pings.

## Proofs

Seven modules, checked by TLAPS for every value of the constants that satisfies the
named assumptions: `StoreAssumption`, `NetworkAssumption`, `NoneAssumption`, `NoRowAssumption`,
`RestoreAssumption`, `DumpAssumption`, `MoveAssumption`, `ShortAssumption`,
`CodecAssumption`, `InputsAssumption`, `SetupAssumption`.  They say what the constants
are, that a DevEUI without its last byte is not the same DevEUI, that a
missing row, session or message is not one, and one thing about the world: two
joins of one device do not draw the same address (`Addr` is injective for each
device; 25 bits of it are random), on which the comparison of addresses in the
code rests.  `CodecAssumption` says of the widths what their values, powers of two,
satisfy: none is zero, 8 bits are even (an `int8` has as many negative values as
others) and not wider than 16, nor these than 32.  Every module has `TypeCorrect`;
the type conditions on the counters and on the loops are what the other invariants
need to speak of the position in a list.

* `SessionStoreProofs!SavesKeepTheIndex` and `StoredSessionsAreIndexed`.  `IndexCoversSessions` says nothing of a
  save in progress, so it is not inductive.  `IndexInv` adds what a half-done save has
  indexed so far, and that the *set* lives at least as long as the promise;
  `WriteSession` then turns the second part into the first.  This is why the order of
  the transactions matters.
* `RestoreSessionsProofs!KeysAreOfOneActivation`, `SessionsAreIndexed`,
  `OnlyRacingJoinsAreOverwritten` from `RestoreInv` (`RunsStayInOrder`): what is in `draft` and `prepared` is of
  one activation that has happened (`DraftFits`, `PreparedFits`), what is stored too, and
  indexed (`SessionFits`); from the check to the SET a session can only appear by a
  newer join (`GapUntilSet`); and the set has the device before the key
  (`SetIsIndexed`).  None of them excludes joins, losses, frames or stops during a run.
* `RestoreImplementsLifecycle`: without joins during a run, `RestoreSessions`
  implements `SessionLifecycle`.  `ReadsNewest` (what a run has read is of the newest
  activation) and `GapUntilSet` show that `Set` finds no session; every other step
  of the tool, and every counter, is a stutter.
* `UplinkCountersAreFresh`, `DownlinkCountersAreFresh`, under `LogIsComplete` alone, and
  `SessionsAreNewest` and `LockoutsAreFromOldFrames`, without any condition, from one
  invariant with joins, losses and frames during the run.  `CountInv` says that the draft
  and every prepared session of a device which is neither `overtaken` nor `behind`
  (`Sure`) may still be saved (`MayBeSaved`): it is of the newest activation, its counters
  are past those in use, and they are within the device's reach or read from a frame
  with another address; and that the session in use of a device not `behind` is like
  that (`InUseInv`).  An `overtaken` device that is saved falls `behind`: for that
  `FallsBehind` asks that there was no session, or a newer one, which is so by
  `GapUntilSet` of `RestoreInv`.
* `QueuesAreFlushed`, without any condition: what a queue holds is of the session, or its
  flush is the next step.
* `NoRestorableIsPassedOver` and, for the dump, `NoDumpedIsPassedOver`: the safety half of
  the two liveness properties, without any condition on joins, losses or the log.
  What makes it true for `restore-sessions` is that a device which can be restored
  at some step had its rows when they were read, or has them changed by a join,
  which gives it a session; for the dump, that a dump is older than the run
  (`RunsAfterDump`).  The lemmas `StartAwaits` say that every such device of the list is
  awaited when the run starts; `RunsComeToAnEnd` (both modules) that a run cannot go
  on for ever: ten, or eight, times the lines of its file is a bound.  With weak
  fairness of `Step`, which is enabled in every state of a run, the liveness
  properties follow; that last inference needs ENABLED and is left to TLC.
* `NetworkServerProofs` has the parts the three commands share, stated about the
  actions of the network: what changes only with a session (`OnlyWithSession`), the
  counters in use against those of the log, and the reach of a device's counter.
* `RestoreFromDumpProofs!DumpImplementsLifecycle`: lists with repetitions and dumps of any
  age included.  `NewestInv` says that what has passed the comparison of dates is of
  the newest activation, `RunsAfterDump` that a run begins after its dump is taken.
  `UplinkCountersAreFresh` and `DownlinkCountersAreFresh`: each device is prepared at most
  once (`PreparedOnce`), since what is prepared is of the lines before the present one
  (`PreparedIsBehind`) and no two lines name one device; losses during a run are
  allowed.  These facts are `GapInv`, which says nothing of counters: it also gives
  `SavesNeverOverwrite`, and `CountInv` adds the counters.
* `RestoreFromDumpProofs!SavesNeverOverwrite` and `CountersAreImproved` are what is true
  instead where the code does not do what its text says: with each device on one
  line and no join during a run, nothing is overwritten (finding 1); with a complete
  log and no join during a run, the log's counter is never the lower one (finding 3),
  since what a dump holds was accepted before (`DumpIsBehind`) and what was accepted
  has been logged (`AcceptedIsLogged`).  `SessionsAreIndexed`, from `IndexedInv`, needs no
  condition: at every point of a save the sets that its transactions have written hold
  the device, that of the pending rejoin included.
* `MoveSessionsProofs`: eight theorems from six invariants.  `CounterInv`: what is about to
  be saved is its row with the increase, and every action of the network moves the
  counter of a session together with the one it is compared with.  `KeysInv`: what
  any file or run knows of a device is of one activation that has happened, but for
  the network keys of a 1.1 device in a file, which are none, or its row is damaged.  `AppCounterInv` adds, for `AFCntDown`, that no
  row of a 1.1 device has network keys.  `IndexInv`: the set has the device before the key.  `LockoutInv`:
  files hold no counter further ahead than the increases of the exports before them
  account for.  `SavesRow`, for `UsableRowsAreSaved`: what is about to be saved is made of
  the row of the present iteration.  They hold for any lists, files, increases and
  widths.
* `SessionCodecProofs`: `MessageFieldsSurvive` from `PathInv` (until the first file, each
  form is that of the original session, by `RoundTrip`: decoding undoes encoding), `WhatFilesKeep` and
  `RefusalsAreExplained` from `RadioInv`, which follows through rows what a row has a
  value for, and `LackInv`, which says that an import leaves everything else at its
  zero value.
  `TypeCorrect`: the messages, too, hold only values of their types.  `KeysOf10Survive`
  is what is true instead in finding 4: with one network session key no key is lost.
* `StorageSetupProofs`: `WorkIsConnected` and `ServersAreTriedInOrder` from `SetupInv`: what
  stands before the present task in the list has been done, and the lists have the
  storages before the work (`Ordered`).  `OutcomesFollowInput` needs `PassedIsGood` as
  well: a task is left behind only if nothing was wrong with it, for ClickHouse neither
  the password nor the database, and all lists lead past ClickHouse
  (`ClickhouseIsOnTheWay`).

Every safety invariant and action property of a passing run has its theorem.
Model-checked only, as the prover has no rules for fairness and ENABLED:
`RestorableIsRestored`, `DumpedIsRestored` and `SetupSettles`.  `RestoreFromDump!RunsAdvance` is the
other way round: it is proved, and in no configuration, since `restore_two` checks its
twin; so is `RestoreInv`, the conjuncts of which `restore_race` checks by what follows
from them.  `NeverOverwrites`, `CountersImproved` and `KeysSurvive` are in the runs that refute
them; the theorems say under which conditions they hold.

## Not modelled

* The radio settings and channels `restore-sessions` puts into a session (222-277): values
  copied from the profile and the configuration, or taken from tables of the lorawan
  library, which is not in the repository.  The same holds for the band itself.
* The columns of a device profile that no command reads, and the bit mask of its
  commands (`ns_device.go` 219-241), which is parsed and never used.
* The json output of `get-sessions`: it is printed, and no command reads it.
* AES in `plcrypt`, a call of a library; printing of `version`; flag parsing; the
  configuration, which `StorageSetup` has as readable or not.
* Generated code (`device_session.pb.go`) but for the fields of the message.
* `root_run.go`, whose signal handler no command reaches (`root.go:31` is commented out).
* ABP devices, which the code treats no differently from joined ones but for fields it
  does not set.

## Plan

Written, in this order: SessionKeys and SessionStore (what all commands share),
NetworkServer, RestoreSessions with SessionLifecycle, RestoreFromDump; then
MoveSessions, SessionCodec and StorageSetup, and the proofs about each.
Left: the assembly of a session's radio settings from profile and configuration,
which needs the tables of the lorawan library to say more than the code does.
