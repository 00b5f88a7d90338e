# Verification of the Bosch Live Data accessory firmware

TLA+ models of the ESP32-S3 firmware in `src/main`: a BLE peripheral that
receives live data from a Bosch e-bike, keeps it in flash, posts it to a
server, switches Hue lights by rules, publishes it over MQTT, and is
configured through a web page. The models are checked with TLC on small
instances; the results that matter most are proved with TLAPS for all values of
the constants.

The firmware has no tests, and its hard parts are exactly what a test on a desk
does not reach: several FreeRTOS tasks on two cores that share statics with few
locks, flash files that must survive a reset between two writes, and
protocols with a bike, a Hue Bridge, a broker and a Wi-Fi network that answer
late or not at all.

## 1. The system

### Tasks

| task | started by | runs |
|---|---|---|
| NimBLE host | `ble_gap_init` | GAP and GATT callbacks |
| live data worker (priority 4) | first notification, `gatt_client.c:346` | decode, history append, evaluation requests |
| automation worker (3) | `automation_start` | evaluation of the rules, Hue commands |
| telemetry exporter (2) | `telemetry_export_start` | periodic posts |
| HTTP server (one task) | `wifi_admin_start` | all pages and the JSON API |
| Wi-Fi reconfiguration | `/save`, `/clear` handlers, one shot | transactional reconnect |
| Hue pairing | `/api/hue/pair`, one shot | pairing window |
| MQTT client, publisher | `home_assistant_start` | connection events; periodic publishing |
| event loop | `esp_event` | `wifi_event_handler` |
| restart | the end of an upload, one shot | `esp_restart` after 1.2 s |
| status LED | `status_led_init` | blink patterns |

### Components: state, operations, what makes them correct

**Bike history** (`bike_history.c`). State: the ring file with its header
(magic, version, write offset, used size), `history_ready`, `history_mutex`.
Operations: init, append, field query, JSON export, has-records, clear. Called
by the live data worker (append), the exporter (export, clear) and the HTTP
server (query, export). Hard: an append is two flash writes, a clear a
truncation and a write, and a reset may fall between; every call computes with
a header it has read earlier. Correct if the file is a log of the last
records in order, whatever resets and errors do.

**Telemetry exporter** (`telemetry_export.c`). State: its interval timers. Posts
the history as JSON, then clears it; posts the log. Hard: the live data worker
appends between the snapshot and the clear; posts fail or are answered too
late. Correct if only what was delivered is erased, and everything is
delivered in the end.

**Automation queue** (`automation.c:1125-1175`). State: a FreeRTOS queue of four
masks, `automation_rules_active`. The live data worker never blocks: it merges
into the oldest mask when the queue is full. Correct if no changed field is
lost and each is evaluated.

**Automation rules** (`automation.c:26-1123`). State: the rules in NVS,
`automation_rules_active`, `last_fire_ms[]` indexed by the rule's place. The
HTTP server edits; the worker reads a copy, evaluates and fires. No lock. Correct
if the flag follows the rules, and cooldowns follow rules when these move.

**Live data decoder** (`live_data_decode.c`). State: `latest_state` with presence
bits, a table of 12 unknown fields, the time of the last persist. Operations:
decode one notification (walk, merge, persist samples, request an
evaluation), render for the page, MQTT and rules. Hard: malformed and
truncated messages; `latest_state` is read by three other tasks without a lock.
Correct if a failed parse leaves the state alone, and the mask says exactly what
changed.

**BLE link** (`ble_gap.c`, `gatt_client.c`, `status_led.c`). State: the advertising
flags, the connection handle, handles found by discovery, the notification
queue, the LED state. Hard: discovery starts from two callbacks in either order; a
disconnect may fall between any two steps; notifications meet a full queue.
Correct if a reconnected bike ends up subscribed, and the LED tells the truth.

**Wi-Fi administration** (`wifi_admin.c`). State: credentials in NVS, the
name of the current network, event bits, the retry counter, the reconfiguring
flag, the setup access point. Hard: reconfiguration runs in its own task while
events of the old connection still arrive, and nothing excludes a second one.
Correct if credentials are saved only after they worked, a failed change falls
back, the name tells the truth, and the device stays offline only for a reason.

**Hue integration** (`hue_integration.c`). State: running, success and cancel flags,
message and progress, in statics each section of which is under a mutex; bridge
address, name and key in NVS, without a lock. Hard: the running flag is tested in one
section and set in another; a cancel races with the progress report that
clears it; two tasks may save. Correct if there is one window at a time, it ends,
a cancel ends it sooner, and success means that a key is stored.

**Home Assistant** (`home_assistant.c`). State: the client and its settings, the
connected and discovery flags; the settings in eight NVS keys. Hard: the MQTT
task sets and clears the flags that the publishing task reads, sessions end in the
middle of a discovery, and the settings are saved by one task while another
loads them. Correct if saved settings take effect, the discovery is at the
broker when the flag says so, and no device is left "online" that nobody serves.

**Log store** (`log_store.c`): a ring of bytes in memory under a spinlock, which
every task prints into and the HTTP server and the exporter copy. Correct if a copy is
the end of what was printed, by whole lines. **Persistent log**
(`persistent_log.c`): a current and a previous file under a mutex that is waited for
200 ms. Hard: a reset between the remove and the rename. Correct if the newest lines
are kept, and the files stay within their size.

**Firmware update** (`wifi_admin.c:1835-1927`). State: the OTA slots, the partition to boot. Hard:
uploads that break off, and a second upload before the restart. Correct if the device
starts what was chosen, and never writes to the slot it runs from.

**Accessory configuration** (`accessory_config.c`): settings saved as several NVS keys.
**Boot** (`app_main.c`): straight-line initialisation whose order decides who is ready when.

`PROJECT.json` lists the components with their status and the hazards of this
code, each at its line with the properties that watch it.

## 2. The modules

| module | models | built on |
|---|---|---|
| `HistoryLog` | abstract: a bounded log of records | |
| `BikeHistory` | the ring file, header, mutex and calls | refines `HistoryLog` |
| `TelemetryExport` | the exporter composed with the ring | extends `BikeHistory` |
| `EvaluationRequests` | abstract: a set of fields that wait | |
| `AutomationQueue` | the queue between the two workers | refines `EvaluationRequests` |
| `WireFormat` | the reading of a notification; its grammar, an encoder and a sender | |
| `LiveData` | `latest_state`, its snapshot file and unlocked readers | |
| `LiveAutomation` | from a notification to an evaluation | composes `LiveData` and `AutomationQueue` |
| `AutomationRules` | rules, flag, evaluation, cooldowns | |
| `HuePairing` | the pairing window, its rivals in the HTTP server, the NVS keys | |
| `BleLink` | advertising, the discovery chain, the notification queue, the LED | |
| `WifiAdmin` | boot, event handler, reconfigurations, on an asynchronous driver | |
| `HomeAssistant` | settings key by key, publishing task, MQTT events, broker | |
| `LastBytes` | abstract: a log whose last bytes are kept | |
| `LogStore` | the byte ring and its lock | refines `LastBytes` |
| `PersistentLog` | the two files, the mutex and its timeout | |
| `OtaUpdate` | upload, slots, boot partition | |
| `Device` | what a restart does to logs and firmware | composes the last three |
| `MC_*` | the instances that TLC checks | |
| `*_proofs` | the theorems | |

An operator with an underscore in its name (`Disconnect_Keep`) is a variant of
the definition behind it with a slip that a programmer could make; no
specification uses it. Each property of a passing run has been seen to fail with one of
them in place.

### BikeHistory

`file`, `hdr` and `data` are the flash; they survive `Crash`. Offsets count
records instead of bytes, because the code moves by whole records only. A call
takes `mutex`, reads the header into `copy[t]`, and is cut at every change of
the file: an append is `AppendBegin`, `AppendRecord`, `AppendHeader`; a clear is
`ClearBegin`, `ClearTruncate`, `ClearHeader`; init is `BootKeep` or
`BootTruncate`, `BootCreate`. `Fail` is any error return inside a call,
`BootFail` a file system that does not mount. A boot that cannot open or read a good
file truncates it too (`bike_history.c:216-228`): `BootTruncate` may do so whenever
`Faults` are on, and the log is then erased. Writes are all-or-nothing and
ordered, which SPIFFS gives for ten-byte writes followed by a flush.

The refinement maps the file to a log: `Contents` is what an export would read.
Between the two writes of an append to a *full* ring, the oldest slot already
holds the new record; the log is then the tail and the new record is
`pending`. The header write settles it. A reset or error before that makes the
new record the *oldest* of the log (`Misplace`): the abstract specification
allows this damage and no other, and `OrderedBehindFirst` says it does not add
up: the ring behind its first record is always in the order of time.

After a clear that failed between truncation and header, `Readable` is FALSE, and
appends are refused until the next boot recreates the file. The code really
does this (`bike_history.c:119-140`, `:254`); the log is empty meanwhile.

### TelemetryExport

`step` follows `export_bike_data`. `snapshot` counts the appends the payload has
seen. `PostAnswerLost` is a request the server has stored and whose answer was
lost, so the server may see a record twice.

### AutomationQueue

`Request`, `Send`, `Take`, `Resend` are the four points of
`automation_request_evaluate` between which the automation worker, on the other
core, may receive. The result of the second send is ignored by the code;
`SecondSendFits` says that it cannot fail, because the live data worker is the
only producer.

### AutomationRules

`rules` is the stored list; each rule carries a number `nr` that follows it from
place to place (a ghost: the code has none). A handler's load, edit and save is
one step, since only the HTTP server writes the rules; what comes after the
save is in `todo`: refresh the flag, clear the cooldowns, or set the flag to
what the form handler worked out itself. The refresh in `automation_start` runs in the main task
when the HTTP server is there already (`app_main.c:107`, `:120`): `BootLoad` reads the rules,
`BootWrite` sets the flag, and handlers may save rules and set the flag before, between and after them.
`overtaken` (the load failed, or a save came after it) and `blind` (the flag was last set by
such a boot, or by a refresh that could not read the rules) are ghosts. The worker reads a copy of the list
(`EvaluateBegin`) and steps through it (`PassOver`, `Fire`, one `Switch` per
trigger, `FireEnd`). `lastFull`, `raced` and `tainted` are ghosts that say
when each rule last fired completely, that an edit overtook the evaluation under
way, and that such an evaluation wrote a cooldown. Whether conditions match is
left open.

Two simplifications. Every stored rule is valid, since all handlers validate.
And a save that fails changes nothing, in the code too.

### WireFormat

`ReadVarint`, `ReadFixed` and `ReadItem` follow the loop of
`live_data_decode_and_log`; `Meaning` says which values and which table of unknown
fields a message leaves. Bits per byte, bytes per varint and the widths are
constants: the code's are 7, 10, 64 and 32, TLC's are 2, 4, 7 and 3.
The behaviours are those of a sender (`WireSpec`): it adds any byte to the message, or
encodes one more item, and after each step the firmware reads what is there. The
first kind is compared with a grammar of messages (`IsMessage`), the second with
what was encoded. Positions count bytes, and a recursive function stands for each loop, so
that the module can be proved about.

### LiveData

The worker's way through one notification: mask of changes, samples for the
history, the merge, the snapshot file, the request. The merge is cut into single
words (`MergeFlag`, `MergeValue`, `MergeCount`, `MergeRow`), because readers copy
the state without a lock: `CopyWord` takes one word at a time. The words are
written and read in the order of the struct: an idealisation of what a
compiler may do with plain assignments and a `memcpy`. The snapshot is written by
`PersistOpen` (which truncates), `PersistPage` and `PersistClose`, and a reset may
come between them. The ghost `spoken` is what the bike has sent since boot.

### LiveAutomation

`Decode`, `AskInVain`, `AskQueue` and `RequestStep` are the live data worker;
`EvaluateBegin`, `ReadField` and `EvaluateEnd` the automation worker, which reads the
fields of the mask one by one while the next message may already be merged. `seen` is
what the rules last read, `missed` what was dropped in the open: no active
rule, or Wi-Fi down.

### HuePairing

`at[p]` is the place of a pairing task or of the HTTP server in
`hue_integration_pair_json` and the saves under it; each NVS write is a step
(`SaveHost`, `SaveName`, `SaveKey`, each may fail: `SaveFail`). `StartLoad`
reads the stored key, `StartCheck` and
`StartTask` are the two critical sections of `pair_start`, with the discovery of
the bridge between the last two; `SetState` is `hue_pair_set_state`, which also clears the cancel
request when it reports that the window runs. `Clear` erases the keys one by one.
`canceled` and `erased` are ghosts.

### BleLink

All callbacks run in the one task of the NimBLE host, so each is one step; their order is
NimBLE's and the bike's: `proc[p]` is a procedure that NimBLE has under way and how much it
has reported, `link` and `host` what the stack knows. Assumed of NimBLE, as the code
does: procedures of a lost link fail before the disconnection is reported;
a reset of the host breaks the link and ends the advertising first; there is one
connection at a time (`CONFIG_BT_NIMBLE_MAX_CONNECTIONS=1`); and no event is raised for advertising that the application
stops itself, so `SetDeviceName` leaves nothing that would start it again. `gaveUp` remembers an
attempt to advertise that failed, and such a stop. `Connect`, `Encrypted`,
`MtuAgreed`, `ServiceFound`, ... `Subscribed` are the callbacks, each with the
request it makes next (`Ask`) and with `FailConnection` where that is refused.
`table` is what the bike offers: there are bikes without the service, without the
characteristic, and with none or two of the descriptors.

### WifiAdmin

`boot` is the place of `wifi_admin_start`; `BootConnect` to `SetupAp` are its steps. The
`On...` actions are the branches of `wifi_event_handler`. `task[t]` is the place of a
`wifi_reconfigure_task` with its request: `Begin` (after the delay), `DisconnectOld`,
`ApplyNext`, then `SaveSsid`, `SavePass`, `Finish`, or `Fallback`, `DisconnectNew`,
`ApplyPrevious` and `End`. Each step ends where the code calls the driver or
waits, so that an event may be handled between any two; a wait may be over at
any time. `radio`, `target`, `sta` and `events` are the driver: what it does is posted
as an event and handled later, in order. `air` is which credentials some network would accept, and changes at
will. `worked`, `doubt` and `stranded` are ghosts: the credentials that have been
given an address, that an address was taken for that of another network or a save was
torn, and that a drop was left alone because a reconfiguration was under way.

### HomeAssistant

The HTTP server writes the keys one by one (`SaveKey`), the publishing task reads
them one by one (`LoadKey`). `at` is its place: `Stop`, `Restart` and `KeepClient` are what it
decides, `PublishEntity` and `PublishOnline` are the messages of one discovery, between
which a session may end (`SessionEnds`) or be reported (`OnConnected`,
`OnDisconnected`). Eight keys are represented by two: those that decide whether
there is a client, and those that decide where it publishes. The broker keeps
`entities` and `status` and may forget them with the session. `cut` and `unsaid` are ghosts for the
two cases that the properties excuse.

### LogStore, PersistentLog, OtaUpdate, Device

`LogStore` stores one byte per step (`StoreByte`), so that the lock (`Unlocked`) matters; it
maps to `LastBytes` by the bytes of the ring with the rest of the line under
way: a line is added when its first byte is about to be stored, and each
`StoreByte` is a stutter.

`PersistentLog` follows `append_line` call by call: `Take` or `TimeOut`, `Fits` or `Full`,
`RemovePrevious`, `Rename` or `RenameFails`, `WriteLine` or `AppendFails`. A reset may come at each
point, and may leave a part of a line.

`OtaUpdate` follows `ota_post_handler`; the bootloader starts the partition to boot, or another whole
image if that one is broken.

`Device` puts the three side by side with one reset.

## 3. The runs

Each run finishes within five minutes on two workers.

| run | checks | bounds |
|---|---|---|
| `export` | the ring refines a log, with resets and errors; field queries; order behind the first; a clear erases delivered or newer records only; records are delivered once Wi-Fi stays up and the trouble ends (fair) | ring of 3, 5 appends, points ring of 2, two fields, three tasks |
| `export_unsent` | violated: records appended during a post are erased unsent | ring of 2, 3 appends |
| `queue` | the second send fits, refinement; a request is evaluated unless overflow moves it back (fair) | the real queue of 4, two fields |
| `rules` | cooldowns are their rule's and are kept, the flag is set only for enabled rules and for all flat ones, with the worker running, boots beside the handlers and load failures | 3 places, three bodies, cooldown 2, clock 3 |
| `wire` | the decoder against a grammar, a meaning and an encoder | all strings of up to 6 bytes of 8 values; two encoded items |
| `live` | what is known stays known, the snapshot file follows the state | 2 fields, 3 messages, an unknown field too many, one reader, failures and resets |
| `live_automation` | when all is quiet the rules have read the latest values | 3 fields, queue of 2, resets |
| `hue` | one window, success is stored, cancels, end of the window (fair) | 2 tasks, 2 attempts, every call may fail |
| `ble` | fresh handles, one discovery, order of notifications, what green means; links settle and advertising resumes (fair) | 5 kinds of bikes, queue of 2, 3 notifications, failures, renames and host resets |
| `wifi` | saved credentials have worked, the status is true, being offline has a reason; a failed change falls back (fair) | two networks, one reconfiguration at a time, one retry, two events |
| `ha` | discovery and availability at the broker; saved settings take effect (fair) | three settings on two bases, one entity, failures and resets |
| `device` | the ring refines the log of its last bytes; the files keep the newest lines within their size; the chosen firmware starts, the running one is never written | ring of 4, lines up to 4; files of 3 bytes, 5 lines, two tasks; three images of two chunks |

Why the bounds are enough. A ring of three reaches every relation of write
offset, used size and wrap, with the points ring wrapping at other places. Five
appends into a ring of three pass the end and put two records behind it, with a clear
before, between or after. Two fields over four queue places give every merge, since the masks are
treated bit by bit. Two rule places suffice to move a rule to the place of a
deleted one and to add one behind it; the form handler's early stop at a
duplicate needs three. Clock 3 with cooldown 2 has an instant inside and one
outside every cooldown. Six bytes hold a fixed field with another one behind it, or
a varint cut at each byte, or one too long, or three unknown fields for a table of two; the widths of 3 and 7 bits keep
every relation of digit, narrow and wide. Two pairing tasks suffice to
start one while another is ending. In `BleLink` every counter but that of the
notifications is finite by itself: the run covers any number of
connections, losses, resets and bikes in turn. Three notifications into a queue of
two meet an empty, a half full and a full one. What these instances show for the
safety of the ring, the queue, the cooldowns, the pairing and the
way to the rules is proved without bounds (section 5).

In `rules` a list of up to two grouped rules is followed with the worker running, and lists
of three with mixed bodies while it rests (the constraint `Followed`): what an edit does to the flag does
not depend on the worker. In `wifi` one retry tells a first drop from one that gives
up, and two events hold a drop with the address behind it, or an old address
with a new drop; a reconfiguration may follow another any number of times. Two
reconfigurations at once are left to the proofs and a further instance. In `ha`
one entity before the word "online" has every point at which a discovery can be
cut; two entities hold as well (1.7 million states). In `device` the parts
share nothing but the reset, so only one at a time is followed away from
its start; the ring of four bytes takes lines that fit, fill it, wrap it and are
cut, and buffers of none, one, and more bytes than the ring.

Deadlock is checked in every run but `wire`, whose messages end at a bound.

### Findings

`export_unsent`. README.md:290 says the history is cleared "only after the HTTP POST succeeds".
   It is, but the clear (`telemetry_export.c:145`) also erases records the
   live data worker appended after the payload was read.

### Further instances

More configurations are kept beside the runs. TLC refutes the one property
of each in the first table; they document behaviour that the properties of the runs excuse.

| configuration | refutes | because |
|---|---|---|
| `MC_AutomationRules_unheard.cfg` | `EnabledRuleIsHeard`: requests are queued when an enabled rule exists (compare README.md:334) | `automation_add_rule` works the flag out from the rules that `parse_rule` accepts; a rule that has groups does not count, so adding a disabled rule by form silences it until the next edit or boot |
| `MC_AutomationRules_boot.cfg` | `NeverQueuesForNone`: requests are queued only when an enabled rule exists (README.md:334) | the refresh at boot (`automation.c:1143`) loads the rules in the main task while the HTTP server already runs (`app_main.c:107`): a handler disables the last rule and unsets the flag, and the refresh sets it again, until the next edit |
| `MC_BleLink_rename.cfg` | `NewNameIsShown`: advertising that is stopped for a new name is started again ("advertising restart after name change failed", `ble_gap.c:89`) | `ble_gap_adv_stop` (`:87`) raises no ADV_COMPLETE, and nothing else starts the advertising: without a link the accessory shows no name at all until the host or the device resets |
| `MC_WifiAdmin_untried.cfg` | `SavesOnlyConnected`: the firmware saves only after success (README.md:204) | an address of the old network that is handled after the bits were cleared is taken for the new one's (`wifi_admin.c:243`), and a reset may fall between the two keys (`:109`) |
| `MC_HomeAssistant_holes.cfg` | `AnnouncedIsAlwaysThere`: the discovery is retained at the broker (README.md:274) | a reconnect during `publish_discovery` clears the flag, which is then set (`home_assistant.c:232`): what was lost is not published again |
| `MC_HuePairing_cancel.cfg` | `CancelStops`: no attempt begins after an accepted cancel | the progress report before the next attempt clears the request (`hue_integration.c:72`) |
| `MC_HuePairing_mixed.cfg` | `OnePairing`: the stored address and key are of one bridge | the pairing task and the HTTP server save four keys without a lock (`accessory_config.c:567`) |
| `MC_LiveData_torn.cfg` | `AnswersOnlyDecoded`: a reader's copy holds values that the bike has sent | a flag is set before the value it belongs to (`live_data_decode.c:245`) |
| `MC_LiveData_cut.cfg` | `AnswersWholeText`: the page answers a whole text | the snapshot is truncated and rewritten in place (`live_data_decode.c:533`) |

`FiresStoredRule` of `AutomationRules` and `StampIsBikeTime` and `RepeatIsQuiet` of `LiveData` are proved
and in no run; TLC finds them true in the instances of `rules` and `live`. With `Task = {t1, t2}` in `MC_WifiAdmin.cfg` the safety properties but
`OfflineIsExplained` still hold: two reconfigurations clear each other's flag, and a drop between them is left alone
unexplained.

## 4. Fairness

`FairSpec` (ring): a task that holds the mutex finishes its call; the calls are
bounded runs of file operations, and the scheduler runs every task. `FairExportSpec`
adds that boot completes, that the exporter is scheduled, that it gets the
mutex it waits for (FreeRTOS wakes waiters; `SF` on the takes, since others
take it in between), and, as an assumption on the *server*, that posts tried
again and again succeed once Wi-Fi is up. `RecordsAreSent` adds, as a premise, that resets
and errors (`Trouble`) end. A mutex that is not had in time is trouble only while a call that is under way holds it;
one that an error path has kept is not, and would break the property. `FairQueueSpec`: the producer
finishes its call and the worker keeps receiving and evaluating; an evaluation
is bounded by HTTP timeouts. `FairHueSpec`: the pairing task takes its next step; its
requests to the bridge have timeouts. `FairBleSpec`: NimBLE reports what it owes a
report for: the end of each procedure (after 30 seconds a failure), a lost link,
advertising that a reset has ended, a reset, and the end of a link it accepted to terminate.
`FairWifiSpec`: the boot, the event loop and each reconfiguration take their next step, since
their waits have timeouts, and the driver ends each attempt one way or the other. `FairHaSpec`: the
HTTP server writes its next key, the publishing task takes its next step, and a
client that may start again and again does so (`SF`: a start may fail for want of memory).
Nothing is assumed about the bike, the user or the timing of resets.

## 5. The proofs

`TelemetryExport_proofs`. First the ring by itself. The inductive invariant `IInv` strengthens
the type invariant
and the header shape (a ring that is not full starts at slot 0, which
`header_valid` does not check) with what the mutex protects: the header in a
task's `copy` is the one in the file, calls run only after boot, and the slots
the header covers hold records. From it follow `TypeCorrect`, `HeaderIsWellShaped`,
`ExportsOnlyRecords`, `MutexProtectsCopy`, and the refinement
`RingImplementsLog`: lemmas say that advancing a ring that is not full appends to the
log, that overwriting keeps the tail, and that moving the header of a full ring
rotates it. `FieldQueryIsLatest` says what the page gets for a field: the newest records that
have a value for it, in order, as many as the ring of points takes. Its lemma
(`CollectsLatest`) goes by induction over the records read: after each, the points ring holds the
last values so far at the slots that counting modulo its size gives them.

Then the exporter. `ExportInv` adds that the two parts agree about where
the exporter is (`PlacesAgree`), that all records but the first are in order and the one in
a task's hands is younger than all of them (`OrderedAndOlder`), and that from the
snapshot on, a record in the file is younger than the snapshot, or in the
payload, or, once the post has succeeded, delivered (`KeptIsSentOrNew`).
`DamageDoesNotAddUp` and the action property `ClearsWhatWasSent` follow. The first needs the refinement: a
record that a reset has put first is pushed out by the next append to a full ring, before another one can take its place.
Every step of the exporter is a step of the ring or leaves it alone, so all results about the ring hold of it
(`ExportedRingImplementsLog`).

`AutomationRules_proofs`. `RulesInv` is inductive. Its heart is `ListIsStored` (the worker's
list is the beginning of the stored one unless an edit raced it: adds only
append) and `EditsRestart` (after such an edit no rule counts as fired), which
together make the place the worker writes the place of the rule that fired. For the flag,
`FlagIsRight` says that a flag which a handler or the boot is about to set is right, unless an edit has overtaken
the boot, and `FlatFlagIsRight` says the same of the flag that is not set, among flat rules.
`RulesTypeCorrect`, `FlagMeansEnabledRule`, `FlatRulesAreHeard`, `CooldownsAreOwn`, `CooldownsAreKept` and
`FiredRulesAreStored` follow.

`HuePairing_proofs`. `HueInv` is inductive: besides types it says that nobody starts a task
while there is one (`StartsAlone`: only the HTTP server starts, so the gap between
the two critical sections is harmless), that whoever saves holds a key
(`HoldsKey`), and that a cancel between two attempts is not forgotten.
`HueTypeCorrect`, `OneWindowAtATime`, `SuccessIsStored` and `CancelBetweenAttemptsStops` follow.

`LiveAutomation_proofs`. The queue by itself: `QueueInv` is inductive, between `Take` and `Resend`
it is not full. `OverflowAlwaysFits` and the refinement `QueueImplementsRequests` follow. Then three inductive invariants of `latest_state`, each on top of the
one before. `LiveInv` says that the merge goes through its words in order (`InWordOrder`), so that at
most one counted row is not yet filled (`RowsAreFilled`), and that every value which is
flagged and written was sent (`ValuesAreSpoken`); a field that a reader found when it
began keeps such a value under the reader's hands (`CopiesAreSpoken`). `QuietInv` says
that what was merged of a message is in the state as long as the table had room
(`MergedIsThere`). `FileInv` says that unknown fields have one row each, so that a merge
without news writes what is there already (`NothingIsNew`) and leaves the file up to
date (`FileIsUpToDate`). `LiveTypeCorrect`, `SamplesCarryBikeTime`, `CopiesKeepTheKnown`,
`RepeatsAreQuiet` and `FileAgreesWithState` follow. For the evaluations
`LAInv` says that a value which no rule has read is in the worker's mask, in the queue or in
the evaluation under way (`NewsIsUnderWay`), because the mask covers all that the
merge changes (`MaskCovers`). `RulesSeeTheLatest` follows: it holds although the mask is computed before the merge, since the request comes
after it.

`BleLink_proofs`. `BleInv` is inductive. What the run's invariants lack is `OneAtATime` (advertising,
a link and an unsynchronised host exclude each other, and no procedure outlives
its link) and `InOrder`: the chain runs once and in one direction, so that
a part of it which may begin the next one implies that nothing behind it is there.
`HandlesBelongToBike`, `GreenMeansSubscribed` and `DiscoveryBeginsOnce` follow for every set of
bikes. `NotesInv`, on its own, says that the queue is ordered between the last
notification decoded and the last sent; `NotesKeepOrder` follows for every
queue length.
The second half of the module is about `WireFormat`. `WireInv` says that what the decoder
makes of a message is what it reads of its bytes, and of a bike's bytes it reads the items
encoded. Two results about the readers come first. A varint is read where the grammar has
one, and with its value (`ReadsVarint`); hence an item (`ItemIs`), and by induction from
the end of the message the message itself (`AcceptsWhatIsAMessage`): `AcceptsGrammar`. And
a message with one more item behind it is read as before with that item behind
(`OneItemMore`), since a read looks at no byte behind the item it reads. With
what the encoder puts out (`VarintEncodes`, `FixedEncodes`, `EncodesItem`) this makes `WireInv` inductive, and
`RoundTrip` follows; that a negative number comes back from the low half of its 64 bits is
`KeepsSign`. `LastValuesCount` goes by induction over the items read (`MeaningHolds`): one more item changes
the last place of one known field (`KnownStep`), or the table (`UnknownStep`), whose rows are
the first of their field in order, so that a field's row is the number of first items before it.

`Device_proofs`. The types of the log ring are inductive by themselves (`RingTypeCorrect`). The
refinement `RingImplementsLastBytes` rests on two lemmas: before the ring has
wrapped, storing a byte moves it from the line to the ring and `Taken`, the bytes of the
ring followed by the rest of the line, stays the same (`GrowingStep`); afterwards it drops
the oldest byte, so that the last `Size` of them stay the same (`WrappedStep`). A copy is then the end of
`Taken` by arithmetic on the offsets. For the firmware update, `OtaInv` adds to `RunningIsWhole` that
the slot which is written is the one `esp_ota_get_next_update_partition` still names
(`UploadIsElsewhere`), that the boot partition holds what was chosen or is broken while the
device runs from the next one the bootloader tries (`StartIsKnown`), and that the device
does not run from the factory partition while `ota_1` is to boot. `RunningIsKept` and
`StartIsChosen` follow. For the persistent log, `FilesInv` says that who works on the files
has the mutex (`WorkerHasMutex`), that the previous file is removed only when the current one is full
(`FullBeforeRemove`), and that a line has room after a rotation (`RoomForLine`).
`NewestLinesAreKept` and `FilesStayBounded` follow; the size of a file is a sum over
its lines, of which an induction over them shows how a line changes it. `DeviceCorrect` says that a device in which logs, uploads and
restarts run together keeps all of it.

`WifiAdmin_proofs`. `WifiInv` is inductive, for any number of reconfigurations at a time. For `SavedHasWorked` it
says, unless there is doubt, that an address in the event queue is of credentials that
worked, that the CONNECTED bit is of the network every waiting task asks for, that who saves has
such credentials, and that a half written pair is that of the one task which is writing. For
`StatusIsTrue` it says that the last drop or address in the queue agrees with the
radio (`LastWordIsTrue`). Every step is one of six as far as the queue goes (`StepIsHeard`), which
keeps the second part short. `WifiTypeCorrect`, `OnlyWorkingIsSaved` and `StatusIsTold` follow.
`OfflineHasAReason` is about behaviours in which no two reconfigurations overlap (`OneAtATime`, of the states and
not of the set of tasks; with two at a time TLC refutes it, see section 3). Then the
busy flag is set exactly while one is under way, and a station out of work (`OutOfWork`) is either explained or in
the hands of a task that has yet to apply its credentials (`OfflineInv`). An address that is handled after the station was lost does not
harm, because the loss is behind it in the queue (`LossFollows`, from `LastWordIsTrue`).

`HomeAssistant_proofs`. `HaInv` is inductive: the flag follows the session by at most one report
(`ReportsAreInOrder`), the publishing task and its client agree on the settings
(`TaskAgrees`), and a discovery that nothing has cut is at the broker up to where the task
is (`AnnouncingIsWhole`). `HaTypeCorrect`, `AnnouncementsHold` and `NoClientLeftOnline` follow.

Assumptions are those named in the modules (`HistoryAssumption`, `ExportAssumption`,
`QueueAssumption`, `RulesAssumption`, `HueAssumption`, `LiveAssumption`, `TextAssumption`,
`LiveAutomationAssumption`, `BleAssumption`, `LogStoreAssumption`, `PersistentLogAssumption`, `OtaAssumption`,
`WifiAssumption`, `HaAssumption`, `WireAssumption`): positive sizes, that the values which mean "none" are not real ones, that the exporter
is another task than those that append and query, and that a log line fits into a file (352 bytes into 64
KiB, `persistent_log.c:111`, `:17`). `WireAssumption` relates the widths: the values of 64 bits are a
multiple of those of 32 and of the eight wire types, a key (a field number times eight) fits into 64 bits, and a
varint of `VarintMax` bytes holds every value of 64 bits; the four kinds of known
fields do not overlap. The code's 128, 10, 2^64 and 2^32 satisfy it, and so do TLC's. TLC evaluates
each assumption in the runs of its module.

Induction over data. The induction theorems of the library take a predicate, which the
provers cannot instantiate. Where a recursive function is reasoned about (the points of a field
query, the size of a file, the digits of a number, the items of a message and what they mean), that the function
has its values is proved first, by building it argument by argument; then induction is stated of a *set* of numbers
(`SetInduction`: a set that holds 0 and, with each number, the next one, holds them all), proved from
the well-foundedness of the order, and used with the set of numbers for which the claim holds.

Only model-checked: everything temporal under fairness (`RecordsAreSent`,
`RequestIsEvaluated`, `WindowEnds`, `LinkSettles`, `AdvertisingResumes`, `FallsBack`,
`SettingsTakeEffect`), which is beyond the prover. Every invariant, action
property and refinement that a run checks is also a theorem.

## 6. Limits

A starvation the queue allows: an overflow moves the oldest mask behind all
others, so overflows in step with the worker can keep a field waiting;
`RequestIsEvaluated` excuses a field at each overflow.

The form handler's duplicate test compares a new rule, whose name is still
empty, with stored ones, whose name is at least "Automation"; it finds a
duplicate only of a rule stored by the JSON API with an empty name.

An evaluation that an edit overtakes writes its cooldown at the place its rule
had before (`automation.c:1113`): `tainted` marks this, and `CooldownIsOwn` excuses
it until the next edit.

`BleLink` excuses four ways to a silent accessory, by name. A bike that keeps to a small MTU
stays connected without a subscription (`SmallMtu`; the code only warns). A refused
`ble_gap_terminate` is not tried again (`kept`). An attempt to advertise that
fails is not repeated before the next event; it may leave the LED as it was, even
green (`gaveUp`). A change of the device name is the fourth (`gaveUp = "renamed"`): it stops the
advertising until the host or the device resets (`MC_BleLink_rename.cfg`). That NimBLE raises no event for a
stop that the application asks for is taken from its host, which is not in the repository.
`HandlesAreFresh` says that the descriptor is one of this bike's; of several (`gatt_client.c:291` keeps the last) it does
not say that it is the right one: the code counts on a service with a single one.
Notifications left in the queue by one connection are
decoded in the next. The LED's "data activity" state (README.md:374) is never set.

The window of the Hue pairing is counted in attempts, two seconds apart; the time that
the attempts take comes on top of the minute.

A light that a rule toggles is not modelled: of a rule with several triggers one of which fails, no
cooldown starts (`automation.c:1113`), and the next change toggles again what was toggled.

`WifiAdmin`: after the last retry the station never tries again, and no setup
access point is started while the device runs; `OfflineIsExplained` names this case. A second
`POST /save` is not refused while a reconfiguration is under way.

`AutomationRules`: an edit that overtakes the refresh at boot leaves a flag that does not follow the rules until the
next edit (`blind`).

`PersistentLog`: the results of remove and rename are not looked at; after a rename that failed the file grows
beyond its size (`stuck`).

`HomeAssistant`: there is no last will, so a client that ends without a
session leaves its device "online" (`unsaid`). A mixture of settings that a reset leaves
in NVS stays until the next save.

`OtaUpdate`: a second upload within the 1.2 s before the restart erases the slot that
is to start; the device then starts an older image.

### Not modelled

HTML, JSON and MQTT payloads, the Wi-Fi scan, DNS and mDNS, the HTTP clients: pure input and output around the
state that is modelled. The blink patterns of the LED and its settings, the settings of the export
and the device name: single values, saved key by key like those of Home
Assistant. The interval arithmetic and the export of the log in
`telemetry_export_task`: the task posts a copy of the ring and keeps nothing.
The list of lights that the Hue page caches. Build scripts.

## 7. Plan

The modules were written in the order of section 2: first what must not lose data or
deadlock, then the protocols, then the settings. What would come next: the export of the log; the settings of the export with the
exporter that reads them while they are saved; and the arguments behind the liveness properties as
far as they are safety properties: what decreases with each step of the discovery chain
and of a retry.
