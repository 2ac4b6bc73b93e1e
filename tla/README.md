# Soundbox firmware: formal models

TLA+ models, model-checking runs and machine-checked proofs of the firmware of the
EG800AK static-QR payment soundbox (`src/interface/soundbox`). A merchant's customer pays
by scanning a QR code; the cloud tells the device over MQTT; the device enters the payment
in a ledger on flash, acknowledges it, and announces the amount. What has to be right is
spread over tasks, queues, callbacks and files: that is what these models are about.

The vendor SDK (RTOS, MQTT and HTTP client, modem, file system) is not modelled for itself:
it appears as environment actions, from the way the firmware calls it.

## 1. The system

Tasks are created at boot by `sb_app_entry` (`sb_app_main.c`): network, HTTP, MQTT, serial,
SMS, business, audio, supervisor. They share the configuration, the ledger and the status
records, each behind its own mutex, and talk through RTOS queues that are always posted to
with `QL_NO_WAIT`: a full queue drops what it is given.

| Component | State | Operations | Talks to |
|---|---|---|---|
| Storage (`sb_storage_fs.c`) | files of the U: drive | read, atomic write (temporary file, remove, rename) | ledger, configuration, mode, certificates |
| Ledger (`sb_transaction_ledger.c`) | ring of 32 payments, daily totals, one file | add, last, daily, reset daily, load | called by payment processor, keys, commands |
| Configuration (`sb_config.c`) | RAM copy, active slot and sequence, two slot files | init, get, commit | volume keys, commands, serial line |
| Message pools (`sb_mqtt_service.c`) | used flags, message slots, index queues | alloc, fill, release, receive, free | MQTT task and every publisher |
| MQTT session (`sb_mqtt_service.c`) | state, failure count, client and socket, reported flags | wait, check, connect, loop, leave, cool-down | network status, event bus, pools |
| Payment path (`sb_payment_processor.c`, `sb_business_service.c`) | the message in hand | parse, look up, enter, acknowledge, announce | ledger, pools, audio queue |
| Network (`sb_network_service.c`) | task state, online flag, callback flag | SIM check, register, data call, poll, callback | event bus; polled by MQTT and HTTP |
| Event bus (`sb_event_bus.c`) | queue of 24 events | post, wait | everybody posts, the supervisor reads |
| Supervisor and LED (`sb_supervisor.c`, `sb_led_status.c`) | LED state, base state, acknowledgement count, alert flags | one reaction per event | audio queue, key actions |
| Business keys (`sb_business_service.c`) | key state, configuration copied at boot | short and long presses: volume, last payment, summaries, health | configuration, ledger, audio |
| Serial line (`sb_serial_service.c`) | line buffer, pool and queue of lines | cut bytes into lines, hand them to the diagnostics, write the reply | diagnostics, the host's tool |
| Diagnostics (`sb_factory_diag.c`), also for text messages (`sb_sms_service.c`) | the upload in progress | read - change - commit of the configuration, file upload in chunks, mode, tests | configuration, mode, audio, files |
| Commands (`sb_command_dispatcher.c`) | configuration copied at boot | the shipped build answers ping and rejects the rest | ledger, pools |
| Audio service and HAL (`sb_audio_service.c`, `sb_audio_hal.c`, `sb_audio_asset_store.c`) | request queue, script in hand, cache file, completion semaphore, last status | enqueue, validate and play a script, fall back, player callbacks, time-out | the SDK's players, NOR assets, event bus |
| Amounts (`sb_json.c`, `sb_payment_processor.c`) | none | text to paise, by three readers | payment path |
| Prompts (`sb_audio_prompt_logic.c`, `sb_audio_script.c`, `sb_amount_tokenizer.c`) | none | amounts, counts, percentages and states to scripts of clips | audio |
| NOR assets (`sb_audio_asset.c`, `sb_audio_asset_manifest.c`, `sb_ext_nor_flash.c`) | manifest, read at boot | look up with other spellings and in English, read a chunk | audio |
| Keys (`sb_hal_key.c`) | last level seen, queue of keys, interrupt on or off | edge interrupt, debounce task | event bus |
| HTTP (`sb_http_service.c`) | state, back-off | registration cycle | network status, event bus |
| Mode (`sb_mode_service.c`) | mode in RAM and a file | get, set | diagnostics |

What is hard here: power cuts between any two file-system calls; payments delivered again
by the broker, before or after a restart; queues that drop; a publication that fails after
its message left the queue; the modem's callback beside the task that polls the same link;
events that reach the LED in an order nobody chose; retry and cool-down; copies of the
configuration that are stale when they are written back; interrupts that are off while the key
they watch moves on; a host that gives up and starts again while the device still works on its
last commands. `PROJECT.json` lists each of these
under "hazards" with its line and the property that covers it.

## 2. Modules

```
StorageFs ── Ledger ── LedgerRefinement ──(implements)── PaymentWindow
    │           └───── LedgerProofs                           │ instantiated by
    └─────── ConfigStore ── ConfigRefinement ──(implements)── │ ConfigCell
                                └─ ConfigProofs               │
MessagePool ──(implements)── Channel                          │
    └─ PoolProofs ───────────────────────────────────── PaymentFlow
EventBus ─┬─ Network ── MqttLink ─┬─ Connectivity ── ConnectivityProofs
          └─ Supervisor ──────────┘
AudioPlayer ── AudioProofs
Prompts ── AmountText ── AmountProofs
EventBus ── Keys ── KeyProofs
ConfigWriters ── WritersProofs ── Upload     (ConfigWriters INSTANCEs ConfigCell)
```

**StorageFs** is one call of `sb_storage_fs_write_file_atomic`, one action for every
file-system call: remove the temporary, open, write with sync and close, remove the final,
rename, and the discarding of the temporary on an error. `FsFaults` names the calls that may
fail. A file is `Absent`, `Torn`, or holds an image; the length and CRC checks decide between
the last two. Its clients hold their mutex over the whole call, so each client module EXTENDS
it and adds what happens before and after; a power cut (`FsCrash`) may come between any two
steps.

**Ledger** keeps `s_ledger` as in the code: write index, count, daily totals, array. `Add`
and `ResetDaily` are the API calls up to the beginning of the save, `SaveStep` the file-system
calls, `UpdateDone` the return, `LoadStored` and `LoadDefaults` the two outcomes of
`sb_ledger_load`. The mutex is the guard `svc = "ready"`. **PaymentWindow** is the same
promise without slots, indices and files, and **LedgerRefinement** maps one to the other.

**ConfigStore** has the RAM copy, the active slot and the sequence number, with a commit that
writes the other slot. **ConfigCell** is one durable configuration that is written atomically;
**ConfigRefinement** is the mapping. `SlotRot` is the decay of the older of two valid copies. That
the newest copy decays or cannot be read (`"read"`) costs its configuration: the older one is
there for that, and nothing in the code could do better.

**MessagePool** is `sb_mqtt_pool_alloc`, the unlocked fill, the index queue, the unlocked copy
and `sb_mqtt_pool_free`, with several senders and a receiver; it stands for the receive and
the transmit pool. **Channel** is a bounded FIFO.

**PaymentFlow** follows payments through the device. It uses what the modules above promise:
the ledger is an INSTANCE of PaymentWindow, the queues are bounded sequences. `Take...` are
the outcomes of `sb_payment_processor_handle_message`, `Ack` and `Announce` its two posts, `Publish` the
drain of the transmit queue, `Play` the audio task taking a request up; what happens to it after that is
AudioPlayer's business. A save has three steps: `SaveGap`, after which the drive has no ledger file, `SaveDone`, and
`SaveFails`, which may come before or after the gap; after each of the last two the task goes on to
acknowledge, because the ledger ignores the result. `LoadDefaults` is a boot that cannot read the file
and writes an empty one, `Poll` the daily reset every thirtieth turn of the task's loop. `forgets` counts for each payment how
often its record was lost: pushed out of the ring, not on the drive when the power went (`unsaved` says that the last save
failed or is in its gap), or unreadable. What the device knows of a payment is only its record, so that
this count is what both safety properties except.

**EventBus**, **Network**, **MqttLink** and **Supervisor** are one module per task (and
queue), **Connectivity** composes them. In Network the modem's callback `DataCallCb` is an
actor of its own: a change of the data call and its delivery are two steps, and the task polls
in between. In MqttLink every step of a connection (socket, session, two subscriptions) may
fail, each with the clean-up the code has for it (`NoSocket`, `NoSession`, `NoPaymentTopic`, `NoCommandTopic`), and
`Leave` is `sb_mqtt_disconnect`. `opened` is what is open of client, socket, session and subscriptions; `SignedOff`, `HungUp` and
`Released` are what the three SDK calls close of it, so that a forgotten call leaves its part behind. The only things the tasks share are the `online`
flag, set one step before it is announced, and the event queue. `sb_app_entry` goes on when a
service does not start: `started` is the set of services a boot has, one of `Boots`. The alerts
about SIM, MQTT and battery are left out of the Supervisor: each has a flag of its own that no
other alert touches. `overlaid` is the history of what the LED goes on showing although the connection is there: since the last
good news of the network or MQTT task another service reported a fault, a message found the receive pool full, or
the modem restored the data call by itself, which nobody announces.

**AudioPlayer** is the audio task with the SDK's players beside it. `job` is the request in
hand: its kind, which script it is playing (`own`, the payment's `fallback`, or the `sorry`
tune), and the item. `FileMissing` is the chain of replacements, `Prepare` the copy of a NOR
prompt to the one cache file, and the three ways of playing a file are `Start` (`ql_play_mp3`),
`OldStart` (`ql_mp3_file_play`) and `StreamDone` (the stream the task feeds itself). All three
share `sem`, the completion semaphore, and nothing in a token says which playback it belongs to.
`decoders` are the playbacks the SDK has running, `old` is the old player. A playback may end at any moment, also
between the time-out of its wait and its stop. `Untidy` says what a player may do besides: report the end of the
file and the end of the playback (`"readed"`), or report the end of a stream that was stopped (`"stream"`). `astray` is the
history of an end that came when the task did not wait for it, or came twice: true from then until a request
finds players and semaphore at rest. The amplifier and the value of the volume are left
out: the SDK switches the amplifier as well, through a callback of its own.

**Prompts** holds what the soundbox says as functions: `Number` is `sb_logic_append_number`, the
scripts are those of `sb_audio_prompt_logic.c`, `Tokens` the tokenizer beside them that nothing
calls, and `Found` the search of the manifest. A clip is a number or a word; `Pack` is what each
language's folder has. **AmountText** gives one text to the three readers of amounts, a character
per step: `CompatRead` and `DecimalRead` and `IntegerRead` are the bodies of their loops, with the
size of the buffers (`TextLen`) and the wrap of the integers (`U64`) scaled down. What is written
(`WrittenPaise`, `IsPrice`) and what a listener makes of a script (`HearClip`) are the references
the code is compared with; they are not taken from it. `PackAssumption` says what vocabulary a
pack must have. `MCAmountText` gives `Pack` the contents of `Vi_mp3.zip`, of which the only
clips left out are tunes and prompts no script here names.

**Keys** goes from the pin to the action. `Flip` is a change of the pin, with the interrupt
`sb_key_irq_post` in the same step when it is on; `TakeKey`, `Sample` (or `SampleFails`) and
`Enable` are the rounds of `sb_key_task`: wait and sleep, read the pin and post, switch the
interrupt on again. `Handle` is `sb_business_service_handle_key_edge`, called by the supervisor
when it gets to the event. `finger` is what the user did, as somebody beside the device would tell it, and
`missed` are the keys with an edge between the reading and the switching on, the one moment an
edge is not seen.

**ConfigWriters** composes those who write the configuration on top of ConfigCell: `VolumeKey` and
`VolumeDone` are `sb_business_save_volume` up to and after its commit; `GetConfig`, `TellVolume`,
`CommitConfig` and `ConfigSaved` or `ConfigNotSaved` are `sb_factory_commit_config_from_json`, on the
serial line and in a text message; `SetMode` with `ModeSaved` or `ModeNotSaved` is `sb_mode_set`;
`Restart` is a power cut and the boot, where the business service takes its copy and fills in the
device's number (`Expand`, which is assumed to give the same number every time). `FileOverSlot` is an upload over the file of a slot: the build defines
SB_SERIAL_FILE_PROVISIONING_ENABLED (`Makefile:90`), so that a locked device takes it too. After it (`replaced`) the cell
is one no longer until the next boot: the boot may take the upload, the other slot or the defaults, whatever a commit
returned. `saved`, `lost`, `mixed`, `rift` and `sealed` are histories for the properties.

**Upload** composes `tools/soundbox_uart_ufs_push.py`, the line, the commands `file_begin`,
`file_chunk` and `file_end`, power cuts and the boot, which writes a certificate of its own where
there is none. `Start`, `GoOn`, `Rejected` and `NoReply` are the host; `Arrives` is a line on its way
through the UART callback into the queue, or lost; the others are the handlers, each with its reply.
A reply the host has given up on stays in its buffer or is still to come, and a new run reads it as
its own. A changed `file_begin` may carry any size, and a CRC that is the host's, another one, or none that can be
read, which the code takes for 0; a changed `file_chunk` may be shorter. `confirmed` is `"yes"` if the CRC was compared and `"sized"` if only the size was.
One file is followed; uploads of other paths in between are left out.

`MC*.tla` and `MC*.cfg` instantiate them for TLC; `*Proofs.tla` hold the theorems. Definitions
that a comment calls "Variant:" are plausible mistakes in the operation they precede; no
specification uses them, they exist to show that each property would notice.

## 3. Runs

| Run | Instance | Shows |
|---|---|---|
| `ledger` | 3 transactions, ring of 2, 2 dates, 2 payments a day; writes, renames and reads fail, the file decays, power goes anywhere | no payment twice, totals match the ring, a reboot returns what RAM held unless the last save failed, the ring implements the window |
| `config` | 3 configurations, sequence numbers up to 4, any call of a commit fails, the older copy decays, power goes anywhere | the boot always knows which slot is newer; commits are atomic |
| `pool` | 2 senders, 3 slots, 2 messages | one owner per slot, room for what was allocated, a FIFO channel; every message with a slot arrives |
| `flow` | 2 payments with and 1 without a JSON body and a bad message, 3 deliveries, queues of 2, 1, 1, ring of 1; saves that fail, two power cuts, also in the gap of a save, a file that cannot be read | announced once, and again at most once for each time the record was lost; an accepted acknowledgement is backed by the ledger unless the record was lost; queued payments are entered, queued announcements are heard |
| `audio` | payment of two prompts, its fallback of one, a prompt, the error tune; a queue of 1, 2 playbacks at a time, 2 prompts and the tune, any of them missing; players that answer, fail, stay silent, end late, or report a stream's end when it is stopped | no playback and no token outlives its turn, what is reported as done was heard, and the cache is not replaced while it is read, but for ends the task did not wait for (`astray`); a missing file ends in the error tune; a full queue drains |
| `audio_late` | the same with players that report one end per playback | the cache is replaced while it is read, once an end came between time-out and stop (expected violation) |
| `amounts` | every text of up to 8 characters of `0`, `2`, `.` and one other; buffers of 6, integers that wrap at 2 * 10^7; the shipped pack in ten languages, every provider | each reader gets the number the text says or refuses it; a listener understands the number that was read, also as a count or a percentage; each clip of a rupee or more is found |
| `connectivity` | every disturbance, a queue of 1, failure limit 2; boots with the MQTT service and boots with all but it | each failure of a connection closes what was open; the circuit breaker, key acknowledgements give way, alerts alternate |
| `connectivity_live` | network and MQTT, a queue of 2, failure limit 2, a modem that may restore a data call by itself | the LED of a connected device says so; offline is shown; the device reconnects |
| `keys` | 2 keys, down or up at boot; an event queue of 1, other events, a supervisor behind by any time; pins that cannot be read; a long press of 2 ticks, 2 ticks in all | a key whose interrupt is off has the debounce task coming; a key that can interrupt is where it was last seen; a press leads to the action that fits its length; a change that lasts is seen |
| `controls` | volumes 0 and 1, a profile with and without the device's number and one with SMS recovery; failing commits and saves, a full audio queue, power cuts and uploads over a slot at any moment | the volume heard is the one stored; what was saved stays; locked stays locked, and fixed |
| `upload` | 3 chunks, a queue of 3, at most 2 unread replies, any number of runs; lost, changed, refused lines, changed sizes and CRCs, lost and spoilt replies, failing opens, writes and syncs, power cuts | a confirmed file stays; success was confirmed; failure has a cause of its own |

Why these bounds: a ring of two wraps, evicts and has both a full and a partly filled state;
three transactions are what it takes to evict and redeliver; two dates make both a rollover
and a return to an earlier date. Two slots and four sequence numbers cover a boot from either
slot with a commit to either. Two senders are what a slot race needs, and three slots let
both hold one beside the receiver. In the `ledger` run a failing mkdir or
open is left out because it leaves the drive as a failing write does; failing removes are in `config`. Queues of one or two are full in most states, so every drop
happens. In the `audio` run a script of two items has a first and
a last one, two playbacks and two tokens are one more than the code means to have, so that a
second one would be seen, and every subset of the files is an initial state.
A breaker limit of two has a failure that does not trip, one that does, and a session
between them; the theorems are for every limit. In `connectivity_live` a queue of two holds the
reports of two of the three posting actors in either order, and is full at the third. In `flow`, three deliveries and a ring
of one are a payment, another that pushes it out, and the first again (rings that hold more are in `ledger`); with two power cuts a
record can be lost twice. The ledger runs use symmetry of the transactions;
the runs with liveness use none.
In `amounts`, eight digits reach the crores; `0` and `2` make every group empty or not, and 2, 20 and 22 are
on both sides of the numbers that have a clip of their own; the buffer and the wrap are smaller than the longest text.
In `keys`, the queue of the debounce task has room for each key once, which is the claim; two keys
are enough for one to wait while the other is debounced, and two ticks for both a short and a long
press. In `controls`, two volumes are both ends of the range, and one step apart; the three profiles are one
that the boot changes, the result, and one that starts SMS recovery. In `upload`, of three chunks one can
be lost, one come twice, and one follow; a queue of three holds a whole run's end and the next one's begin.
DailyBound, MaxSeq, MaxArrivals, MaxCuts, MaxChars and MaxClock bound counters that grow without limit in the
code; `FewReplies` bounds the host's buffer. The failure count is cut at FailLimit because the code only compares it with the limit.

### Where the code and its texts disagree

One run is expected to end in a violation; `PROJECT.json` quotes the text it contradicts.

- `audio_late` (`CacheIsReusedAfter`): a playback that ends between the time-out of its wait and its stop leaves a
  token in the semaphore. A later wait takes it for the end of its own playback, which goes on
  while the next prompt is copied over the cache file it reads.

More things the models show, listed among the hazards because no text of the
repository promises otherwise:

- the "atomic write" removes the final file before it renames the temporary one, so that for a moment
  the drive holds no ledger file, and a power cut at that moment makes the next boot start from an
  empty one. The configuration survives the same gap, because the gap is in the slot it does not run from;
- missing certificates are reported once, and the SB_EVENT_DATACALL_READY of a later data call turns the
  LED back to solid on, without a session;
- a volume key pressed between `"config_saved"` and the restart commits the copy the business service took at
  boot, with the new volume in it, and so undoes what was saved. `docs/soundbox_phase9/PHASE9_TEST_PROCEDURE.md`
  restarts the device after `set_config`; nothing makes it. This is the first half of `lost` in `SavedIsKept`;
- two writers at once (serial line, text message, volume key) undo each other's change, because the mutex
  covers a get and a commit one by one (`mixed`, the second half), and may leave the audio task with the other's volume (`rift`);
- the volume of a `set_config` is in force although its commit failed, and a volume that finds the audio queue full is
  stored and not heard until the next boot (`rift`);
- `set_mode` that fails to save leaves the new mode in force until the next boot, which finds the old mode, or
  none and then starts in production;
- a locked device takes uploads over `U:/config/`, where both slots of the configuration are (`FileOverSlot`): `LockedIsFixed` holds
  but for them;
- an edge between the reading of a key's pin and the switching on of its interrupt is not seen, and the key is
  taken the wrong way round until its next edge (`missed`); the same after a pin that could not be read;
- `file_end` compares no CRC if the one announced is 0, and 0 is also what is left of one that could not be read, so that
  a changed upload may be confirmed by its size alone (`confirmed = "sized"`); the result of `ql_fsync` is not used, so that a
  file may be confirmed and gone after a power cut (`confirmed = "undone"`); `file_begin` removes the old file,
  and a certificate that was cut short by a power cut is not replaced by the boot, which only looks whether there is a file;
- the host's tool takes any `"status":"ok"` for the reply to its last command: started again while the device is
  still working on the commands of its last run, it may end without an error with nothing confirmed (`shifted`);
- a failing save of the ledger goes unnoticed: `Add` returns, the payment is acknowledged as
  accepted and announced, and a power cut forgets it, so that a redelivery is announced again; `unsaved` says when a
  reboot forgets (`RebootKeepsLedger`), `forgets` what was forgotten (`AnnouncedOnce`, `AcceptedAckIsKept`);
- a payment that finds the audio queue full is entered and acknowledged as accepted, and never heard:
  the result of `sb_audio_service_play_amount` is ignored;
- the pack the repository ships has no clip for zero in any language, so that an amount below a rupee is
  announced without its amount (`ScriptsArePlayable` without `Rupees(a) > 0`);
- the readers of amounts differ: `.50` is 50 paise to the compatible format and refused in JSON;
  JSON ignores what follows the second decimal and what does not fit its buffer, the compatible
  format refuses both; all of them wrap at 2^64; and an amount above 999,999,999 rupees is accepted
  and entered and never announced, not even without its amount (its script is not built);
- a publication that fails has already freed its slot, so its message is lost (`sb_mqtt_service.c:535`); nothing in the repository
  promises that an acknowledgement survives;
- a message without a transaction id gets one from its CRC and the system tick, so that a redelivery is a new payment
  (`sb_payment_processor.c:225`); the texts promise the detection of duplicates by transaction id only;
- a data call that the modem restores by itself between two polls posts a fault and no
  recovery, and the LED stays at no internet; a message refused by the full receive pool is reported as an MQTT fault
  and shown as "no MQTT" until the next good news (`ConnectedIsShown` without `~overlaid`);
- a player that reports the end of the file and then its own end leaves a token too, and so
  does a stream that reports its end after it was stopped (`PlaybackIsClosed` without `~astray`, with
  `Untidy = {"readed"}` or `{"stream"}`). Whether the SDK's players do either is not visible in
  the repository;
- a request that finds the audio HAL not ready is dropped when the retry fails, whatever it asks.

### Fairness

- Messages: `WF` on each sender's steps after an allocation and on the receiver. The receiver
  of the receive pool is the business task, which waits on its queue only. For the transmit
  pool the receiver runs only while a session is up, and the liveness half of `pool` says nothing about it.
- Payments: `WF` on the business task and on the audio task; neither waits for anything but
  its own queue, and the posts never block. Nothing is assumed of link, broker or modem.
- Audio: `WF` on the audio task alone. It waits for its queue and, always with a time-out, for
  the semaphore; nothing is assumed of the players, which may stay silent for ever.
- Keys: `WF` on the debounce task, which waits for its queue and sleeps for a fixed time. Nothing is assumed
  of the keys, of the event queue or of the supervisor.
- Connectivity: `WF` on the callback and the supervisor, `SF` on the network and MQTT tasks.
  Their sleeps end whatever the others do; the guard `Slept` only says that a sleep of seconds
  outlasts the supervisor's backlog (`LongSleeps`), and must not be used to hold a task back
  for ever. `Reconnects` assumes in its statement that SIM, operator and modem stop failing
  (`<>[][~Setback]_conVars`), that data call and broker stay, and that no event was dropped.

## 4. Proofs

All theorems hold for every value of the constants under the modules' ASSUMEs; a condition beyond those
is written in the theorem and named below. The type invariants (`LedgerTypeOK`, `ConfigTypeOK`, `PoolTypeOK`,
`FlowTypeOK`, `AudioTypeOK`, `KeyTypeOK`, `WritersTypeOK`, `UploadTypeOK`) are proved as parts of the inductive
invariants. Each inductive invariant was checked with TLC before it was proved.

- **LedgerProofs**: `LedgerTypes`, `NoPaymentTwice`, `DailyTotalsMatch`, `SavedLedgerSurvives` and the refinement
  `LedgerIsPaymentWindow`.
  `NoDuplicatePayment` and `DailyMatchesRing` are not inductive: a restart loads what a save left on the drive, so
  `LedgerInv` adds that the image in flight and both files are sound, and that at the rename
  the temporary file is the image in flight. The ring arithmetic (`NextSlotWraps`, `NewestAfterRecord`,
  `RecordedSound`) is in lemmas of its own: a payment entered in a sound ring leaves a sound ring, in which each
  older payment is one place further back. The sum over the newest payments is a recursive function; `SumIsTotal`
  shows that it satisfies its equation, and `SumAfterRecord` what a new payment adds to it.
  `SavedLedgerSurvives` needs no assumption on the drive: the only exceptions are that the last
  save failed or that the stored file has decayed since, and `unsaved` remembers both.
  In the refinement, `Add` and the new day are the steps of the abstract window, the rename that ends a save
  is its Persist, a step that leaves no readable ledger file its Lose, and every other
  file-system call a stutter; `BlankUntilUp` says that a ledger that has not answered yet is blank.
- **ConfigProofs**: `ConfigTypes`, `ConfigSurvives`, `SequenceNumbersDiffer` and the
  refinement `AtomicCommits`, if a boot reads what is valid (`DriveKeeps`); every other call may fail and the
  older copy may decay. The invariant relates the slots to RAM: the
  active slot holds what RAM holds, and the other slot an older number, or during a commit the
  next one.
- **PoolProofs**, about MessagePool: `OneOwner`, `ReleaseSucceeds` and the refinement `PoolIsChannel`, for every depth
  and every number of senders. That a release finds room is a counting argument: queued slots, the releasing
  sender's slot and the receiver's are distinct used slots, so the queue is shorter than the pool.
  In the refinement a release is the abstract send and the copy the abstract receive; what is in transit is the
  message of the slot in the receiver's hand followed by those of the queued slots, and `SlotCarriesMessage` - nobody
  writes a slot between its filling and its copy - makes the order of the slots the order of the messages.
- **PoolProofs**, about PaymentFlow: `NoSecondAnnouncement` and `AcceptedIsRemembered`, for all sets of messages,
  depths of the queues, sizes of the ring and numbers of deliveries and power cuts, with saves that fail and files that cannot be read.
  `FlowInv` relates the places a payment can be in to the losses of its record: `Kept` says that the announcements made, queued and in
  hand are at most as many as its losses, and one more only while it is on record (`OnRecord`: in the ledger, in RAM or, while the device is off, in its file);
  and `FileFollows` that the file is the ledger but for the payment being saved, unless `unsaved` says otherwise. A second
  delivery of a payment on record is then found and announced no more, and every step that takes the record away counts in `forgets`.
- **ConnectivityProofs**: `CleanReconnection`, `ExactBreaker`, `AcknowledgementEnds` and
  `AlternatingAlerts`, over the composition of all tasks. `SessionInv` gives what is open as a
  function of where the MQTT task is (`OpenInv`, to which each of the four clean-ups and the disconnect is held), and relates the breaker's count to the failures in a row,
  one of which it lags behind while a failure is being handled; `LedInv` and `AlertInv` are the
  supervisor's. None of them mentions the event queue: these theorems hold whatever it drops.
  `ConnectionIsShown` is about the queue. `WillShow(events, led.base)` is what the LED will show when all the events are
  handled: the last one that sets the LED, or without one the LED, says internet. `ShownInv` is that this is so
  whenever session and data call are up, if nothing was dropped or is `overlaid`: the announcement of a data call and that of
  a session may come in either order, and since a data call that is up has no `"down"` left to deliver, nothing
  bad comes after both. It assumes nothing of the services or the modem: what others report after the last good news is the
  exception `overlaid` in the property itself, and every good news ends it. A failing query of a healthy
  data call, a full receive pool, other services, and sleeps of any length are covered by the theorem and not by the run.
- **AudioProofs**: `AudioTypes`, `NoStalePlayback`, `CacheUntouched`, `DoneWasHeard` and `ErrorTuneIsTried`, for every
  script, set of files, number of playbacks and manner of the players. The invariant of the second to fourth is
  `QuietInv`: while the task waits, either the playback runs or its token is there, never both, at a time-out it is the
  playback, and elsewhere all are at rest. A late end, or an end reported twice, breaks it, and the next wait that takes the token
  breaks more; the invariant is therefore `Quiet`, which claims it while nothing is `astray`. That `astray` ends only where players and semaphore
  are at rest and the script begins anew (`AstrayEnds`, `QuietRestart`) is what brings it back. `HeardInv`
  relates the history `heard` to the item the task is at and to the status or state the last callback left, in the same way
  (`Heard`). `ErrorTuneIsTried` is an action property.
- **AmountProofs**: `AnnouncementsArePlayable`. A script is followed from its parts: `Part(lang, s, n)`
  says that `s` has at most `n` clips, all of the vocabulary; one lemma joins two parts, and each function
  of Prompts has a lemma with its own `n` (a number has at most 13 clips, a payment 33, a summary 46,
  of the 72 a script has room for). `ReaderTypes` is the invariant of the readers.
  `AmountsAreRead`: `Reads(t, n, place, ...)` relates what a reader has to the text so far, which begins with
  `n` digits, and says where the reader is: among them, past the point, or where nothing counts any more;
  one lemma per kind of character extends it by one (`ReadRupee`, `ReadPoint`, `ReadDecimal`, `ReadPast`), and `GrowthWraps` is why a
  counter that wraps at each digit is the value modulo its width. `CompatSees` is the same for the reader that refuses
  a text, `SeesInv` the three readers together.
  `AmountsAreHeard`: `Leads(h, s, k, m)` says that `s`, of at most `m` clips, takes a listener from `h` to `k`;
  `Then` joins two parts, and each function of Prompts has a lemma with what it adds to the listener, whatever he
  has heard before. Every spelling of a clip is understood the same, and the tokenizer's numbers are those of the prompts.
- **KeyProofs**: `NoDeafKey`, `RoomInQueue`, `ListenerSees` and `RightAction`. `NoKeyGoesDeaf` needs `QueuedOnce`, no key twice in
  the queue; with it, the queue is an injection into the keys, and since a key that can interrupt is not in it, it is shorter
  than the number of keys, which is at most its depth. `ListenerAgrees` needs the same already in the step
  before the interrupt is on (`SeenWhenListening`). `RightAction` relates the queue of events to what the finger
  did: `Fits` says that each event of a key asks for what it will lead to from the event of the same key before it, or
  from what the supervisor has if there is none, and that the last one makes of the key what was told (`Told`); handling the first
  event and posting one keep it (`FitsHandled`, `FitsPosted`), however many events of other keys are in between. `PressIsNew`
  says that a press the device has not seen is as old as the clock, because the debounce task is about to look.
- **WritersProofs**, about ConfigWriters: `OneVolume`, `SavedStays`, `LockStays` and `LockedStaysFixed`. `OneCommit` says whose the commit in
  progress is and that the stored configuration is the running one or the one being committed; `Volumes` gives
  the volume the audio task was told at each step of a command, as long as no two writers have met; `Uploads` says that an upload over a slot ends
  what the histories promise, so that the other parts need not speak of it; `SavedProfile`
  says that the running configuration and the copy in a key's commit are what was saved. `LockedIsFixed` is an
  action property and follows from the invariant step by step.
- **WritersProofs**, about Upload: `ConfirmedFileStays`, `DoneMeansConfirmed` and `FailureIsExplained`, for every number of
  chunks and every length of line and queue. `FileIsCounted` ties the open file to the counter of the device
  whatever size and CRC were announced; `OneAtATime`
  says that a run which found the line empty has either its one command on the way or the one reply to it, so that
  the `"ok"` it ends with is that to its `file_end`; `InStep` says that while nothing has gone wrong the device has exactly the chunks
  the host has sent, so that it has no reason to refuse one.

The arguments by induction over the natural numbers (the sums of the ledger, the value of digits, a listener after each clip) go
through `LeastMember` and, in AmountProofs, `UpTo`: a set of
naturals that is not empty has a least element, from the library's theorems on well-founded orders that take a set; the
library's induction theorems, which take an operator, cannot be used.

Only model-checked: liveness (out of the prover's reach, as is ENABLED), that is the temporal half of `pool`, `flow`, `audio`,
`connectivity_live` and `keys`. Every invariant and action property of the runs is a theorem, some under an assumption
on the constants that is named above (`DriveKeeps`, in the theorems of ConfigProofs only).

## 5. Not modelled

- Parsing of messages other than their amounts (three outcomes instead), fields that are clamped
  by the sanitizer, CRCs other than as "valid or not", logging, blink patterns, the events the
  supervisor only logs, signal quality, and the secret that `set_sms_auth` stores in a file of its own.
- The command dispatcher: without SB_ENABLE_INSECURE_CRC32_COMMAND_AUTH it rejects all but ping. With it,
  `set_volume` would be one more writer with a copy of its own taken at boot. The two other build flags
  that open a locked device (SB_FACTORY_SERIAL_DEFAULT_ENABLED, SB_ENABLE_INSECURE_SMS_RECOVERY_PROVISIONING)
  are left out of ConfigWriters for the same reason: the Makefile defines none of the three. It does define
  SB_SERIAL_FILE_PROVISIONING_ENABLED, and that one is modelled (`FileOverSlot`, and Upload).
- The HTTP cycle: a loop of its own that posts events; its back-off is a clamped counter. Time and SIM are
  polled values. Reading and deleting text messages: one task, one message at a time.
- The slots of the serial line: allocated in the UART callback and given back by one task, under one mutex.
- The LED test, which sets the LED's variables from the serial task without a lock: the C code promises no
  atomicity of the three variables, and what a build makes of the race is not visible in the source.
- Register-level code (board, GPIO, ADC, codec set-up) and constant data (certificates, profile).
- A system tick that repeats after a restart is left out of PaymentFlow: payments without a transaction id are
  new on every delivery. Transaction ids that differ only after 39 characters are one id to the ledger.

By lines, most of the repository is the vendor SDK's headers and libraries (`src/common`, LWIP, mbedTLS, zlib), of
which the firmware calls a few functions; they appear as environment actions. What is modelled is
the firmware under `src/interface/soundbox/src`. `PROJECT.json` gives the status of every component.

## 6. Plan

1. AudioPlayer as a player that plays one request at a time, in order: abstract specification
   and refinement; PaymentFlow on top of it.
2. Proofs: the safety half of the liveness properties (what a step keeps between the request and its answer), and the
   refinement of item 1.
3. ConfigStore in the place of ConfigCell in ConfigWriters, to see a decayed copy and a stale writer together.
4. The LED test beside the heartbeat, once it is known what the build makes of the three variables.
