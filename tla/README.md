# LuxDMX-v2 in TLA+

LuxDMX-v2 is an ESP32 gateway that receives Art-Net and sACN over Wi-Fi and
sends DMX512 on up to four outputs. This directory specifies the parts of the
firmware in which several actors meet - two cores and their tasks, the network,
the driver, the clock, flash memory, the bootloader and the devices on the line -
and says what is true of them. All definitions are translated from the C
sources; `PROJECT.json` names the lines of each.

## 1. The system

### Components

| component | state | operations | modelled in |
|---|---|---|---|
| live DMX buffer (`dmx_buffer.c`, `seqlock.h`) | per output 513 bytes and a 32-bit ticket; counter of failed snapshots; staging buffers | `dmxBufWriteBegin/End`, `dmxBufWriteEndSet`, `dmxBufSnapshot`, `commitArtSyncStaged`, `commitSacnStaged` | `DmxBuffer` |
| frame router (`frame_router.c`), merge engine (`merge_engine.c`), sender table (`sender_tracker.c`) | 16 table slots: address, protocol, universe, priority, levels, time of the last packet | `routeFrame`, `routeFrameNzs`, `mirrorSplit`, `updateSender`, `mergeOutput`, `applyLossMode` | `DmxRouter` |
| sACN (`sacn.c`, `sacn_pkt_queue.c`) | a multicast socket per output, a ring of 16 packets, per output a staged frame, its validity and its deadline | `sacn_init`, `sacn_poll`, `sacn_check_timeouts`, `sacn_dispatch_packet` | `SacnSync` |
| packet rings (`art_packet_queue.c`, `sacn_pkt_queue.c`) | slots and two indices | push, pop, empty | `PacketRing` |
| Art-Net (`artnet.c`, `artnet_bridge.c`, `net_rx_task.c`) | a socket | poll at most eight packets every 2 ms, dispatch, answer polls | `ArtNet`, `Gateway` |
| DMX transmission (`output_init.c`, `dmx_tx_task.c`, `dmx_rmt_tx.c`) | one frame buffer, per output a handle, symbols and a channel | sanitise, initialise, snapshot, idle check, kick, encode | `Gateway`, `RmtFrame` |
| crash guard (`crash_guard.c`) | `dmxcrash` in flash, `cfg.outputs[].en` in memory | `dmxInitGuardBegin`, `dmxInitGuardEnd` | `BootGuard` |
| OTA (`ota_recovery.c`, `ota_manager.c`, `ota_sign.c`) | `boottry` in flash, the states of two partitions, the boot selection | `otaRecoveryInit`, `otaRecoveryMarkHealthy`, `ota_upload_handler` | `BootGuard` |
| `app_main` (`main.cpp`) | - | the boot order, restarts | each step with the component it starts |
| configuration (`config_engine.c`, `config_schema.c`, `config_json.c`, `config_serial.c`, `hw.c`) | `cfg` in memory, one key per setting in flash | migrate, load, template, set, save, import, export, dump, factory reset | `ConfigStore`; live changes in `DmxRouter` and `SacnSync` |
| Wi-Fi and portal (`wifi_manager.c`, `wifi_config.c`, `captive_portal.c`) | connection state, retries, access point, portal, DNS task, name and password in flash | events, back-off, access point, portal, scan | `Provisioning` |
| RDM (`rdm_engine.c`, `rdm_discovery.c`) | a stack of 64 ranges of identifiers, the devices found | discovery, packets | `RdmDiscovery`, `RdmPacket`, `RdmLine` |
| web server (`lux_web`) | - | reads snapshots, saves settings and credentials, scans, uploads images, restarts | actions of the modules above |
| logging, statistics, LEDs, syslog, cJSON, assets | rings and counters | input and output | - |

### How they interact

The network task (core 0, every 2 ms) is the only writer of the live buffers: it
takes datagrams from the Art-Net socket, stores each frame in the sender table,
merges for every matching output and mirrors along the split masks. The transmit
task (core 1, priority 19, every millisecond) and the web server task copy the
buffers without a lock; the transmit task copies into one frame buffer that all
outputs share, encodes it into the symbols of an output whose channel is idle,
and the peripheral sends those while the task goes on. The web server and the
console change `cfg` while the network task reads it, again without a lock.
sACN frames of outputs with Stream-Sync wait in a staging buffer for a Sync
packet or the end of a grace period. At boot `app_main` loads the settings, runs
two guards that count boots in flash, initialises the outputs, and decides
between joining a network and opening a portal. From then on the Wi-Fi driver's
events are handled one after the other by a task that sleeps while it backs
off, and the web server's setup form writes credentials that the next boot
loads. Settings, credentials, both counters and the images share flash with the
bootloader, which decides what runs next.

### What is hard

- a reader inside a 513-byte copy while brackets open and close, and the ticket
  wrapping (`DmxBuffer`);
- time and configuration moving between two steps of one packet's routing;
  sources that come, go and are evicted; merging by freshness (`DmxRouter`);
- loss in sockets and ring, datagrams that come between two sockets of one poll,
  grace periods racing Sync packets and newer frames, deadlines across the wrap
  of the clock (`SacnSync`);
- two cores in one ring, full and empty, with wrapping indices (`PacketRing`);
- two tasks and a peripheral sharing buffers, snapshots and transmissions that
  fail, settings and lengths nobody checked (`Gateway`);
- a panic, a power cut or a failed write between any two writes to flash
  (`BootGuard`, `ConfigStore`);
- events handled late against a link that has moved on, credentials saved in two
  writes, event numbers that collide (`Provisioning`);
- answers that overlay each other, lost and damaged bytes, a bounded stack and a
  bounded number of requests (`RdmLine`).

`PROJECT.json` lists these hazards at their lines, with the properties that
would notice, and the reason where no property covers one.

## 2. The modules

Every module has a type invariant, its properties stand at its end, and
definitions marked "Mutant" are plausible mistakes in the code: substituted for
the definition they precede, they violate one of the properties. `IInv` (in
`PacketRing` `RingIInv`, in `RdmLine` `LineIInv`) is the inductive invariant of
its module: the types and what the other properties rest on.

### DmxBuffer, AtomicFrame

The ticket lock, one step per load or store of a shared cell: `WriteBegin`,
`Store`, `WriteEnd`; `Call`, `OddTicket`, `EvenTicket`, `CopyCell`, `Accept`,
`Reject` and the two halves of `tornSkips++`. The barriers of the code make the
steps happen in this order; cells are copied in any order, as `memcpy` may. The
four kinds of brackets the firmware has are all there. `AtomicFrame` is what a
caller may rely on: a register holding one frame. `RefinesAtomicFrame` maps the
last completed bracket to its content.

The ticket is a word, so a reader that sleeps through 2^31 brackets would accept
a mixture. `MaxLag` bounds the brackets that start during one copy; the
assumption `2 * MaxLag < SeqMod` is exactly what correctness needs.

### DmxRouter

`Receive` is `updateSender` called by `routeFrame` (start code 0) or
`routeFrameNzs`; `ReadClock` the one clock reading of a packet; then one round
of `Skip` or `WriteStartCode`, `MergeDisabled | MergeNobody | MergeCommit`,
`ReadMask`, `MirrorSplit`..., `MirrorDone` per output. `Tick` and
`SetOutputValue` happen between any two of them. A bracketed write is one step
here, which `DmxBuffer` justifies. One merge reads the table and the
configuration in one step: the table has one writer, the same task, and a
setting is changed one field at a time. `clock`, `heard`, `origin` and `asOf`
are history, so that the properties speak of packets and time and not of the
table.

### SacnSync

The receive task runs `sacn_poll` once per tick - `Drain` for each socket in
turn, then `CheckTimeouts` - and `Dispatch` as often as it likes before or after
it; `SendFrame`, `SendSync`, `Tick` and `SetSync` are the environment and come
between any two steps. Sockets lose what does not fit, the ring drops what does
not fit. One source sends numbered frames, so that "older" has a meaning. In the
present firmware no task calls `sacn_poll` or takes packets from its ring; the
model is of the code as it is meant to be driven, by a periodic task that also
dispatches.

### PacketRing, PacketQueue

Producer and consumer with a step for each cell they copy. `PacketQueue` is a
bounded queue; `RefinesQueue` maps the slots between the two indices to it. One
module stands for both rings, which differ in capacity only. The initialisation
functions are `Init`.

### Gateway, ArtNet, RmtFrame

The path from a datagram to the line. `ArtNet` says what one datagram asks for,
`RmtFrame` how a frame becomes symbols and what a DMX receiver, who knows nothing
of the encoder, hears in them; the table of `init_lut` is a function from bytes
to symbols, and runs of equal bits are found by a recursive function. `Gateway`
composes both with the tasks. `Boot`:
`SanitizeOutputs` and `OutputInit` (which may fail) per output, then both tasks
start. `NetRx`: `Receive`, `Drop`, `StartRoute`, `HandlePoll`, and per output
`WriteStartCode` and `MergeOutput`, at most `MaxPerTick` datagrams before
`EndTick`. `DmxTx`: `Prime`, then per output `Snapshot` or `SnapshotFails` into
the shared `txFrame`, `KickOutput` if the channel is idle. `Carry`: the peripheral
reads the symbols in two halves, so symbols rewritten on the way would show.
Brackets and snapshots are single steps, which `DmxBuffer` justifies; a snapshot
may fail while a bracket is open. `packets` is history: the datagrams that were
routed. `Sendable` says which frames they account for, byte by byte as a
datagram's own length field counts them, without the code's copies and limits.

### BootGuard

One boot is `PowerOn`, one of the `Ota...` actions, `GuardBegin`, `OutputInit`,
`GuardEnd` or `GuardSkipped`, `WindowSurvived`, `StartServices`, then for an
image on trial `MarkHealthy` or `MarkFails`, and `ClearAttempts`. Each write to
flash is a step, `Fault` is its failure, and `PowerCut` or `Panic` may come
between any two. `hw` says which outputs have no pins, panic in
`outputInitAll`, or panic in the stability window; `bad` says which images
panic before they are healthy. `Upload...` and `ConfigSave` write flash on a
device that is up. The bootloader (`Start`, `Bootable`, `PowerOn`,
`BootloaderAborts`) is external and modelled by what the firmware relies on: a
new image becomes pending when it is first booted, an image that is not whole
is passed over, and a pending image may be given up by the bootloader itself.

### ConfigStore

Settings are keys with values from a small set; global keys are checked against
a range (`Validates`), keys of outputs are not. A start is `PowerOn` (or
`PowerOnErased`, when flash has to be erased), `MigrateSkip`, `MigrateCopy`,
`MigrateErase` per old key, `MigrateDone` and `Load`, which overlays flash on
the template of the board. A key in flash is of a type (`Type`): a field is saved
(`Put`) and loaded (`Readable`) as its own, but a migration copies a string or an
integer as what it was (`Migrates`), so a boolean under an old name is copied,
erased and never loaded, and one kept as a byte is not seen at all; `StartRestores`
says so. That writing a key replaces one of another type, and that reading it as
another type fails, is how ESP-IDF 6 keeps them. Then `SetValue`, `ResetToTemplate`, `Reload`,
`SaveBegin`, `Post` (an import and a save) and `FactoryBegin` in any order;
saving and erasing go key by key with `PowerCut` between any two, and `Fault`
makes one access fail, which the code ignores. `allowed` is history: what a start
may find for each setting.

### Provisioning

Four tasks: `AppMain` (`WifiManagerInit`, `NoCredentials`, `StaConnect`,
`StaConnectFails`, `Decide`), `EventTask` (one action per event of
`wifi_event_handler`; `HandleDisconnected` goes to sleep and `Reconnect` wakes
up), `WebServer` (`SaveSsid`, `SavePsk`, `StopPortal`, `Restart`) and `DnsTask`.
`Driver`, `NetworkChanges`, `SetupPost`, `WifiScan`, `LoseAddress` and
`PowerCut` are the environment. Events wait in a bounded queue, in order. `target`,
`accepted` and `lost` are history: what the driver was told to join, the last form
that was answered as saved, and whether flash failed on its password since.

Failures the code does not look at are modelled as it takes them: a password that
cannot be erased lets the form be accepted with the old one in place (`SavePsk`), a
commit that fails after the write is answered with an error, a password that
cannot be read is taken for an empty one and erased (`Read`), and a connection the
driver refuses after a back-off is not tried again (`Reconnect`, `link = "refused"`).
The text of the form is stored as the page spells it (`Encoded`): the handler does
not decode it, takes a name of 64 characters or more for none and refuses the form,
and cuts a password, the last field, at 63 (`Name`, `Word`, `Forms`). The status LED
is left out.

### RdmDiscovery, RdmPacket, RdmLine

`RdmDiscovery` is the search: one iteration of the loop of `rdmDiscRange` is one
step (`GiveUp`, `Record`, `Halves` with `Split`), and the line may answer
anything; `missed` records what a wrong answer costs. `RdmPacket` are the bytes:
`rdmBuild`, `rdmReadResp`, `rdmChecksum`, `rdmParseDiscoveryResponse`. `RdmLine`
puts the bytes under the search: answers of several devices overlay each other,
bytes are lost and damaged, and `RefinesSweep` shows that whatever the parser
makes of that is a step of the search. Lost bytes, a damaged byte and noise on a
silent line count as faults, and so does a collision that is heard as one
answer (`Answers`): one answer drowns the others, or what is left of two is by
chance the answer of a third device, checksum and all. Collisions that are heard
as collisions are no faults. The firmware does not supply `probe` and `mute` yet;
they are modelled by how the tests and the engine's interface use them.

## 3. The runs

| run | configuration | result |
|---|---|---|
| `dmx_buffer` | 2 cells of 2 values, 1 reader, 3-bit ticket, 2 attempts, lag 3 | 91,792 states; passes |
| `dmx_router` | 2 outputs, 2 slots, 3 sources, 6 packets of which 3 are routed, 3 ticks, 1 live change, two configurations | 1,100,326 states; passes |
| `sacn_sync` | 2 outputs, sockets of 1, 1 datagram per poll, ring of 2, frames 0-2, clock of 5, grace 1, 1 live change, two configurations | 285,162 states; passes |
| `packet_ring` | 3 slots, indices of two laps, packets of 2 cells | 110,394 states; passes |
| `gateway` | 2 outputs, 2 channels, 5 datagrams of which 2 arrive, socket of 1, two boards, 1 fault | 219,400 states; passes |
| `boot_guard` | 2 outputs, 4 boards, counter of 4, 2 tries, 2 cuts, 1 fault, 2 uploads | 151,941 states; passes |
| `config_store` | 2 global keys, one a secret, a number and a switch of an output with older names, 3 values, 1 cut, 1 fault | 2,961,129 states; passes |
| `provisioning` | 3 names, one stored too long to be loaded and one that does not fit the form's field, 3 passwords, one cut and one empty, 2 retries, 3 events, 1 form, 1 scan, 1 cut, 1 fault | 377,972 states; passes |
| `rdm` | up to 4 devices among 65,536 two-byte identifiers, 3 results, stack of 17, 2 faults | 126,995 states; passes |
| `loss_mode` | as `dmx_router`, 1 packet | `LossModeApplied` violated |
| `brick` | an output that panics in `outputInitAll` | `FaultyOutputIsolated` violated |
| `scan` | as `provisioning` | `DisconnectedIsDown` violated |

Why the bounds are enough to be interesting. The ticket wraps within the
brackets one copy may see, and readers share nothing but `tornSkips`, so one
reader shows what many would (the proofs are for any number). Two table slots
and three sources reach all four tiers; three packets give merges of two
contributors, one of them expiring within three ticks. Sockets of one datagram
lose the second, a ring of two drops the third, and frame 0, 1 and 2 can be shown,
staged and waiting at the same time; the clock wraps while a frame is staged. The
packet ring runs through several laps of both indices. In `gateway` two datagrams
suffice for one being sent while the other is merged; they are whole, cut off
before their claimed length, of another start code, a poll, or not Art-Net, and
the boards have a break and a universe out of range, missing pins and an inverted
line. Two power cuts, one fault and two uploads suffice for a good image after a
bad one and for a torn image under a running one; two window failures make the
crash counter disable both outputs, and its word wraps when nothing ever
survives. In `config_store` every pair of a cut and a fault falls on every pair
of accesses; two keys of a kind tell the key at hand from one still to be done,
and older firmware may have left either of them as a number or as a byte, so that
each is migrated as its own type, as another one, or not at all. In
`provisioning` a lost connection, a scan and an access-point event can wait
together behind a sleeping handler, and two retries tell the first failure from
the last. In `rdm` two devices are neighbours, so that the search goes to its
full depth of sixteen halvings, one is the last identifier of all, and two (23
and 4101) can drown each other so that the answer of 4103, which is not there, is
what is left. A sweep without faults just fits its budget of requests, one with
faults runs out of it, and the list of results is one device short.

`CHECK_DEADLOCK FALSE` stands where the system may stop: a writer that lags
(`dmx_buffer`), ticks and packets that are used up (`DmxRouter`), a source that
has sent its frames (`SacnSync`), a sweep that is over (`RdmLine`).

### What they show

- `DmxBuffer`: `SnapshotIsWhole` and `RefinesAtomicFrame` (no mixture of two
  frames), `SnapshotTerminates` (also against a writer that never stops),
  `QuietBufferIsReadable` (no bracket leaves the buffer unreadable).
- `DmxRouter`: `CacheIsLastPacket`, `EvictionSparesActive` about the table;
  `MergeFollowsSources`: what a merge writes, judged by packets and real time.
- `SacnSync`: `NeverOlder` (no output goes back to an older frame, on any path),
  `NoEarlyCommit` (a staged frame waits for its Sync packet or its grace period),
  `StagedFrameLeaves` (it leaves, unless newer frames keep moving its deadline).
- `PacketRing`: `RefinesQueue`, `HeadLeaves`.
- `Gateway`: `LineIsDatagram` (a receiver hears the channels of one datagram for
  its universe, or darkness), `LatestReachesLine` and `KeepsRefreshing` (no
  failure is the last word, and the line never stops).
- `BootGuard`: `CrashesCounted` (the counter means what its name says),
  `FallbackExists`, `RollbackEarned` (nothing an earlier update left counts
  against an image), `DeviceComesUp` and `TrialEnds`.
- `ConfigStore`: `StartRestores` (a start finds what was saved last, or one of
  the two values of an interrupted save; a value migrated with a type that is not
  its field's counts as none), `ExportImports` (a posted-back export
  changes nothing; masks do not become passwords).
- `Provisioning`: `StationIsAssociated`, `FallbackReady`, `ConnectsAsAccepted` (with
  the name that was taken from the form, and with its password unless flash failed
  on it), `AcceptedIsTried`, `Rejoins` (unless the retries are used up, the driver
  refused to connect, or nothing could be begun).
- `RdmLine`: `QuietSweepComplete`, `OneFaultNoPhantom`, `RefinesSweep`,
  `SweepEnds`.

### Where documents and code disagree

Three runs each show one sentence of a document or comment that the code does not
keep; the traces are short and `PROJECT.json` quotes the sentences:

1. no task applies the loss mode when a source falls silent (`loss_mode`);
2. a panic inside `outputInitAll` is not counted, so the output at fault is not
   isolated (`brick`);
3. a scan leaves a connected device in the state "disconnected", because the
   scan's event has the number of the event for a lost address (`scan`).

The following statements are refuted by short traces as well; they stay in the
modules, next to the properties that do hold, without a run of their own:

- `StartCodeMatchesSlots` (`DmxRouter`): start code and slots are written in two
  brackets, not one;
- `SourceWithoutSyncCommits` (`SacnSync`, `Endless = TRUE`): a source that never
  sends Sync is not committed while it keeps sending;
- `ImmediateOutputsRouted` (`SacnSync`, `SharedConfigs`): an output without
  Stream-Sync gets no frames if another one on its universe has it;
- `StoredOutputsKept` (`BootGuard`): outputs the crash guard disabled are stored
  as disabled by the next save of any setting;
- `FactoryForgets` (`ConfigStore`): a factory reset leaves the keys of the outputs;
- `LegacyRenamed` (`ConfigStore`): the old key of a switch is erased although what
  was copied from it cannot be loaded;
- `ConnectsAsEntered` (`Provisioning`): a name with a blank, or a password of 64
  characters, is used as the form spelled or the handler cut it;
- `RetryGoesOn` (`Provisioning`): after a refused connection nobody retries;
- `PortalAnswers` (`Provisioning`): the portal's DNS task is created before the
  flag it loops on is set, and may end at once.

Noted while reading:

- **Buffers and routing.** The buffer's header promises one reader, the web
  server is a second; 06-frame-router-spec.md has split destinations merge, the
  code copies verbatim; sACN frames with non-zero start codes are routed though
  06 says they are dropped, and are filed under Art-Net; after 49.7 days eviction
  and "newest" compare wrapped times as numbers.
- **sACN.** Staged frames bypass the router though 18 says otherwise;
  `sacnSyncAddr` is stored and never read; Sync packets are shorter than
  `SACN_MIN_SIZE` and carry another root vector, so `sacn_poll` as written drops
  those of a conforming source (the model delivers them, to show what the
  dispatcher does). Two outputs on one sACN universe have a socket each, and with
  losses the older copy of a frame may follow a newer one; `NeverOlder` therefore
  asks for one socket per universe (`OneSocketEach`).
- **Line.** A mark after break of 0 passes the checks, and a run of length 0 ends
  the transmission right after the break (E1.11 wants 4 us; 14:119); the break of
  an inverted output is not inverted; `LineIsDatagram` is about outputs with
  neither (`Legible`). `txRate` is read by nothing; `updateOutputRuntime` (07:120,
  14:93) does not exist; disabled outputs keep sending; ArtDMX payloads are taken
  from byte 60; ArtSync never finds anything staged; poll replies count the
  outputs that are enabled, ready or not; an empty datagram ends the tick;
  `artnet_init` and `sacn_init` open sockets before the network stack is up.
- **Boot.** 35 section 7 speaks of an elevated counter where a failed write keeps
  the old one.
- **Configuration.** Some zero values an output has without a line in its
  template are out of range, and values of outputs are loaded unchecked; an import
  covers the global keys only; `config_set_value` with a suffix of an output
  changes output A, and reports success also when a number is malformed or out of
  range and nothing was changed; the help says `set <key> <value>` where the
  parser wants `key=value`; 02:157 and 02:159 promise clamping and a skip of
  migrated keys.
- **Wi-Fi.** The branch of `app_main` that falls back to `wifi_start_softap` is
  never reached; one low sample of the button forces the portal (the document
  says held for three seconds); the event for a lost address is not subscribed;
  names of 32 characters are accepted and cannot be loaded; the setup form is not
  decoded, and cut; `wifi_config_save` ignores a failed erase, `wifi_config_load` a
  failed read of the password, the event handler a refused `esp_wifi_connect`;
  `setup_post_handler` also sets two keys that do not exist; after the last retry
  nothing reconnects; BOOT and CONNECTED, and CONNECTING and AP, have the same
  colour; a cut between the two writes pairs the new name with the old password,
  before the form was answered.
- **RDM.** 8 requests per device and 128 more may be too few for a full search; NACK
  and ACK_TIMER pass as answers, because the command class is masked (09:88);
  `message_count` is written at byte 16 (09:178); the checksum has 16 bits where
  the document says 8; identifiers on the wire are not encoded as in E1.20. The
  range in which a single device was found, or was muted in vain, is dropped,
  where the document goes on sweeping it (10:59): a collision heard as the answer
  of a device that is not there loses all devices of its range, as no one answers
  the mute.

## 4. Fairness

- `DmxBuffer`: weak fairness of each reader inside a call, as the scheduler runs
  it; none for the writer, which may stop in the middle of a bracket.
- `DmxRouter`: weak fairness of the routing steps and of time.
- `SacnSync`: weak fairness of the poll and of time: the periodic receive task.
  None for the dispatcher or the network.
- `PacketRing`: weak fairness of a consumer that drains.
- `Gateway`: weak fairness of booting, of both tasks, which are periodic, and of
  the peripheral of each output. None for the network; faults are bounded.
- `BootGuard`: weak fairness of booting and panicking: the processor runs. None
  for users, power or uploads.
- `Provisioning`: weak fairness of `app_main`, the event task, the web server and
  the driver, which answers each request with an event. None for the network,
  the user, the DNS task or power.
- `RdmLine`: weak fairness of the sweep.
- `ConfigStore`: none; nothing it does has to happen.

## 5. Proofs

`*Proofs.tla` hold theorems that TLAPS checks, for all values of the constants
that satisfy the `ASSUME`s of the module. TLC evaluates these assumptions in the
runs, and checks each `IInv` and each property named below on the instance.

- **DmxBufferProofs.** `IInv` adds to the types what a copy in progress has in
  common with the buffer: the ticket's parity says whether a bracket is open
  (`TicketParity`), inside one every cell is old or new (`BracketContents`), the
  ticket has moved by twice the brackets started since the reader read it
  (`TicketDistance`), and while none has started the copied cells are current
  (`CopyIsCurrent`). If the ticket reads the same again it has moved by a
  multiple of `SeqMod`; `2 * MaxLag < SeqMod` leaves zero. From this follow
  `SnapshotsAreWhole` and, step by step, `ImplementsAtomicFrame`.
- **DmxRouterProofs.** `IInv` relates the table to history: unique keys, every
  slot holds its source's last packet, nothing was heard in the future, and
  until the clock wraps stamps are real times. `KeysUnique` and `CacheIsCurrent`
  need no bound on time. `MergesFollowSources` and `EvictionIsFair` assume
  `MaxTicks < ClockMod`: the code compares stamps as numbers.
- **SacnProofs.** `IInv` of `SacnSync` orders all copies of a source's frames:
  those shown and staged were sent before those in the ring (`ShownInOrder`),
  these before those in the sockets, and each queue is in order
  (`WaitingInOrder`). Every step takes from the front and adds at the back, so
  the order survives losses anywhere; without it `NeverOlder` says nothing about
  the next step. `FramesNeverAge` and `CommitsAreDue` follow. `SacnSync` takes its
  ring for a queue, and the second half shows that it is one: `RingIInv` keeps
  the two sides of `PacketRing` apart (`SidesApart`) and the cells copied so far
  equal. The arithmetic lemmas show that the slots of waiting packets are
  distinct when the word holds a whole number of laps, which is why the capacity
  has to divide 2^32. `ImplementsQueue` maps `Publish` to the abstract push and
  `Release` to the pop.
- **BootGuardProofs.** `IInv`: the partition that runs is whole and one of the
  two is always valid (`SomeValid`); an image on trial is the one selected
  (`TrialSelected`); flash and history agree about its tries (`TriesCounted`);
  the counter is clear when a new image arrives (`CounterClear`); the crash
  counter counts (`CrashesCounted`). Every action preserves it.
- **ConfigStoreProofs.** `IInv`: flash holds an allowed value for each setting, or
  an old key that is still to be copied does (`Stored`, `OldAllowed`); a save or
  a reset that goes on has left the right values behind it (`Progress`); loaded
  global settings are in range. What a key is loaded as depends on its type
  (`OverlayFits`). `StartsRestore` and `ExportsImport` follow, for
  any keys, ranges and templates, any number of cuts and faults.
- **ProvisioningProofs.** `IInv`: the access point is the first event and a lost
  connection the last one, but for scans, until the handler connects again
  (`EventsInOrder`); a busy handler is at the first event (`HandlerBusy`); once
  the access point was heard of it and its portal run (`PortalFirst`); flash
  agrees with the form as far as it was written, but for a password that could not
  be erased or read (`FormStored`). The order of the
  queue is what ties the handler's belief to the driver's state, so
  `StationIsAssociated` is not inductive without it.
- **RdmProofs.** The search: ranges on the stack are apart (`RangesApart`),
  nothing found lies in one (`FoundOnce`), nothing is lost except by a wrong
  answer (`NothingLost`), and the n-th range was halved n - 1 times (`Halved`).
  Hence `StackSuffices`: 49 places serve for 48 bits, so the 64 of the code are
  never used up. The bytes, for identifiers of any number of bytes: identifiers
  survive the wire both ways (`FromToWire`, `ToFromWire`), the parsers read what
  was built (`BuiltIsRead`, `AnswerIsRead`), what is read as a device is that
  device's answer (`SingleIsAnswer`), and one damaged byte never turns it into
  another's, because it moves the sum of the bytes by less than 256
  (`OffByOneIsRead`). The line: `LineIInv` says what can be heard after no fault
  (`Quiet`: silence, one answer, or answers that drown each other) and after one
  (`OneFault`: an answer that is whole, lost, or off by a byte), that a request
  was allowed to be made (`AskedFor`), and that a device that is not there answers
  a mute with noise at most (`OnlyNoise`), which no parser takes for an answer.
  From this and the facts about bytes follow `QuietSweepFindsAll`,
  `OneFaultMakesNoPhantom` and, step by step, `LineRefinesSweep`.
- **GatewayProofs.** First the encoder: the edges of a sequence of levels mark
  its runs (`EdgesFacts`), the symbols of `init_lut` spell the eleven bits of
  their byte and end in a mark (`LutFacts`), the levels of concatenated symbols
  are concatenated levels (`LevelsOfConcat`), and so a receiver hears the frame
  that was encoded, for any number of channels, any break of at least 88 us and
  any mark of at least 4 (`HeardIsFrame`). Then the tasks. `LineIsDatagram`
  speaks of what was sent and is not inductive: a frame has to be followed
  through the packet being routed (`PacketIsDatagram`), the live buffer, the
  shared `txFrame`, which is the frame of the output at hand and of no other
  once it was copied, the symbols, and the half a peripheral has already sent,
  which must still be the first half of the symbols it reads
  (`FramesAreSendable`); `LegalTiming` and `Unstarted`, why it holds before the
  tasks start, say that every timing was sanitised before it was used.
  `LineShowsDatagrams` follows with `HeardIsFrame`, for any outputs, settings,
  datagrams and failures.

What recursive functions compute for every input is proved by induction, with a
set in the place of the predicate: the induction theorems of the library take an
operator as a parameter, which the provers here cannot instantiate, so
`SetInduction`, `UpTo` and `Recursion` (`RdmProofs`, `GatewayProofs`) derive what
is needed from the library's fact that every set of numbers has a least member.

Every invariant, every action property and every refinement that a passing run
checks is a theorem. Only model-checked are the properties that rest on fairness,
which is out of the prover's reach: `SnapshotTerminates`, `QuietBufferIsReadable`,
`HeadLeaves`, `StagedFrameLeaves`, `LatestReachesLine`, `KeepsRefreshing`,
`DeviceComesUp`, `TrialEnds`, `AcceptedIsTried`, `Rejoins` and `SweepEnds`. That
the constants of the code satisfy the assumptions is seen by reading them: TLC
evaluates the assumptions for the small constants of the runs.

## 6. Not modelled

- What no part of the firmware calls: `rdm_task` and the parameter requests,
  `wifi_stop_softap`, `wsBuildFrame`, `syslogInit`, `maybeLog`, scene recall (a
  stub), Art-Net staging (nothing sets `stagedValid`). The Art-Net ring, the
  console, `config_set_output_value` and discovery are called by the tests only
  and are modelled.
- Cryptography of the image signature, the rate limit and the progress of an
  upload, an upload still running before `app_main` reaches its loop, an image that
  panics before `otaRecoveryInit`.
- Frame-rate statistics and status queries of the sender table, failing socket
  calls of `sacn_init`, several sACN sources at once (`DmxRouter` has them).
- The syntax of console lines and JSON, truncation of a long dump, the migration
  of `apfb` to `fbmode`, the tables of pins; the contents of DNS replies.
- Logging, statistics, the status LED and its driver, WebSocket frames, HTML, cJSON: input,
  output and vendored code without protocol.

## 7. Plan

1. An abstract "release on Sync or timeout" refined by `SacnSync`, with several
   sources.
2. `ConfigStore` and `BootGuard` composed: the crash guard's disabled outputs
   meeting a save of the settings.
3. `rdm_task` with its queue, once the firmware starts it.
