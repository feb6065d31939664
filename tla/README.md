# A TLA+ model of the Amlogic TV server

This directory holds a specification of `tvserver`, the native daemon that
drives the TV part of an Amlogic Android TV: the tuner and its demodulator, the
vdin capture path for HDMI, AV and analog TV, the ts player, channel scans and
the clients that are told about all of it. It was written from the C++ code
under `src/`; line numbers in `PROJECT.json` ("map") tie every definition to
the code it stands for.

The repository has no design documents. Comments, log messages and the tests'
command line programs are the only statements of intent.

## 1. The system

### What is built and what is live

`tvserver/Android.bp` builds `main_tvserver.cpp`, `DroidTvServer.cpp`,
`DroidTvServiceIntf.cpp` and `MemoryLeakTrackUtil.cpp` over the libraries
`libtv` and `libtv_utils`. Two large pieces of code are not part of the running
program and are not modelled: `TvService.cpp` (not listed in `Android.bp`) and
`DroidTvServiceIntf::processCmd` (its one caller, `DroidTvServer::processCmd`,
is inside `#if 0`). The live entry points are the HIDL methods of
`DroidTvServer`; `configureRpcThreadpool(4, false)` makes them run on up to four
threads at once. In `CTv`, `playDtvProgram`, `stopPlayingLock`,
`playDtvTimeShift` (the locked ones) and `Tv_Start_Analyze_Ts` have no live
caller, and neither have `CMsgQueueThread::removeMsg` and `clearMsg`.
`SUPPORT_ADTV` is always defined.

### Threads

| thread | runs | takes |
|---|---|---|
| binder (up to 4) | `DroidTvServer` methods, one per client call | `CTv::mLock` in most operations |
| message loop | `CTv::CTvMsgQueue`: events of the frontend, scanner, AV, EPG, resource manager, delayed checks | `mLockQueue`; `CTv::mLock` in `StopTvLock` on preemption |
| vdin / device poll | `CDevicesPollStatusDetect`: vdin signal, HDMI, hot plug | `CTv::mLock` in `onVdinSignalChange` |
| libdvb callbacks | frontend status, scan progress, av events | none; they queue messages |
| hwbinder death | `DroidTvServer::DeathRecipient::serviceDied` | `DroidTvServer::mLock` |

Locks nest in one order: `CTv::mLock`, then `PlayerManager`, `RecorderManager`,
`CFrontEnd::mLock`, `CTvin`'s lock, `DroidTvServer::mLock`, and last
`mLockQueue`. No path takes them the other way round.

### Components

| component | state | operations | how it interacts | what is hard | what makes it correct |
|---|---|---|---|---|---|
| Message queue (`CMsgQueue.cpp`) | messages ordered by due time, condition variable, exit flag | `sendMsg`, `startMsgQueue`, destructor, loop | every asynchronous event goes through it | the loop reads the head in several critical sections and two unlocked reads | nothing lost, nothing early, ordered, no read of a missing head, handled in the end |
| Client registry (`DroidTvServer.cpp`) | `mClients`: cookie to callback | `setCallback`, `onEvent`, `handleServiceDeath` | clients register, binder reports deaths, `CTv` sends events | a death notification names a cookie, cookies are used again | nobody displaced, every death noticed |
| Control plane (`CTv.cpp`) | `mTvAction` flags, `mTvStatus`, `m_source_input`, same-source flag, block state, screen | start, stop, switch source, play, stop, tune, scan, vdin signals, channel locks | calls frontend, scanner, players, vdin, ts player; is called from three kinds of thread | `StopTvLock` is visible half-done, eight calls take no lock, a scan ends in four places | the flags tell the truth about the devices, stop leaves nothing running, a locked channel is not seen |
| Frontend (`CFrontEnd.cpp`) | open flag, mode, cached parameters, last event | `Open`, `Close`, `setMode`, `setPara`, `checkStatusOnce`, status callback | libdvb; events to the message queue | the event buffer has two writers; the cache is written before the device | clients learn the signal status; the cache agrees with the device |
| Scanner (`CTvScanner.cpp`) | `mbScanStart`, the scan handle, `mFEType`, `mCurEv`, channel lists | scans, `stopScan`, pause, resume, status; callbacks of libdvb; building of channels from stored tables | libdvb's scan thread, VBI thread, region tables | callbacks act only on a change of kind; a lock's kind is read from an event that another function fills | devices are those of the channel received; clients are told the right channel and a steady progress; every service once, under its stream and number |
| Vdin (`CTvin.cpp`) | open port, decoder started, resources, video paths | open and close port, switch, start and stop decoder, signal query | kernel driver, resource manager | port, decoder and flag change separately; three grants per start | decoder only on an open port; resources neither missing nor kept |
| Players (`CTvPlayer.cpp`, `CTvManager.h`) | the devices by id, timeshift modes | start, stop, update, pause, resume, seek | `CTv` (source, tune, play), `CAv`, recorders | raw pointers leave the manager's lock; failure removes the wrong device | one player; what starts is stopped |
| Recorders (`CTvRecord.cpp`) | recorders by id, libdvb record handle | start, stop, parameters, status | players (timeshift) | partial failures | every started recorder is stopped |
| AV player (`CAv.cpp`) | ts player session, timeshift flag, video layer, blackout | `StartTS`, `StopTS`, timeshift, mute, `EnableVideoNow`, snow | libdvb/tsplayer, events to the queue | flags set before steps that fail; a cached layer state | flag agrees with the session; the picture comes when it should |
| HDMI settings (`CTv.cpp`, `TvKeyData.cpp`, `CTvSetting.cpp`, `CHDMIRxManager.cpp`) | EDID versions, DLG, QMS, VRR: in the SSM, the boot environment, the driver, the live ports and fields of `CTv` | setters on binder threads, loads, source switches, restart, reboot, factory reset | settings server, hdmirx driver | five places hold the same choice; steps may fail or be cut off | the places agree once nothing is under way |
| Panel (`CTvPanel.cpp`) | converted files, a check file with the panel's CRC | compare, remove, convert | SPI flash, PMIC | a start is cut off anywhere; the check file vouches for the others; six loops unpack bits, each in its own way | trusted files are the panel's own; every bit of the flash goes to its place |
| Device polling (`CDevicesPollStatusDetect.cpp`, `zepoll.cpp`) | what each device said last | one loop over epoll | `CTv::onVdinSignalChange`, `onVdin2SignalChange`, plug events | clients read the same devices and overwrite what was remembered | whoever is told of a source knows what is plugged in |
| Second picture (`CTv.cpp`, vdin2 in `CTvin.cpp`) | source, decoder flag, port and format | open and close, signal | clients and poll thread, no lock | flags set apart from the calls they stand for | the decoder runs on the asked port, in the signal's format, while there is one |
| Video paths and mode (`CTvin.cpp`) | the kernel's chains of modules, the display's mode | build, remove, choose | other processes, resource manager, HDMI transmitter | paths in use or held elsewhere; modes are searched as strings | frames reach the screen, in a mode the sink supports and the signal fits |
| Channel database (`libtv/tvdb`) | SQLite, region tables | statements, lookups by frequency | scanner, clients | - | one statement at a time |
| Settings (`libtv/tvsetting`) | areas of the settings server | save, read, restore | everything | one width for writing and another for reading; a mask read, changed and written | what is read is what was saved |
| EAS, RRT (`CTvEas.cpp`, `CTvRrt.cpp`) | demux, EPG handle, the event under construction | start, stop, sections | frontend, demux, message queue | one event object for all sections; steps of a start fail | clients are told each section whole and nothing of the one before; demuxes are closed once |
| Events and parcels (`CTv.cpp`, `DroidTvServiceIntf.cpp`) | the message of an event, the vectors of a parcel | copy, post, handle, write | every producer, clients | what is copied by reference is overwritten; offsets are computed from counts | every event in order, each field in its place |
| EPG, V-chip, booking | tables, ratings, rows | - | database | no live caller | - |
| Factory, picture, tunnel, gpio, capture, subtitles | driver nodes, files | single reads and writes | kernel | - | - |

### How a signal becomes known

One path through the whole system shows why the flags matter. A client plays a
program: `playDtvProgramUnlocked` switches the source, tunes, raises
`TV_ACTION_PLAYING` and sends itself `TV_MSG_CHECK_FE_DELAY` with a delay of two
seconds. libdvb's thread calls `dmd_fend_callback` when the demodulator locks or
times out; the callback writes `mCurSigEv` and queues it. The message thread
takes the event, reads `mTvAction` and `m_source_input` without a lock, drops it
or sends a `SignalInfoEvent`, and `sendTvEvent` tests `SCANNING` once more.
After two seconds `checkStatusOnce` asks the device and queues the answer the
same way. `MsgQueue` models the queue, `TvSignal` the path, `TvControl` the
operations around it, `ClientRegistry` the last hop.

## 2. The modules

| module | models | depends on |
|---|---|---|
| `DelayedDelivery` | what a delayed queue promises: messages pending, each delivered once, not before it is due | - |
| `MsgQueue` | `CMsgQueueThread`, one action per critical section or unlocked read | instantiates `DelayedDelivery` |
| `MCMsgQueue` | delays for TLC | `MsgQueue` |
| `ClientRegistry` | `DroidTvServer`'s table of clients, binder's links and notifications | - |
| `Delivery_proofs` | ten theorems about the way of an event to a client and about what clients are told | `MsgQueue`, `ClientRegistry`, `Parts` |
| `TvWatch` | what `CTv`'s operations promise to the thread that handles frontend events | - |
| `TvControl` | `CTv`'s operations on flags, source and devices | instantiates `TvWatch` |
| `TvSignal` | frontend events, delayed checks and reports | extends `TvWatch` |
| `TvControl_proofs` | eleven theorems about the two sides of `TvWatch` | `TvControl`, `TvSignal` |
| `AnalogStd` | the conversions of analog standards, as functions | - |
| `FrontEnd` | `CFrontEnd` and the two tuners, under the calls that `CTv`'s operations make | extends `AnalogStd` |
| `FrontEnd_proofs` | four theorems | `FrontEnd` |
| `MCFrontEnd` | channels for TLC | `FrontEnd` |
| `Players` | players, recorders, timeshift and the ts player, under the commands of `CTv` | - |
| `Players_proofs` | five theorems | `Players` |
| `Vdin` | `CTvin`'s port and decoder, as operators on a record | - |
| `Screen` | what `CTv` does about a signal: decoder, snow, video layer, colour, channel locks | extends `Vdin` |
| `MCScreen` | kinds of sets for TLC | `Screen` |
| `Screen_proofs` | five theorems | `Screen` |
| `Scanner` | a scan between a client, libdvb's thread and the VBI capture | - |
| `Scanner_proofs` | four theorems | `Scanner` |
| `MCScanner` | scans and region tables for TLC | `Scanner` |
| `ScanList` | `storeScan`: the services and numbers made of the tables of a scan | - |
| `Settings`, `KeyData`, `Ports`, `VideoPath`, `DisplayMode`, `TsPlay`, `Pip`, `Events`, `Recording`, `Alerts`, `EventParcel` | a part each, see below | `DisplayMode` extends `AnalogStd`, `Recording` extends `Events` |
| `MCScanList` | mixtures of channels for TLC | `ScanList` |
| `Parts` | the parts of the row above and the scan lists as one specification: one part moves, the others stay as the set starts; what the parts assume of their constants | extends `ScanList`, instantiates the others |
| `Parts_proofs` | two theorems, about `Settings`, `KeyData`, `VideoPath`, `DisplayMode` and `Pip`; the theorem about the parts that tell clients something is in `Delivery_proofs` | `Parts` |
| `MCParts` | values for TLC | extends `Parts`, `MCScanList` |
| `HdmiEdid` | EDID versions, DLG, QMS and VRR in settings, boot environment, driver and ports | - |
| `MCHdmiEdid` | symmetry for TLC | `HdmiEdid` |
| `Panel` | the panel's files and their check file | - |
| `Demura` | the conversions of the panel's tables, bit by bit | - |
| `MCPanel` | five panels for TLC, or a conversion | `Panel`, instantiates `Demura` |
| `Kept_proofs` | five theorems about what is kept over restarts | `HdmiEdid`, `Panel` |

`TvSignal` knows the other threads only by `TvWatch`; `TvControl` refines
`TvWatch`. That is how the two are composed: the product of both modules would
be out of TLC's reach, and `TvWatch` says exactly which orders of changes the
unlocked reader relies on.

### MsgQueue

`queue` is `m_v_msg`, an entry is a `CMessage` with its due time `mWhenMs` and a
sequence number that only the properties use. `pc`, `cur`, `delay` and
`deadline` are the loop thread's position and locals. The loop is cut wherever
another thread can get in: the exit test, the acquisition of the lock with the
test for an empty queue, each wake-up of the condition, the unlocked
`m_v_msg.size()`, the read of the head, the computation of the delay with the
unlocked `getNowMs`, the relative wait, its timeout, the unlocked re-check, the
removal, and `handleMessage`. `signalled` says that the condition was signalled
while the loop waited; a signal at any other time is lost, as it is for a POSIX
condition. The clock stops at `Horizon`, the number of messages at `MaxSends`.
The message payload is left out: the type stands for it.

### ClientRegistry

`slots` is `mClients` as the `std::map` it is, with the null entries that
`mClients[i]` creates and the holes that `onEvent` makes. A client is one
callback object; a restarted process is another one. `links` and `deaths` are
binder's: `linkToDeath` fails for a process that is dead by then (`missed`), and
a notification under way may be dropped when the last reference to its object
goes (`onEvent` erases it) unless `serviceDied` already waits for `mLock`.
`setCallback`, `onEvent` and `handleServiceDeath` are one action each, as they
hold `mLock` throughout. `handleServiceDeath` clears the cookie without looking
at who holds it, as the code does.

### TvControl

`tv` is a record of what the operations share: the four flags of `mTvAction`,
`mTvStatus`, `m_source_input`, the same-source flag, the frontend (open, tuned
to), the vdin port and decoder, whether the ts player decodes, the device of
`PlayerManager` and `mbScanStart`. Helpers called under `mLock` (`stopPlaying`,
`stopScan`, `SetSourceSwitchInputLocked`, `tryReleasePlayer`, the players'
`stop`) are operators from record to record; an operation is an action that
applies them in the code's order. Everything that holds `mLock` from beginning
to end is one action. Not so:

- `StopTvLock`: the same-source flag is tested before the lock (`StopCall`); then
  come four steps under the lock, cut so that unlocked readers see each state:
  STOPING is raised while PLAYING may still be up (`StopRaise`), the frontend
  closes and the players go (`StopBegin`), the scan and the decoder end
  (`StopHalt`), STOPING is lowered (`StopEnd`);
- the start of a DTV player: PLAYING is up before the check of the frontend is
  asked for (`StartDtv`, then `AskForCheck`). A start that shifts the time
  (`StartTimeShift`, `playDtvTimeShiftUnlocked`) asks for none; if it fails,
  PLAYING is up and the player goes live (`StartLive`), with a check. The
  variable `play` says where the start is;
- `pauseScan`, `resumeScan`, `getScanStatus`: test of SCANNING, test of
  `mbScanStart`, use of the handle, each by itself;
- `resetFrontEndPara`: test of SCANNING, then the tuning;
- `operateDeviceForScan`, `TV_SetSameSourceEnable`: no lock at all.

Devices may refuse (a scanner that does not start, a port that cannot be
switched to, a ts player that does not start, a video path that is not ready);
each refusal is a Boolean under `\E`. The external inputs other than TV and DTV
behave alike and are one source, `HDMI`.

### TvSignal

`lock` is the demodulator, `hand` what each of the two writers is about to put
into `mCurSigEv`, `ev` that variable, `queue` the `TV_MSG_FE_EVENT` messages,
`checks` the number of delayed checks under way, `report` what `onEvent` has
decided and `sendTvEvent` not yet tested, `told` what the clients know.
`PlayProgram` is `playDtvProgramUnlocked` up to PLAYING, `SendCheck` its tail,
`PlayShifted` the start of a timeshift, which sends no check, and `Operate`
everything else that `TvWatch` allows. The frontend is tuned before PLAYING goes
up, so that a signal may have been found and its event dropped by then (`Early`).

`TvWatch` has `asking` for a play between PLAYING and its check. What it
promises of a stop is that nobody plays when STOPING goes down; while it is up
PLAYING may be up, too.

Two ways to lose a report are the code's, and history variables name them.
`crossed`: libdvb reported while a delayed check that had read an older status
was on its way, so that the older one may come last; the next check that runs
alone, or the next report, repairs it. `unasked`: what is watched began with a
timeshift and the frontend has said nothing since. Both writers of `mCurSigEv`
interleave at every point.

### FrontEnd

`f` joins what `CFrontEnd` believes (`open`, `mode`, the remembered parameters
`paras`) to the state of the two devices (`chip`, the mode each is in, and
`tuned`); `failed` is a history variable that says whether the last tuning was
refused. `TvControl` has one Boolean for all of that; here it is taken apart.
Each method of `CFrontEnd` holds the frontend's own lock and is an operator on
`f`. An operation of `CTv` is the sequence of calls it makes, which it puts into
`todo`; `Call` makes the next one. There are two threads, because `CTv::mLock`
keeps the operations that take it ("locked") one after the other, while
`resetFrontEndPara` and `operateDeviceForScan` ("unlocked") run between any two
calls of theirs. The order of calls matters: an operation that opens the
frontend with `AUTO` and then with a mode must leave alone what is tuned.

Assumed of the driver: a device that is told the mode it is in keeps what it is
tuned to, and changing the mode loses it. Assumed of the clients
(`FrontEndAssumption`): no digital channel has the frequency of an analog one.
The second comparison of analog parameters in `setPara` does not look at the
mode, so that `setPara` would skip an analog channel at the frequency and
standard of a remembered digital one.

`AnalogStd` holds the two conversions between a pair of enumerations and a word
of V4L2 bits; a word is the set of its bits.

### Players

`tv` joins what four parts of the code keep: `CTv` (`playing`, `scanning`,
`source`), `PlayerManager` and its one player (`player`: id, `mMode`
and `enabled` for `!mDisableTimeShifting`), `RecorderManager` (`recorders`, by id: the devices that
`equals` compares, the observer, whether libdvr's session is open) and `CAv`
(`session`, `shift`, `playback`, and `hiu` for the demux). `orphan` is a history
variable: a recorder was deleted with its session open.

All commands take `CTv::mLock` from beginning to end, so each is one action,
composed of operators that stand for the methods it calls, in the code's order.
What is interesting here is not interleaving but failure: the start of a
timeshift is a recording, a ts player fed from memory, a playback and its start,
each of which may fail, and the player then falls back to live, which may fail
as well. The outcomes are chosen under `\E`.

Assumed: the build with `vendor.tv.dtv.tsplayer.enable`; releases and closes do
what they are told; clients do not use one id for a player and a recorder
(`PlayersAssumption`: a player that fails to start removes the *recorder* of its
id); commands to a player carry the parameters of its own type; as in
`TvControl`, no scan for ATV begins on DTV.

### Vdin and Screen

`Vdin` keeps apart what `CTvin` believes (`opened`, `started`) and what the
device does (`device`, `decoding`), because every ioctl and every request to the
resource manager may be refused. `Screen` puts `CTv` around it: the poll thread
answers a change of the signal under `mLock`, the message thread shows a picture
that has had its time to come (`TV_MSG_ENABLE_VIDEO_LATER`) without it, and
clients switch, stop, tune, scan and lock channels. An operation is one action,
except `isVideoFrameAvailable`, which tests the lock and then uncovers the
picture; a client may come between. `SetBlocked` takes the flag `tunning` that
the client sends, whatever plays. The history variable `missed` says that a
source was locked between test and deed, or by a client that said it was tuning
while a channel played, and that the lock was not tested since.

Assumed of the clients: they tune and scan only when the source is not HDMI
(`SetSourceSwitchInputLocked` returns early for the same source), switch VRR
only on HDMI, start the TV before they choose a source, and a set uses one of
its two channel locks. Assumed of the kernel: it reports the status of a port it
has opened, and a rewritten EDID makes the source come up again.

### Scanner and ScanList

`Scanner` is the scan as it runs: `client` the thread that starts and stops
scans, `scan` the fields of `CTvScanner`, `ev` its `mCurEv`, `lib` the thread of
libdvb (external: it takes one channel after the other and reports), `dev` the
frontend's mode and vdin, `told` the last event. A frequency is a number of half
megahertz.

`ScanList` is what `storeScan` makes of it, a pure computation cut into passes:
channels with PAT, PMT, VCT, SDT and NIT go in, and each pass tells the clients
the services. A channel is a record of the tables it carries, which
`MCScanList` chooses so that the rules about the stream's id (`use_vct_tsid`),
hidden, encrypted and audio-only services, off-table numbers and logical
numbers all decide something. Names, PIDs, captions and the parameters of DTMB
and ISDB are left out.

### Settings

`ssm` holds the areas that differ from what they held at first, as their four
bytes; `Areas` maps the name of a save and read pair to the area it uses,
`Width` to the bytes it writes, `ReadWidth` to those it reads, and `Seen` is what
its caller makes of them. A save writes one area; the mask of locked sources is
read in one step and written in another (`setting`), since
`SSMSaveInputSourceParentalControl` holds no lock; threads interleave there, and
the one that restores (`Restorer`) is one of them. `crossed` is a history
variable: the sources whose lock a thread set back while it set that of another. `Restore` goes through the
lists of `SSMRestoreDeviceMarkValues`, `MiscSSMRestoreDefault` and
`MiscSSMFacRestoreDefault` one area at a time; `Restart` forgets what is only in memory. The areas
of the marks are part of the map, so that two areas under one name or a width
too wide is seen.

### KeyData

`keys` is the key device and `selected` the name it was told; a save or a read is
two steps for a client (`op`), as no lock keeps another out. `file` is the HDCP
key's file, if the board has one. A saved address goes on: it is read back
(`ReadAddress`) and handed to the thread (`worker`), which is joined first if it
has ended. `address` is written and read one word at a time, as each has a mutex
of its own. `Restart` is the set's; what `OpenTv` does there is one step, as no
client is served before. Clients interleave at every step: one names a key
before another has written its own, or sets an address while another does or
while the thread ends. The history variables `strayed` (keys whose content, or
that of another for them, was written under another name) and `unheard` (an
address was set beside another or late, and the thread not started anew since)
name what that touches. Assumed: clients that *start* the thread do so one by
one, since two at once would join it twice. `Failing`
chooses what is refused: `"close"` and `"file"` go unnoticed by the code, and the
keys concerned are then excepted.

### Ports

`map` is `mSourceInputToPortMap`, made of a configuration that may name each
port; `hdmi` and `avin` are the cables, `hdmiKnown` and `avinKnown` what the poll
thread remembers. `PollRead` reads a device, `TellHdmi` and `TellAvin` compare
and tell; `AskHdmi` and `AskAv` are `GetSourceConnectStatus`, which reads the
device and writes the same memory, at any time. The history variable `untold` has
the ports and channels whose change was remembered for a question about another
one, until they are told or asked for. `Cables` and `Askable` bound where
somebody plugs and what clients ask for.

### VideoPath and DisplayMode

`paths` are the chains of kernel modules by name, `active` those that play,
`held` the resource of the default path; `conf` says which modules the board
has. `StartDtv` and the start of the set put the removals and additions to be
made into `todo`; `Other` processes play, hold and rebuild paths between them.
`FramesComeThrough` orders the modules by stages.

`DisplayMode` has the mode as a record where the code searches strings; two
peculiarities of the search are kept (`Mentions`: a number of lines that ends in
the rate is found as well). `Channels` and `Fields` are the way from a stored
analog channel over `stdEnumToCvbsFmt` to the rate. Assumed: rates of modes have
two digits; channels in PAL 60 or PAL N have sound M, as the standards have it.

### TsPlay

`av` are the fields of `CAv` (mute, sound mode, `mIsVideoSupport`, the
formats), `ts` the ts player of its session, `dvr` libdvr's record and playback,
`program` and `mode` those of `CDTVTvPlayer`. A start is live or from the record
of the player's own recorder, whose streams `Recorded` finds as `setupDefault`
does, up to the length of its table; in which order they stand there matters to
nobody, so it is a set. The decoders report, three losses in a row make a scrambled program (`Posted`);
`Handle` is `CTv::onEvent(AVEvent)` and `onPlayUpdate` on the message
thread. `client` and `seen` are history variables: what clients asked for and
were told, and what the decoders made of the program. `SoundAsAsked` is stated
for the formats that every conversion carries (`CarriedVideo`, `CarriedAudio`);
AC4 is played and also recorded, but as another format, since `toDvrAudioFormat`
of `CTvRecord` does not know it. Who plays and records, and the failures, are
`Players`'. Assumed: `Overlap` is FALSE, that is,
decoders do not call back while `StartTS` runs and commands come after what was
reported is told; libdvr notifies no time while it stops (`NotifyStates`); each
stream of a program has a pid of its own (`PlayerAssumption`).

### Pip

`source`, `started`, `param` and `sig` are what `CTv` and `CTvin` believe of the
second picture, `vdin2` and `fd` the device. `StartTvInPIP` and `StopTvInPIP`
are a client's, `SignalChange` the kernel's; the poll thread first reads
(`VDIN2_GetSignalInfo`) and then starts or stops the decoder, since no lock keeps
a client out. `Failing` chooses which calls the driver refuses; the run refuses
opening and starting. Assumed: the driver answers a stop of an idle
decoder with success (`started` is not initialised); calls come between changes (`Overlap`, section 6).

### Events and Recording

`Events` is the copy that a message holds: `buffer` is the producer's event,
`Message` says whether the copy owns what it says, `Handled` is the case of
`handleMessage`. `Recording` adds the recorders as producers: `rec` is what
`CTvRecord` keeps, `dvr` libdvr's record with place, flags and pids. libdvr
reports a status as often as it likes; a stop reports its own before it returns.
Assumed: the recorders keep their mode, and ids have up to 22 characters
(section 6).

### Alerts

The two monitors, `"eas"` and `"rrt"`: `refs`, `dmx` and `handle` are the demux
and the EPG handle of each, `event` the arrays of `mCurEasEv` with their counts.
A section overwrites the entries it has and leaves the others; `Words` is the
parcel, which follows the counts. `Failing` chooses the steps of a start that
fail; a demux that does not open is left out (section 6). `AlertsTold` compares
with what the section says, within the parcel's size. Of the rating regions
clients are told one event a value; which came first is not kept (`rated`).

### EventParcel

Each field is written to an index, one write a step, as `onTvEvent` computes it
from the numbers of streams; `Old` is the order in which the former interface
wrote the same event one after the other, the only statement in the repository
of which field comes where. `FieldsInPlace` compares both.

### HdmiEdid

`ssm`, `env`, `rx`, `live` and `tv` are the places where a choice is kept: the
settings, the boot environment, the hdmirx driver, what the ports show and the
fields of `CTv`. A setter is cut between any two of its writes; there a crash,
reboot or factory reset may come, and a setter of another binder thread, as
`TV_SetVRREnable`, `TV_SetQMSEnable` and `Tv_SetDLGEnable` take no lock. History
variables: `failed`, the ports whose last load did not succeed; `unsaved`, a
version set but not saved; `raced`, what setters that crossed have left: for the
EDIDs, for VRR, and for the ports whose version was set and not saved when the
first load came. A race is forgotten when a setter of its kind has run alone.
`MaxRaced` bounds how many of these three are remembered at a time; the proof is
for any bound. The persistent DLG property and `mDLGStatus` only copy the setting
for the source at hand and decide nothing else here; they are left out.

Assumed: a client sets the version of the port it watches and then saves it;
the sources' port numbers are the physical ones; EDIDs are loaded at the start
(with that switch off, `CTv` does not learn of VRR after a restart); a factory
reset is followed by a reboot.

### Panel

The build is the one with `SUPPORT_PANEL` (commented out at `CTv.h:88`). A file
is what panel it was made from, or `Torn`, or nothing; the CRC in the check file
stands for the panel. A start compares, removes the files one by one, converts
and writes the check file last; it may be cut off between any two of these, each
may fail, and with the power off the panel may be replaced by one that was not
attached before. `clean` and `trouble` are history variables.

`Demura` is what a conversion does inside: `at` its position in the flash, `loop`
its loop variables, one iteration a step. The content of the flash is not
enumerated: a written value is the set of the input bits it consists of, each
with its weight, so that a run shows where every bit goes, whatever the bits
are. The check sums work on sets of bits in the same way, against a division of
polynomials. The numbers of the 50-inch table are tried from edge to edge.

## 3. What is checked

| run | module | distinct states | shows |
|---|---|---|---|
| `msgqueue` | `MCMsgQueue` | 203,088 | nothing is handled before it is due or lost; refinement of `DelayedDelivery`; every message handled |
| `clientregistry` | `ClientRegistry` | 77,698 | nobody displaced, deaths noticed under the right cookie, the dead leave |
| `tvcontrol` | `TvControl` | 207,792 | flags against devices, stop leaves nothing running, scans keep the tuner; refinement of `TvWatch` |
| `tvsignal` | `TvSignal` | 383,694 | clients know the tuner's status whenever nothing is on its way; eventually told |
| `frontend` | `MCFrontEnd` | 155,960 | the remembered parameters are those of the device, asking again leaves the reception alone, standards survive their conversions |
| `players` | `Players` | 71,583 | recordings are owned and have an observer, a timeshift is one, a stopped player leaves nothing behind, clients keep their recordings |
| `screen` | `MCScreen` | 880,952 | the decoder follows the signal, clients know it, a picture is seen |
| `screen_lock` | `MCScreen` | 1,948,124 | with a refusal anywhere: the decoder keeps its resources and only those; a locked channel is not seen |
| `scanner` | `MCScanner` | 57,276 | frontend, vdin and VBI capture follow the channel received; a lock is told as what it is; the progress is steady |
| `parts` | `MCParts` | 953,842 | each part by itself, the variable `part` says which: services under their own stream and number, told alike in all passes; settings and keys read as saved; plugs known; frames, mode, sound, second picture and records as asked; alerts, fields, times and events told |
| `hdmiedid` | `MCHdmiEdid` | 1,808,656 | settings, boot environment, driver and ports agree once nothing is under way |
| `panel` | `MCPanel` | 3,488,416 | trusted files are the panel's own; a start without a failure repairs what others left; every bit of a table is in its place, conversions and check sums are right |

What the properties say, in short (each is stated in full at its definition):

| run | properties |
|---|---|
| `msgqueue` | `HandledWhenDue`: nothing early, although the tested and the taken entry are read separately. `ImplementsDelayedDelivery`: refinement. `EventuallyHandled`: no wakeup is lost for good |
| `clientregistry` | `DeathNoticed`: a death is noticed under the cookie in use. `NobodyDisplaced`: no registration takes another's slot. `DeadLeave`: the dead leave in the end |
| `tvcontrol` | `StopingTruthful`: STOPING is up exactly during the one `StopTvLock`. `PlaybackOwned`: the ts player decodes only for a DTV that plays. `StopLeavesIdle`: nothing runs when a stop ends. `ScanOwnsTuner`: nobody tunes away from a scan. `ImplementsWatch`: refinement of `TvWatch` |
| `tvsignal` | `QuietTruth`: clients know the tuner's status once nothing is on its way. `SignalReported`: they learn it in the end |
| `frontend` | `CacheBacked`: what `setPara` would skip is tuned. `StandardKept`: analog standards survive their conversions. `ReplayKeepsSignal`: asking again disturbs nothing |
| `players` | `RecordersTended`: no session outlives its recorder, and a recorder has an observer that lives. `TimeShiftIsReal`: a timeshift has its playback and its memory. `NothingLeftBehind`: nothing remains of a player that is gone. `ClientsKeepRecordings`: only commands to a recorder, or an end of all, touch a recording |
| `screen` | `DecoderFollows`: the decoder runs exactly for a stable signal, which clients know. `PictureShown`: a watched signal is seen in the end |
| `screen_lock` | `ResourcesFollow`: a decoder has its resources and nothing keeps them without need. `LockedHidden`: a locked channel is not seen |
| `scanner` | `DevicesFollow`: frontend, vdin and VBI capture suit the channel received. `LockToldRight`: a lock is told as what it is. `ProgressSteady`: the progress does not go back |
| `parts` | `OwnStream`, `NumbersKept`, `ToldAgain`: services and numbers of `ScanList`. `SettingsKept`: settings, locks, marks and keys read as saved, the address given to the interface. `OutputFits`: video paths, display mode, second picture. `ClientsTold`: plugs, alerts, ratings, sound, pictures, times, records, events. `ParcelsInPlace`: the fields of every parcel |
| `hdmiedid` | `PlacesAgree`: setting, boot environment, driver and ports agree |
| `panel` | `CheckedIsOurs`, `CleanStart`: files and check file. `EntriesInPlace`, `Converted`, `SumsAgree`: tables, numbers and check sums |

Bounds and why they are enough:

- *Message queue*: four messages with delays 0, 1 and 3 and a clock up to 4. Two
  messages reorder, three let an insertion hit before, between and behind the
  entries the loop has read, the fourth arrives while the loop handles one; the
  proofs cover any number and any delays.
- *Client registry*: four clients. Two make a hole, the third is given the
  hole, the fourth is the one a wrong size would displace.
- *Control*: two programs and both callers of `StopTvLock`. Two programs are
  needed to see that a scan's tuning is replaced.
- *Signal*: two delayed checks and three events. One check belongs to a program
  that is gone, one to the present; three events let a stale one, a true one
  and a dropped one be queued together, and one cross a check. The proofs cover any number.
- *Frontend*: two digital modes, so that the demodulator's mode changes; an
  analog channel, the same with another format, which only the first of the two
  comparisons tells apart, and one of another standard.
- *Players*: one player of each type, as there is one place for a player; two
  clients' recorders and the player's own compete for two places, over three
  sets of devices, so that both refusals of `addDev` occur.

- *Screen*: one delayed picture in the queue, since a second one finds the same
  state. `screen` varies signals and sets without refusals, `screen_lock` takes
  one refused device call anywhere, the plain set and both locks; the product of
  the two is out of reach.
- *Scanner*: seven scans, one for each way to make parameters (all channels, one
  by frequency, a range, downwards, mixed, by the ATSC tables, limits swapped),
  over two analog and three digital channels.
- *Scan lists*: three mixtures for ATSC and two for DVB with seven modes.
- *Settings*: numbers of one byte, of two and all ones, which tell the widths
  apart, sources at both ends of the mask and outside it, two threads and two
  calls: both threads may be between reading and writing the mask.
- *Keys*: two threads, three calls, two addresses that differ in both words: one
  is given while the second is saved, or saved twice. Both threads interleave at
  every step. Writes may be refused, and reads fail. Of the key configurations,
  those in which just one of `startWork` and `demo` is set, and with a file of keys
  only where HDCP keys are kept.
- *Ports*: a configuration in the order of the sources and one that crosses them;
  cables at the first and the third port; two plugs, so that the second meets what
  was remembered of the first, and questions about two ports and both channels at
  any time.
- *Paths*: two starts and three deeds of others, enough to take a path, hold it
  and rebuild it. *Modes*: five sinks of each kind, every rate the receiver knows.
- *DTV playing*: a program with pictures and two tracks and a radio program that
  names one track twice; three calls and three reports, times 0 and 5.
- *Second picture*: two sources, two formats, three calls and five changes of the
  signal: a switch with a signal that comes, goes and changes format.
- *Records*: a client's recorder with and without video and the player's; four
  calls, so that one is started twice after a stop, and three events.
- *Alerts*: sections with and without each part, arrays of two, so that one may be
  too long. *Parcels*: up to two streams of each kind, which every offset needs.
- *HDMI settings*: one port, a source that is not HDMI, and two binder threads,
  which are interchangeable (symmetry; the run checks no liveness) and cross in
  every way; one race is remembered at a time. The theorem is for any number of
  ports, threads and races.
- *Panel*: five panels of different kinds, so that each check, each gamma file
  and the kind without files occur, with every cause of failure. The tables have
  two lines instead of 271, of the same 481 points, so that a line begins at an
  odd and at an even position; all loops over lines are alike.

`CHECK_DEADLOCK FALSE` is set for the message queue (the clock stops at its
horizon, and a loop that was asked to exit is done) and for the client registry
(every client may be dead), and for the parts (their calls and steps are
bounded, and some end).

Every property has a mutant: a variant of one operation, written in the module
beside it and named `<operation>_<fault>`, that a plausible slip in the code
would produce and that violates the property under the same configuration.

### Fairness

- `MsgQueue!QueueFairSpec`: the loop thread is scheduled (weak fairness on each of
  its steps and on the return from its waits) and time passes. Nothing is
  assumed of the callers.
- `ClientRegistry!RegistryFairSpec`: binder delivers death notifications.
- `TvSignal!SignalSpec`: the message thread and libdvb's thread run and delayed
  messages come due (which `MsgQueue` shows, `EventuallyHandled`). A play that has
  raised PLAYING goes on to its check (`SendCheck`), the next call of the same
  function. No operation of a client has to
  begin, and the demodulator is not fair either.
- `TvControl` is a safety specification.

## 4. What is proved

Proofs are checked by TLAPS for all values of the constants that satisfy the
modules' assumptions.

- `Delivery_proofs`, on `MsgQueue`: `QueueTypeCorrect`, `AlwaysOrdered`, `NeverUndefined`,
  `NeverEarly`, `NeverLost`, `Refinement`. Sortedness is not inductive alone:
  `OrderInv` adds that equal due times keep the order of sending. That nothing
  is early needs `LoopInv`, which records what the loop knows at each program
  point: the head it read is still no earlier than the present head, because
  only the loop removes entries and an insertion can only make the head
  earlier-due or leave it.
- `TvControl_proofs`, on `TvControl`: `TypeCorrect`, `StopingIsTruthful`, `ScanIsFlagged`,
  `PlaybackIsOwned`, `DecoderOnPort`, `VdinIsOffOnDtv`, `StopIsComplete`,
  `ScanKeepsTuner`. The inductive invariant `IInv` joins `Good(tv)`, the
  relations between flags and devices that every helper restores, to what holds
  at each step of `StopTvLock`. Each helper has a lemma that it keeps `Good`, so
  each operation is a composition of lemmas. All of them assume `"DTV" \notin AtvScanSources`: clients begin a scan for
  ATV on other sources than DTV. Without that assumption the code does not have
  the property (section 6).
  In the same module `WatchImplemented` (`Spec => ImplementsWatch`), under the
  same assumption. `Calm` says of a pair of states that nobody begins to watch and
  that a scan on DTV ends with the frontend closed; `Near` that only the players
  differ. A stop may have STOPING and PLAYING up at once; that nobody plays when
  it ends is what `IInv` says of its later steps.
- In the same module, on `TvSignal`: `SignalTypeCorrect` and `QuietIsTrue`, for any
  `MaxChecks` and `MaxQueue` and every interleaving of libdvb's callback with the
  delayed check. `QuietTruth` is strengthened along the pipeline: while somebody
  relies on it and no loss is marked (`crossed`, `unasked`), what a thread has in
  hand is true (`HandTrue`), so is the last event of the queue (`QueueTrue`), then
  the report (`ReportTrue`), then what was told (`ToldTrue`).
- `Delivery_proofs`, on `ClientRegistry`: `RegistryTypeCorrect`, `DeathIsNoticed`, `NobodyIsDisplaced`,
  for any finite set of clients. The invariant says that a client is at most
  once in the table and that a link or a death under way names the key of its
  client. That the cookie `setCallback` takes is free when every key below the
  size is in use needs cardinality: a map without holes and of size n has
  exactly the keys below n.
- `FrontEnd_proofs`: `TypeCorrect`, `CacheIsBacked`, `StandardsAreKept`,
  `ReplayIsQuiet`, for any parameters (`RealStandards`: the analog ones are made
  of standards the conversions know). `CacheBacked` is strengthened by what a half-done plan may
  still mend: the cache may be ahead of the device only while a call is left
  that tunes again. `ReplayIsQuiet` (`Spec => ReplayKeepsSignal`) is about a step
  of a plan that asks for what is received already. It needs the shape of the
  plans (what tunes comes last, and the calls before it only open and choose a
  mode) and that a tuner of the right kind with a backed cache lets each of them
  return early.
- `Players_proofs`: `TypeCorrect`, `RecordersAreTended`, `TimeShiftsAreReal`,
  `NothingIsLeft`, `RecordingsAreKept`, for any ids, devices and recorders, under
  `PlayersAssumption`. The invariant has two halves, and each helper leaves one
  of them alone. `Tended` is about recorders: only the player's own one observes
  for the player, and only while a DTV player with timeshift enabled exists.
  `Fed` is about the ts player: outside timeshift it decodes only for a DTV that
  plays and is not scanned, so that `stopPlaying`, which asks for just that, ends
  it (`Flagged`); in timeshift the playback and memory feed it (`Real`); and
  without a DTV player nothing is left. `TimeShiftIsReal` and `NothingLeftBehind`
  are not inductive without `Flagged`.
- `Screen_proofs`: `TypeCorrect`, `ResourcesAreHeld`, `DecoderIsFollowed`,
  `LockedStaysHidden`, `PictureIsShown`, for any configurations, signals and
  requests and any number of refusals and messages. The resources follow whatever
  is refused: `VGood` says what each function of `CTvin` leaves behind. The other
  three depend on the reports. No operation restores what is seen by itself; but a
  source of vdin is watched only after its port was opened, and that has the poll
  thread report its signal. So an operation after which a source is watched leaves
  a report to read, or has changed nothing (`Reports`), and the invariants are
  about the state without one (`Followed`, `Steady`, `LockInv`, `ShowInv`): the
  answer to a report establishes them, and neither the message thread nor a
  request undoes them (`Keeps`). Assumed are what the runs assume: `"HDMI" \notin
  TunerSources`, clients tune and scan on the sources of the tuner; and for the
  picture no locks, `Requests \subseteq
  {"color"}`, as a locked channel is not seen.
- `Scanner_proofs`: `TypeCorrect`, `DevicesAreSet`, `LockIsToldRight`,
  `ProgressIsSteady`, for any requests and finite region tables. `FETypeHelperCB` does nothing while the kind
  stays the same, so `DevicesFollow` needs what that rests on (`KindKept`): a kind
  is remembered only while the devices are set for it. It holds because `stopScan`
  and `Scan` forget the kind, and because other operations move the devices only
  while no scan is started, when libdvb is off (`Ordered`). A channel of a list is
  inside the limits and has an index below the length (`Sound`), so that the
  percentages of `evtCallback` are percentages: each is a share of at most the
  whole, also with the division by zero that a range below a megahertz makes. They
  grow with the list (`InOrder`, `PercentGrows`), and what was told last is no more
  than what the next channel of the kind will be told (`Progress`).
- `Kept_proofs`, on `HdmiEdid`: `TypeCorrect`, `PlacesAgreeHolds`, for any ports and binder
  threads and any `MaxRaced`, whichever setters cross each other. `PlacesAgree` speaks of quiet moments; the invariant says what each thread
  owes at its place. `EdidInv`: driver and ports have the EDID of the saved
  switches, or of the switch that `SetDlg` is about to save. `VersionInv`: a port
  shows the driver's version, or a setter is on its way to update it. `VrrInv`:
  CTv knows the driver's VRR, or the thread that changed it is about to say so.
  Setters that no lock keeps apart may leave places apart; while one is inside that
  has crossed another, `raced` says "now" of what they share, and "before" when all
  are through, until it is set again. Each part of the invariant speaks of who has
  not crossed another (`Apart`). A restart that loses an unsaved version, and a port
  whose load was refused, are exceptions too (`unsaved`, `failed`).
- In the same module, on `Panel`: `PanelTypeCorrect`, `FilesAreOurs`, `StartRepairs`, for any panels.
  The invariant relates the check file to the others: whenever it names a panel,
  everything it vouches for was made from that panel, because it is written last
  and a new panel is not one whose CRC an old check file may hold.
- `Parts_proofs`, on `Parts`. Each theorem is about `PartsSpec`; as a step moves
  one part and leaves `part` alone, its invariant is a conjunction of one
  invariant a part, each under `part = ...`, and each has lemmas of its own:
  initial states, steps, and what it implies.
  - `SavedIsKept` (`SettingsKept`), for any threads, numbers of four bytes, keys
    and addresses. `SettingsIInv`: an area has the bytes that were saved under its
    name as far as the save is wide and the fill byte behind them; two names have
    no area in common (`AreasDiffer`, by the layout of all of them) (`AreasInv`).
    Threads lock sources at once, and a restore clears a lock among them: the mask
    is what was locked last, but for a source that was set while another thread
    was between reading and writing the mask (`crossed`, `LocksInv`). `KeysIInv`:
    two threads may tell the device the name of a key and give it contents in any
    order, and a key has what was saved for it unless a content went under another
    name (`strayed`, `DeviceInv`). One client at a time starts the thread that
    hands the address to the interface (`StartInv`), but others set it meanwhile;
    the interface has the address that was set last when all is quiet, unless it
    was set after the thread's last comparison or beside another (`unheard`,
    `HeardInv`). `SettingsKept` says as much: the three histories are what the code
    loses, and are named in it.
  - `OutputComes` (`OutputFits`), in three parts. `PathIInv`: what is left of the
    job is a suffix of the first one, and what it is past is built; a path that
    `Tvin_CheckVideoPathComplete` finds whole is one that the set built. That what
    `VDIN_AddVideoPath` builds has its stages in order for each of the 32 kinds of
    boards is `BuiltThrough`: pieces that rise are put together (`RisesOn`).
    `DisplayIInv`: with resolution first the mode stays one of the sink's. The
    rest of `ModeFits` is a property of the last change (`SetFits`), and rests on
    the best of a finite set of rates being one of them (`BestIs`), on the mode
    being found again from itself, and on what `stdEnumToCvbsFmt` makes of each
    channel (`ChannelAtRate`). `PipIInv`: while the port of the second picture is
    open it is that of the source that was asked for, the decoder runs if `CTvin`
    says so, a signal that is not yet handled is not decoded, and one that is
    decoded was told.

- `Delivery_proofs`, on `Parts`: `ClientsAreTold` (`ClientsTold`), laid out in the
  same way, one invariant for each of the four parts.
  - `PortsIInv`, for any configurations that satisfy `PortsAssumption`: what the
    poll thread remembers of a device is what the device says, unless epoll has
    something to report or the thread has read and not yet told; clients were told
    what the thread remembers, of each port whose change a client's question did
    not take away (`untold`). Before that, `RoundTripHolds`: the source found for
    the port of a source is that source. The loop of `Tvin_PortToSourceInput` takes
    the first in the order of the enumeration, so that this rests on the ports
    being different.
  - `AlertsIInv`, for any sections and regions: clients were told the words of the
    last section and the values of the last regions (`ToldInv`). The arrays of the
    event keep what earlier alerts left in them; a section's entries stand in front
    of that and the counts end with them (`ArrayOver`, `OneOver`). Texts and
    descriptors are told right up to one of each (section 6), and so says
    `AlertsTold`. A service that has a handle, and no other, has opened demux 2,
    once (`DemuxInv`).
  - `PlayerIInv` and `SoundIInv`, for any programs and any number of reports.
    `PlayerIInv` is about the queue: the last report in it that speaks of the
    picture says what the decoders made of this program, and if none does, the
    client knows already (`PictureInv`); the same for the times (`TimeInv`), whose
    reports name the playback they are of. Each producer appends, and the handler
    takes the first, so two lemmas say what becomes of the last word then
    (`Appended`, `FirstGone`). `SoundIInv`: the track, the mode and the mute that
    the client asked for are those of `CAv`, and of the session that plays; every
    track of the program is in the record of a timeshift (`TrackRecorded`).
  - `RecordingIInv`, `EventsIInv` and `ReportsIInv`, for any ids, requests and any
    number of events. `RecordingIInv`: a recorder that was once one for timeshift
    gets no other request, so that the flag of an accurate record, which nothing
    lowers, is right; what is open has what its request asks for. `EventsIInv`: what
    was told and then what the waiting messages say is what was reported, in that
    order, and there are as many copies of RRT information as such messages wait:
    each is freed when it was told, and none before. `ReportsIInv`: the reports of a
    record are START and STOP in turn, whatever libdvr repeats, and the last one is
    START exactly while the record is started (`Runs` relates the recorder's own
    flag to that); it needs `RecordingIInv` for what a recorder is when it is
    prepared.

  What is assumed of the parts stands in `Parts.tla` beside each instance: numbers are four
  bytes, addresses two words; no two sources have a port in common; what other
  processes build is not taken for whole (`Tvin_CheckVideoPathComplete` looks for
  four names, so a path of theirs with all of them in a wrong order would be); a
  sink has finitely many modes, and signals the formats that receivers know; the
  vdin driver stops the second decoder when told, and says what signal it has (otherwise
  `SecondPicture` is not the code's: a refused stop leaves the flag up for the
  next source, and a signal that cannot be read is taken for `NULL`, for which
  `onVdin2SignalChange` stops nothing); a recorder keeps its mode; the streams of a
  program have different pids and fit in the record's table; demux 2 opens and an
  EPG handle can be made, an alert fits in the arrays of the event, and a rating
  region names a dimension once. The parts themselves are
  those of the run; `Overlap` is FALSE in `TsPlay` and `Pip` (section 6), whose
  parts of `ClientsTold` and `OutputFits` say nothing of calls beside a change.

Only model-checked:

- the liveness properties `EventuallyHandled`, `DeadLeave`, `SignalReported`:
  the prover does not handle liveness under fairness here;
- the conversions of `Demura` (`EntriesInPlace`, `Converted`, `SumsAgree`):
  recursion over bits and bytes;
- `OwnStream`, `NumbersKept` and `ToldAgain` of `ScanList`, which are about what
  functions compute over lists and tables of any length, folds that need
  induction over data;
- `ParcelsInPlace`: `FieldsInPlace` compares what `onTvEvent` wrote with the
  fields of all streams one after the other (`FlattenSeq`), whose length and
  entries need induction too.

## 5. What is not modelled, and the plan

Left out on purpose:

- `TvService.cpp`, `processCmd`: not part of the program (section 1);
- most of `CTvFactory.cpp`, `CTvScreenCapture.cpp`, `CTvSubtitle.cpp` and most
  save and read pairs of `CTvSetting.cpp`: no live caller;
- formatting of parcels and of driver parameters, logging, sysfs writes;
- the picture, gpio and tunnel code: single device or file accesses without
  shared control state;
- the inside of libdvb and of the kernel: modelled only as what they may answer.

Left out of the modelled parts: screen colours and modes, HDR, the analog front
end's calibration; the positions of seek and the playback of a client's file;
audio description, subtitles and teletext; the paths for libdvb's own player and
recorder (`AM_AV`, `AM_REC`), which the tsplayer build does not take; fine tuning
and AFC; settings of many bytes, the project id and the points of audio curves; the strings of
alerts and of ratings.

Not modelled at all: `CTvEpg` (used by `playDvbcProgram` and `playDtmbProgram`,
which have no caller), `CTvVchipCheck` (never instantiated), `CTvBooking` (only
for `processCmd`), `CBlobDeviceRam.cpp` (not built), the statements of the
channel database, one at a time.

The plan was: queue, registry, control, signal, frontend, players; then `Vdin`
and `Screen`, `Scanner` and `ScanList`, `HdmiEdid` and `Panel`, the proofs of
`ClientRegistry`, `FrontEnd`, `Panel` and `Players`; the parts; the proofs of
`Screen`, `Scanner` and `HdmiEdid`; the proofs about the parts. All of that is done. Open: the message thread's raw pointer to a player and
the flag that stays up when a timeshift falls back to live; the channel
database's groups and ratings.

## 6. What the models showed about the code

Each of these was met as a counterexample while modelling. The properties of the
runs are stated for the cases the code handles; the constants and assumptions
named here exclude the rest, and the history variables mark where it has happened.

- `CFrontEnd.cpp:588`: libdvb's callback and the delayed check write the same
  event buffer; when they overlap clients may keep the wrong status
  until the next report (`TvSignal`'s `crossed`).
- `CTv.cpp:1301`: a timeshift that raises PLAYING asks for no check, so that what
  was dropped before is not told (`unasked`). A NO_SIG that is handled between
  lines 2119 and 2129, while STOPING and PLAYING are both up, is dropped.
- `CTv.cpp:2128`: after a manual ATV scan begun on DTV the source is INVALID and
  `StopTvLock` leaves the ts player running (`AtvScanSources`).
- `CFrontEnd.cpp:449`: the parameters are remembered before the tuner takes them;
  after a refusal the same request is skipped as done (`failed`).
- `DroidTvServer.cpp:677`: a late death notification clears the client that has
  been given the dead one's cookie.
- `CTvScanner.cpp:211`: pause, resume and status use the handle after their test.
- `CTv.cpp:2596`: a channel locked between the message thread's test and its deed
  is uncovered (`Screen`'s `missed`). The scanning branches of `onSigToUnstable`,
  `onSigToNoSig` and `onSigToUnSupport` are dead, as `onSigStatusChange` returns
  in a scan. `EnableVideoNow` trusts a layer state that the tunnel does not keep
  up. `CVpp.cpp:277`: setting any colour hides the picture.
- `CTvScanner.cpp:2311`: `mTotalChannelCount` survives a scan (`TotalIsRight`);
  `ATV_TUNING` divides by zero for limits less than a megahertz apart; an empty
  table makes `createAtvParas` search all channels; `createDtvParas` tests
  `getMode()` for `getDtvMode()`, so its re-import is dead; `mVbiTsId` is not
  reset between analog channels; `tsid_list` outlives the scan; all PLPs are told
  with the first one's stream id; services that only the SDT names are never
  told; free-to-air is ignored for DVB; two off-table channels may get one
  number; `std::list::merge` orders pointers by address.
- `CTv.cpp:3364`, `3240`: setters without a lock; `SSMLoadHDMIEdidDataWithPort`
  reports success whatever happens; a refused QMS load leaves setting and port
  apart (`raced`, `failed`).
- `CTvPanel.cpp:125`: 55SDC panels get their check file even after failed
  conversions; removal deletes the check file last and the gamma file is
  overwritten in place, so that a panel that comes back may be given torn files;
  a kind without files leaves the old ones.
- `CTvPanel.cpp:319`: the loop of a 43D10 goes on once after its data and writes
  two values too many; the sum of a 65D02_H reads memory that nobody wrote.
- Settings: reads and writes of the SSM always return 0, so their error branches
  are dead; the sleep timer is saved as one byte and read as four; a restore
  clears only the lock of source 0; a password saves its first byte; two threads
  that lock sources at once lose a lock (`crossed`).
- `TvKeyData.cpp:181`: the key device is told a name in one call and the content
  in another, without a lock (`strayed`); what it refuses when it is
  closed is reported as saved; an address that is set after the thread's last
  comparison is never given to the interface (`unheard`); without a file the
  HDCP key is saved as `hdcp2_rx` and read as `hdcp14_rx`.
- Ports: a client's question overwrites what the poll thread compares with, and a
  plug is not told (`untold`); an HDMI source that is not configured is
  answered with port A's status.
- Video paths: where the board has `di_backend` or a fixed tunnel, the default
  path is never found whole and is built anew at each start of DTV; a refusal of
  the resource manager after the removal leaves none.
- `CTv.cpp:2369`: the CVBS standard is read into a byte, so that
  `stdEnumToCvbsFmt` gets no colour bits; an analog PAL 60 with sound DK, BG or I
  is taken for PAL I and gets 50 Hz. The best mode by rate searches the rate
  anywhere in the string and always builds a progressive one.
- Events: a `RecEvent` is copied as bytes with its `std::string`; the info of an
  RRT event leaks without an observer; recorders report stops without the error
  that would make `REC_FAIL` of them.
- `CAv.cpp:853`: events of the decoders do not name their program, so that those
  of the last one are told of the next (`TsPlay!Overlap`); a picture refused while
  `StartTS` runs is told as supported; a start of a timeshift applies neither mute
  nor sound mode; `toDvrVideoFormat` makes MPEG2 of AVS and MPEG4; times notified
  in the state STOP are dropped; a sound mode set without a player is lost with
  success.
- `CTv.cpp:4033`: a running decoder of the second picture is not restarted for a
  new format; a refused stop leaves its flag up under the next source; with
  clients between the poll thread's two steps a decoder starts on a port without
  a signal (`Pip!Overlap`).
- Records: the flag of an accurate record is never lowered; all are named
  "timeshift", so that two with one path share their files; write errors of
  libdvr are not told.
- Alerts: all texts and descriptors of a section land in its first entry; the
  demux is remembered before it is opened, and a channel that is not created
  leaks it.
