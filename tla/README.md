# OpenRTX in TLA+

OpenRTX is a firmware for digital amateur radio devices. This directory holds
TLA+ models of its core, the TLC configurations that check them on small
instances, and proofs checked by TLAPS for what does not depend on the size of
the instance. Every definition is a translation of the source; `PROJECT.json`
maps each one to its lines.

To check a configuration or the proofs of a module:

    tlc -workers 2 -config MCRtx.cfg MCRtx
    tlapm AudioPathProofs.tla

## 1. The system and its parts

A radio runs three threads which are always there and one which comes and goes:

- the **RTX thread** (`rtx.cpp`, `OpMode_FM.cpp`, `OpMode_M17.cpp`), of the
  highest priority: takes configurations, runs the operating mode, drives the
  radio chips, opens and closes audio paths, and feeds or drains the codec;
- the **UI thread** (`threads.c`, `ui/`, `voicePrompts.c`): handles events,
  posts configurations, and plays voice prompts and beeps through the same
  audio paths and the same codec;
- the **device thread** (`openrtx.c`, `state.c`): battery, GPS, keyboard, and
  the shutdown with the storing of the settings;
- the **codec thread** (`audio_codec.c`), made for each encoding or decoding
  and ended by the path it works for or by whoever stops it.

They meet in shared objects: the audio path arbiter, the codec and its frame
queue, the configuration that is posted from the UI to the RTX thread, and the
state structure. Below them lies the storage of settings, which must survive a
battery that is taken out at any moment.

| part | state | operations | what is hard | what makes it correct |
|---|---|---|---|---|
| audio path arbiter, `audio_path.cpp` | map of routes with priority, *suspend list* and *suspended by* list; the set of active ids; next id | request, release, status and info | suspensions that nest; releases in any order, of suspended paths too; stale ids; two threads call it without a lock | the lists and the active set tell the same story, nobody is orphaned or left connected, priorities are respected |
| audio drivers, `audio_*.cpp` | none (pins, codec chips) | compatibility of two paths, connect, disconnect | the rule is not symmetric on one family | paths active together accept one another |
| emulated EEPROM, `eeep.c` (CS7000) | pages of a NOR flash; read and write addresses in RAM | init, read, write, change of page | power cuts and failing operations between any two flash operations; round robin; unsigned differences | an atomic, durable store (until a page change fails) |
| settings log, `nvmem_settings_MDx.c`, `nvmem_Mod17.c` | magic number, flag bits, array of blocks | find the active block, read, save | power cuts; last block; first word after the flags; numbers of 16 bits | the last settings saved are read, garbage is never |
| radio task, `rtx.cpp` | posted pointer, own copy, mode | configure, task, terminate | buffer filled and posted in two critical sections; change of mode in the middle of a call | the last configuration is applied, nothing of the old mode remains |
| FM mode | squelch, path ids | update, enable, disable | speaker denied while a prompt plays | calls are heard, no path leaks |
| M17 mode | off, receive or transmit; lock; path ids | the same | the button is read at two places; denied requests that nobody looks at | receiver and transmitter always fed; reception comes back |
| voice prompts, `voicePrompts.c` | queue of prompts, beep, path id | announce, beep, flush, stop, tick | its path and its codec are taken away by transmissions | a prompt ends |
| audio codec, `audio_codec.c` | running, path, stop request, circular buffer | start (with takeover), stop, push, pop; encoder and decoder threads | condition variable, looks without the mutex, reset outside of it, thread that detaches itself | one thread at a time, frames in order, no signal lost (until a thread is left behind) |
| audio streams, `audio_stream.c` | slots | start, stop, buffers | stale ids, no lock | an id never reaches somebody else's stream |
| stream drivers, `DmaStream.hpp` and others | double buffer | start, stop, sync | interrupt against thread | no half is read while it is filled |
| M17 frames, `FrameDecoder.cpp`, `MetaText.cpp` and others | link set-up frame, segments and blocks of text received | decode, encode, reset | lost segments, two transmissions, a new lock | caller and text shown are those received, never mixed |
| M17 demodulator, modulator | synchronisation state, count of missed syncwords | update | loss of lock, seen by the mode or not | lock is found again and dropped in the end |
| XMODEM and backup, `xmodem.c`, `backup.c` | block number, sizes, address in the flash | send, receive | lost acknowledgements, refused and repeated blocks, a last block that is padded | a transfer ends with the same bytes |
| codeplug file, `cps_io_libc.c` | header with counts; contacts, channels, offsets, banks | create, insert, overwrite, read | every insertion moves what follows; numbers and offsets point past it | the file reads as three tables |
| queues, `queue.c`, `ringbuf.hpp` | circular buffers | push, pop | counters looked at without a lock | first in, first out |
| device state, start-up, shutdown | state and settings | init, task, terminate | threads that still run while the state is torn down | settings stored once, complete |

The rest is not modelled and has no plan: menus and graphics, GPS parsing, the
radio chips' registers, displays and keyboards, error correcting codes and
callsigns (pure arithmetic over tables, unit tested), the read-only codeplug
drivers for the vendors' formats, and vendored code (the Miosix kernel, the USB
stack, codec2, minmea, QR codes). Most of the lines of the repository are of
this kind: the register headers of the microcontrollers alone are a third of
it. Models only assume that the kernel's threads, mutexes and condition
variables work as POSIX says, and that `pthread_join` of a detached thread
fails, which was read in Miosix.

`PROJECT.json` lists all components, and under `hazards` what can go wrong in
them, at its line, with the properties that would show it.

## 2. The modules

    AudioDrivers      AudioPath  <-- AudioPathProofs
         \            /     \
          \          /       Rtx <-- RtxProofs                     EXTENDS
           MCAudioPath        \
           MCRtx ------------- +
    KeyValueStore <== Eeep <-- EeepProofs, MCEeep  <==  is implemented by
    FrameQueue    <== AudioCodec <-- AudioCodecProofs, MCAudioCodec
    SettingsLog <-- SettingsLogProofs, MCSettingsLog
    M17Link <-- M17LinkProofs, MCM17Link
    FileTransfer <== Xmodem <-- XmodemProofs, MCXmodem
    CodeplugTables <== Codeplug <-- CodeplugProofs, MCCodeplug

### AudioPath

`routes` and `activePaths` are the variables of the C++ file, `pathCounter` its
counter (which never wraps here, see bounds), and `connected` is what the
driver was told through `audio_connect` and `audio_disconnect`. A request is
`Open` or `Deny`; a release is `Close` of a live path or `CloseUnknown`. Each
call is one step. `AudioDrivers` has the compatibility rules of the drivers: the
rule of the CS7000 (no endpoint shared), the matrix of Mod17, GDx and Linux, and
that of the MDx radios, which differs in two entries and is not symmetric.

### Rtx

Composes `AudioPath` (EXTENDS: the same routes) with three threads. A step makes
at most one call another thread can see; what lies between two such calls is
local. `rtx` has the status of the task and the flags of the mode, `pc` the
place of the RTX thread in `rtx_task` and in the mode's `update`; `ui` the place
of the UI thread in one round, the configuration buffer, the prompt and the
beep; `codec` and `queue` the codec seen from outside: which path it works for
and the kinds of the waiting frames. `path` has the ids that the owners keep,
stale ones included, as the code keeps them. The button, and a call on the air,
change at any moment; whether a call opens the squelch or a frame is decoded is
a choice. Left out: LEDs, tones, the RSSI filter, link set-up contents (the call
is for this radio), `rtx_terminate`, `vp_terminate`.

### AudioCodec

The same codec from inside, statement by statement: one task that starts, stops,
pops and pushes with the arguments it likes, and threads, numbered as they are
made, each with the place it has reached in `encodeFunc` or `decodeFunc`. A
critical section of `data_mutex` is one step; the looks at `numElements` and
`running` without it, each store of the reset at the start, and the request to
stop and the join are steps of their own. Any look at a path may find it closed
or suspended and any call of a stream may fail, so threads quit by themselves:
the look at `reqStop`, the detaching and the clearing of `running` are three steps
(a decoder whose stream does not start detaches without the look).

A join that fails because the thread has just detached leaves that thread
behind. It will clear `running` of whatever runs by then (see the known faults),
so nothing is said of the number of threads or of the frames from there on;
`abandoned` remembers it, and `OneThread`, `FreshFrames` and `QueueOfFrames`
name it as their condition. `FrameQueue` is what the buffer promises: a queue in
which only the oldest frame of a full buffer, or a whole session, is lost; while
a start resets the positions store by store the queue counts as emptied.

Left out: the count of `codec_init` and `codec_terminate`, a failing
`pthread_create`, a second task that calls at the same time.

### Eeep

Flash pages as their header status and the sequence of their records. A write
is the steps `Write`, `AppendRecord`, `Validate`; a change of page before it is
`Erase`, `Mark`, a copy of every live record, `Activate`, `Retire`, in the order
of `swapBlock`. `FlashError` lets the operations named in `MayFail` report an
error, done or not done; `PowerCut` may come before any step, and within a
record's header. A record knows the cell it begins at, so that the end of a log
is that of its last record. The records `swapBlock` lists are `LiveKeys`, copied
in the order of the list (`NextKey`); a list that would be longer than
`MaxEntries` is the error -ENOSPC, after the next page has been erased.
`KeyValueStore` is what callers are promised; `Stored` - what
`eeep_init` and `eeep_read` would find if the power was cut now - is the
refinement mapping.

When an operation of a page change fails, the two addresses are left in two
pages and the calls that follow go on like that, in the model as in the code:
`adrift` says so until the next boot. `Full` then never holds (the unsigned free
space of `eeep_write` is far too large), so that no other page change begins and
records are appended to the page `writeAddr` is in. The write of a record's header
may fail too, wholly or in part, and leaves `writeAddr` where it was: the next
header goes over what is there (`Torn`). A header over that of another key, or a
record past the end of its page (which takes a failed page change before), mixes
bits of several records; this is the step `Overprint`, after which the
behaviour ends ("spoilt") and nothing more is said. What is claimed is therefore:
- the store keeps what it holds, whichever operation fails;
- a write answered with success is durable, and a read gives what the next boot
  would find, unless a page change has failed since the last boot. After that
  writes may be lost (`unreliable` in `KeyValueStore`) and reads differ
  (`ReadsWhatIsStored` exempts `adrift`): the first of the known faults below.

Left out: failing reads; the calibration partition and the SPI transfers below.

### SettingsLog

One module for both radios, with sizes as constants. A block is its value or
`Garbage`; flash only clears bits, so programming twice leaves garbage. A save
is `Save` (the look), `EraseSector`, `WriteMagic`, `WriteData`, `ClearFlag`;
`PowerCut` comes before any of those in `Cuts`, and within the data. `word0` is
the first word of block 0, which `findActiveBlock` takes for flags once all
flags are cleared.

### M17Link

A radio that sends and one that receives, each with the code of this firmware,
and a channel of frames between them. `air` is the encoder with the frame that
goes by; a later transmission covers the one before. A frame comes in with a
`Quality`: with a syncword that counts for the lock, with one that tells its
kind, with its link set-up frame or segment decoded, with its voice decoded.
`demod` is the state of the demodulator and its count of missed syncwords, `dec`
the decoder with the segments it has collected, `meta` the text, `mode` what
`rxState` shows and whether the speaker is open. `Handle` is the whole of
`rxState` with a new frame, in its order: the reset of the decoder when the lock
is new to it, the decoding, the text, the speaker.

The demodulator works on samples as they come, `rxState` looks at its state once
in a buffer of half a frame: a lock lost and found again in between is not seen,
and nothing is reset. Nor is it when a transmission covers the one received and
its frames happen to lie where those of the other did: they come in on the lock
there is (`FrameTakenOver`; when they lie elsewhere only noise does,
`FrameDrowned`). `unseen` remembers that this happened and what it may have
spoilt: the LSF in use until one arrives on the new lock, and the text, the
speaker and the voice until the loss of a lock is seen at last. `TextIsWhole` and
`OnlyOursIsPlayed` hold with `unseen = "none"`, `CallerIsReceived` unless it is
"lsf", and the code does otherwise beyond that (known faults, below).

Left out: the bits (convolution, Golay, CRC: a code that matches tells the
truth), packet mode, the positions and the extended callsigns of other texts,
the measure of the signal. A text has at most four blocks, as in the code.

### Xmodem and FileTransfer

Both ends of a transfer over one serial line, with the callbacks of the flash
backup and restore: `SendBlock` reads a block from the flash of one radio,
`BlockReceived` erases and programs the flash of the other. `flash` says of each
byte where it came from. The line keeps the order; it damages packets, loses
packets and answers, and a PC in the place of the sender repeats what it was not
answered. `FileTransfer` is what `xmodem.h` promises: the data in order, each
byte once, and no end returns before all are there. At this commit no target
builds `xmodem.c` and `backup.c`.

### Codeplug and CodeplugTables

`cps_io_libc.c` keeps the codeplug in one file without gaps. `file` is that file
as a sequence of items of one cell each: every `sizeof` of the code is 1, so an
offset in bytes is one in cells. Each call is one action with its seeks,
shifts (`_pushDown`) and corrections of the numbers and offsets behind
(`_updateCtNumbering`, `_updateChNumbering`). `CodeplugTables` is what
`cps_io.h` says: three tables, and calls which return 0, or -1 when their place is
not there. What the file means is defined by the reads (`ContactsRead`,
`ChannelsRead`, `BanksRead`), and `ActsAsTables` says of each call, with its
arguments, that it does to these what the same call does to the tables. Since
`ret` is part of the state, a call which returns 0 and does nothing, or is
refused although its place is there, is a step like any other and breaks it.
`cps_writeBankData` is held to the interface only for positions it does not
refuse by the number of the banks.

`sound` turns false with a call that damages the file, after which nothing but
`create` is looked at. There are four: `cps_insertChannel` when
`cps_writeBankData` refuses an entry to be renumbered, `cps_insertBankData`
refused with banks behind, every accepted `cps_writeBankHeader`, and
`cps_writeBankData` on a bank that is not there. The last two write over a place
which depends on the bytes of the banks; the model lets `cps_writeBankData` write
over any cell behind the offsets. Left out: errors of the file system, and the
default values of a channel.

## 3. What the runs check

| run | instance | what it shows |
|---|---|---|
| `audio_paths` | the firmware's seven requests, CS7000 rule, 5 ids | the six invariants of the arbiter and `StatusSteps` in every order of requests and releases |
| `eeep_power_cuts` | 2 pages, 3 keys, 2 values, lists of 2 entries, 5 writes, errors of every flash operation | `Durable` (implements KeyValueStore, which is unreliable after a failed page change), `ReadsWhatIsStored` (unless a page change has failed), `PagesHold` |
| `settings_log` | 4 flags, 5 blocks, 6 saves, cuts everywhere | nothing stale and no garbage is read, a save takes effect at one point, an intact log reads back its last save |
| `settings_interrupted` | the same, 4 saves | **violated**: finding 1 |
| `rtx_threads` | FM and M17, MDx matrix, 3 events, 7 ids | `NoPathLeaked`, `ActiveCompatible`, `FmTalksAlone`, `M17ReceiverFed`, `M17TransmitterFed`, `OffAfterDisable`, `AppliedIsLatest` |
| `rtx_fm_live` | FM, CS7000 rule, 3 events, 10 ids | reception comes back, calls are heard, prompts end |
| `rtx_m17_deaf` | M17, CS7000 rule, 2 events | **violated**: finding 2 |
| `rtx_prompt_stuck` | FM, MDx matrix, 3 events | **violated**: finding 3 |
| `codec_frames` | buffer of 3, two paths of priorities 2 and 4, 2 sessions, threads that quit at any moment | `QueueOfFrames`, `OneThread`, `FreshFrames` until a join leaves a thread behind; blocking calls return unless the thread has quit by itself, stops always (`CallsReturn`) |
| `m17_link` | a call for us with a text of two blocks, one for somebody else with one block; 3 segments | `CallerIsReceived`, `TextIsWhole`, `OnlyOursIsPlayed` under any loss of frames, as long as no change of the lock goes unseen (`CallerIsReceived` from the next LSF on after one); `LateEntry` |
| `xmodem` | blocks of 2 and 4, 3 block numbers, sectors of 8, six sizes up to more than there is; 3 packets damaged, 2 lost, 3 repeated | `Transfers` (implements FileTransfer), `TransferEnds` |
| `codeplug` | 2 contacts, 2 channels, 2 banks of 3 entries, 8 cells | `ActsAsTables` (call by call like CodeplugTables, returns included), `LaidOut`, as long as no call has damaged the file |

### Bounds, and why they are enough

- `MaxPathId`: the firmware's requests have three priorities, so a chain of
  suspensions has three paths at most; five paths make chains with two paths at
  one level, their inheritance, and releases of stale ids all happen. The proofs
  have no bound. In the code the counter is an `int32_t`; wrapping it needs 2^31
  requests and is not modelled. In `Rtx` requests stop at the bound.
  `rtx_fm_live` and `rtx_prompt_stuck` never reach it (FM with three events makes
  at most ten paths on the CS7000, eight on the MDx), so no liveness there
  depends on it. In M17 a call may lose and regain lock for ever, each time with
  a new path; `rtx_threads` looks at the first seven paths of that.
- `MaxEvents`: the user and other stations do three things (press, call, prompt,
  beep, reconfigure, flush) in any choice; what ends by itself - the button
  let go, the end of a call - is not counted. Three are enough for a prompt, a
  press and a reconfiguration to overlap in every way; two events of one kind
  too.
- `BufSize` 1 and `PromptFrames` 2 in `Rtx` make the queue full and make a
  prompt wait for room, the only cases the other side can tell apart. In
  `AudioCodec` the buffer has 3 frames (4 in the code): it wraps, fills and
  empties while a session goes on, and the proofs cover every size. Two sessions
  are what a takeover, a restart and a thread left behind take; the proofs cover
  any number, as long as no thread is left behind. That run does not look for
  deadlocks, as the task may really wait for ever (the known fault at line 125).
- `Eeep`: 7 cells hold three records of two cells and no more, so a page that was
  full changes with every second write at the latest, and five writes change it twice,
  with the wrap from the last page to the first. A list of two entries is too
  short for the three keys, so that the third one is refused when the page
  changes. The code has lists of 8 and pages of 4096 bytes, in which `PageAssumption`
  holds (1 + 8 * 65 + 65 of 1024 cells). `MaxWrites` counts calls of `eeep_write`, power
  cuts and errors are not counted.
- `SettingsLog`: four flags of two bits are two words of flags; six saves use up
  the blocks and reach the erase. The three values differ in the first word of
  their CRC (no bit set, one, both) which is all the search past the flags sees.
  The proofs cover every size.
- `M17Link`: with three segments (one of them with addresses only) a link set-up
  frame can be assembled from two transmissions in every way six can, and the
  proof covers any number. Two transmissions, one of which may cover the other,
  with one and two blocks of text: whole texts, mixed ones and late entries all
  happen. A call without a text is left to the proofs.
- `Xmodem`: three block numbers are the least with which an old packet is not
  taken for the next one, so the wrap of the numbers happens within a transfer.
  A transfer of 8 or 16 is of whole packets, one of 9 ends in a short packet and
  one of 11 in a padded long one, one of 20 is more than the flash holds.
- `Codeplug`: two banks with up to three entries are needed for the entries
  `cps_writeBankData` refuses, and for offsets behind the place of an insertion;
  eight cells hold a channel with two banks and an entry in each, and the channel
  inserted before it. Names are symmetric.

### Fairness

`FairRtxSpec` assumes that the three threads are scheduled: weak fairness of
the steps of the RTX thread, of the UI thread's own steps, and of the codec
thread. The kernel runs them preemptively, and the thread of the highest
priority waits in every turn (in FM for 30 ms, in M17 for samples or for a frame
of the codec), which is why `M17ReceiverFed` matters: with the baseband path closed it would not.
Nothing is assumed of the user, of other stations, or of the events handled by
the UI: `ListensAgain` and `CallIsHeard` speak of behaviours in which the button
is finally let go and a call stays on the air.

`FairSpec` of the codec assumes the same of the task within a call and of each
thread, and that the stream goes on to deliver periods of audio, or fails. Nothing
makes the task call.

`FairSpec` of `M17Link`: frames go by (time passes) and `rxState` runs, which it
does every 20 ms. `LateEntry` asks that from some moment on a stream is received
without errors and stays on the air. `FairSpec` of `Xmodem`: each end runs as
long as it has something to do; it says nothing of the line, and `TransferEnds`
asks that nothing is lost, as neither end has a time-out.

### Findings

Each is a run whose property quotes a comment of the repository.

1. `nvmem_settings_MDx.c`: after a save was interrupted between data and flag,
   the next save programs the same block over the first, and is not read back
   (`LastSavedIsRead`).
2. `OpMode_M17.cpp`: a press of the button which is not followed by a
   transmission (transmission disabled, or a short tap) leaves the radio off,
   neither receiving nor transmitting (`ListensAgain`).
3. `voicePrompts.c`: when a transmission takes the codec between two ticks of
   the prompts, the prompt never ends and keeps the speaker (`PromptEnds`).

Run 2 and run 3 are limited to the mode, and the driver, in which the property
fails; the same properties hold in `rtx_fm_live`.

### Known faults without a run

Met while modelling, and left out of what the passing runs look at, at the
places named:

- `eeep.c:181`: an error halfway through a change of page returns with
  `writeAddr` in the new page and `readAddr` in the old one. The writes that
  follow are answered with success, go to a page which is not active and are
  lost at the next boot; `eeep_read` finds the old data, or none at all when the
  new page comes first; and as the free space wraps, records are in the end
  written past the page (`Eeep`: `adrift`, and `Overprint`).
- `eeep.c:104`: when the header of a record was written although the write was
  reported to have failed, the next write programs its own header over it; with
  another key or size, the record has bits of both (`Eeep`: `Overprint`).
- `audio_codec.c:259`: a thread that quits by itself (its path was suspended, its
  stream failed) detaches and only then clears `running`. When `codec_stop` or a
  takeover comes in between, the join fails, the codec may be started again, and
  the first thread clears `running` of the second: that one can no longer be
  stopped, and another start makes a third beside it, although `audio_codec.h:34`
  says that only one operation at a time is possible (`AudioCodec`: `abandoned`;
  `OneThread` and `FreshFrames` fail without that condition).
- `audio_codec.c:125` and `:157`: when the thread quits by itself after `running`
  was looked at, a blocking `codec_popFrame` or `codec_pushFrame` waits for ever,
  as its end wakes nobody (`CallsReturn` exempts it).
- `nvmem_settings_MDx.c:30`: 1024 blocks of some 180 bytes are more than the
  sector of 131072 holds; the 728th save is written past the end of the flash
  (`SettingsLog` with `Capacity` below `NBlocks` goes to "fault").
- `nvmem_Mod17.c:151`: the sector is erased from block 2047 on, but there are
  1024 flags. Past the last flag the search goes on in the first word of block
  0, and stops where that has a bit set: mostly at a block that was never
  written, so that after the 1024th save, or one of the next, the defaults are
  read until another save erases the sector. Were that word all ones, no save
  would be read back after the 1056th (`SettingsLog` with `Limit` and `Capacity`
  above `NBlocks + WordBits` violates `LastSavedIsRead`, and for the latter
  `NothingStale`, without a power cut). This is why `NothingStaleAlways` assumes
  `Limit <= NBlocks`.
- `OpMode_M17.cpp:177`: a lock lost and found again within one buffer, or one that
  passes to a transmission whose frames lie the same way, is not seen; the caller
  and the text of the call before stay until they are replaced (`M17Link`:
  `unseen`).
- `OpMode_M17.cpp:254`: the addresses are only looked at to open the path to the
  speaker. After such an unseen change from a call for us to one for somebody
  else the path stays open and the voice of the latter is played until a loss of
  the lock is seen, although line 253 says that the path is open only if CAN and
  callsign match (`OnlyOursIsPlayed` has `unseen = "none"` as its condition).
- `MetaText.cpp` with `FrameEncoder.cpp`: the LSF changes at each superframe
  when the text has more than one block, so a late entry with the six segments
  out of step never assembles one (`LateEntry` speaks of texts of one block).
- `xmodem.c:149`: a padded block which is refused is padded again; the size is
  none a packet may have, it is not sent, and the sender waits for ever
  (`TransferEnds` speaks of whole packets).
- `cps_io_libc.c:361`: the position of an entry is compared with the number of
  banks, so `cps_insertChannel` leaves entries with the old number; the number of
  the bank is compared with nothing, so a call on one that is not there takes
  other bytes for its offset and may write over an entry of another bank;
  `cps_io_libc.c:351` seeks to the wrong place to overwrite a bank's header;
  `cps_io_libc.c:464` raises the offsets before the call is refused (`Codeplug`:
  `sound`).

## 4. What is proved

The proof modules rest only on the named assumptions on the constants
(`RequestsAssumption`, `CompatibleAssumption`, `MaxPathIdAssumption`; `Rtx` adds
`ModesAssumption`, `SizesAssumption` and `AskedAssumption`, which says that the
requests include the seven the threads make; `AudioCodec` has `BufAssumption`,
`PrioAssumption`, `SessionsAssumption`; `SettingsLog` and `M17Link` those at the
head of the module), which TLC evaluates in the runs.

**AudioPathProofs**, for every set of sources and sinks, every set of requests,
and every compatibility relation, symmetric or not. The invariants of
the arbiter are nearly inductive together and not one by one: `ActiveAgrees`
cannot be kept by a release without `ListsMirror` (a released path clears itself
from the lists of those in its own list only), and that needs the ids to be live
(`TypeOK`). `IInv` joins them with `SuspendersOutrank` (an inherited suspender
outranks by transitivity) and `NothingLeftConnected`. The lemmas `OpenRoutes`
and `CloseRoutes` say what a call does to every route, and `OpenIInv` and
`CloseIInv` have one step per conjunct. `SuspendedWaitsAlways` needs no
induction: among the suspenders of a path one of the highest priority is itself
active. `StatusStepsAlways` is an action property that follows from `IInv` at
both ends of a step.

**AudioCodecProofs**, for every buffer size, every set of paths and priorities
and any number of starts; threads may quit by themselves at any moment. The
invariant has four parts beside the types, all but the first until a thread is left
behind:
- `SessionsLeft`: a call that starts the codec has a thread left to make;
- `ThreadsAgree` ties the threads to the task: the only thread alive is the one in
  the handle, `running` is set while it is, and none is alive from the join, or
  the look that found `running` false, to the making of the next one. Only a join
  that fails breaks this (`Joined`, `LeavesBehind`);
- `ResetAgrees`: how far the reset has come, and outside of it `RingAgrees` (the
  write position is the read position plus the count, wrapped).

`TypeCorrect` needs no condition. The lemmas `PushAppends`, `PopIsTail`,
`EncodeReplaces` compute the queue after each operation of the ring, and
`NextOtherwise` says that while the reset is under way nobody else touches the ring;
`NextImplements` maps every step to a step of `FrameQueue` or to a stutter
(`QueueOfFramesAlways`). `OneThreadAlways` is `ThreadsAgree`; `FreshFramesAlways`
takes in addition that only the thread in the handle encodes, hence under its own
number. Without the condition `~abandoned` all but the types are false.

**RtxProofs**, for every set of modes, every driver's rule and all bounds.
- `PathsImplemented`: every step of the three threads is a step of the arbiter or
  a stutter, so all that is proved in `AudioPathProofs` holds in the composed
  system; `SuspendedWaitsInRtx` is one such corollary.
- `NoPathLeakedAlways`: an id is only lost when an owner asks while its last
  path is live. The prompts and M17 reception look before they ask; FM, a
  transmission, the demodulator and the modulator do not: that their last path
  is closed by then follows from where the task is. `PlacesAgree` ties its place to the mode and its status (the code in
  `rxState` only runs in M17 with `opStatus` RX, and so on), and `ShutPaths`
  lists the owners whose path is closed at each place; both are kept by every
  step, one step of the proof per action (`ConfigSteps`, `FmSteps`,
  `M17ReceiveSteps`, `M17SendSteps`, `OtherSteps`). The steps of the other threads
  only touch the path of the prompts (`OthersTouchPrompt`).
- `OffAfterDisableAlways` is the part of `ShutPaths` that speaks of the change of
  mode; `AppliedIsLatestAlways` is inductive beside the types.

What a mode needs to talk and to listen (the second part of **RtxProofs**) rests on
both invariants, the arbiter's and that of the first part. The modes look neither at the result of a request nor at the prompts of the UI
thread; what keeps them right are the priorities. `OneOwner` and `Ranked` say
that a live path has one owner, and the pair and the priority that owner asks
with; `AskEffect` and `FreeEffect` say once what a request and a release do to
the paths of the others, `GrantedWhen` when a request is granted, and
`NothingOutranks` that a path of a transmission stays open against all others.
- `FmTalksAloneAlways` holds for every rule of the driver: the speaker is released
  before the microphone is asked for, and what else is open is of a lower priority.
- `M17ReceiverFedAlways` needs of the driver that baseband input and speaker accept
  one another (`DriverListens`), `M17TransmitterFedAlways` that the baseband output
  may be opened beside the microphone (`DriverTalks`). The CS7000 and the MDx radios,
  and the matrix of Mod17, allow both. That the codec encodes for the transmission
  follows as `TakesOver` compares priorities, so no prompt takes the codec
  (`PromptLeavesCodec`), and a prompt stops only its own path's codec (`OneOwner`).

The last safety invariant of `Rtx` is `ActiveCompatibleAlways`. A
release resumes what the path suspended without asking the driver, and a request
does not see the suspended paths: two paths which conflict could both be resumed.
They are not, as whenever a path is opened no suspended path is in its way, so
that of two conflicting live paths the later one suspends the earlier
(`ConflictsListed`). That takes three facts about the task: the speaker of a mode
and its transmission are never live together (`Apart`, and `RxSilent` for the way
from reception to transmission), and the microphone of M17 suspends no prompt
(`TxSparesPrompt`). The last one is a fact about the drivers (`DriverPrompts`), true
of all three rules, and needed: `disable()` releases the microphone before the
baseband output, so a prompt that waited for the former alone would be resumed
into the latter.

**SettingsLogProofs**, for every size of the log, every set of settings and power
cuts at any moments. What is read hangs on the flash alone (`SameFlash`) and is
computed once (`Located`). The key is in `Writing`: a save always writes the
block `FirstSet`, the one after the active block. So neither the data nor half of
them change what is read (`DataKeeps`, `CutKeeps`), which gives
`SwitchesAtTheFlagAlways`; and in an intact sector the block whose flag is
cleared is the value saved (`FlagKeeps`), which gives `IntactSavedIsReadAlways`.
`NothingStaleAlways` needs one thing more, that no settings lie beyond the block
written (`Beyond`), and holds for `Limit <= NBlocks` only: see the known faults.

**M17LinkProofs**, for any number of transmissions, of segments, and any texts of
up to four blocks. `OfLock` says of what is kept of a reception - the LSF, the
blocks of text, the voice, what is shown - whose it is, while a lock is held; `LockKnown` and `Blank` that nothing is kept when no lock is known.
The heart is `AddSegmentOf`: whatever was collected before, an LSF put together
from the segments passes its CRC only when all are of one LSF, hence of the
transmission of the segment that completed it.
`HandledKeeps` proves the whole of `rxState` with one frame once,
and the four ways a frame comes in (`FrameAcquired`, `FrameHeard`,
`FrameTakenOver`, `FrameDrowned`) are instances of it. What `OfLock` says ends where a
change of the lock goes unseen, and so do the theorems.

**XmodemProofs**, for every size of transfer, packet, sector and flash (a sector
being whole packets), three or more block numbers and any number of faults:
`Xmodem` implements `FileTransfer` (`TransfersAlways`). The ends are in step, or
the receiver is one block ahead of a sender that has not seen the
acknowledgement (`LinkAgrees`). A packet on its way is of the present block or of
the one before, and those of the one before come first (`PacketsKnown`,
`OldFirst`, from the order of the line); an acknowledgement on its way is of
a block that was written (`Answers`). Hence what the receiver accepts is the
block that follows what it has (`AcceptedIsPresent`), and it falls on erased flash
(`FlashAgrees`, `WrittenOf`), as sectors start where packets do.

**EeepProofs**, for any number of pages, keys, values and calls, and any sizes of
records of which `MaxEntries` and one more fit in a page. A call is either in the
page it found (`Staying`) or moving to the next one (`Moving`), and `IInv` says
what holds in each phase:
- `InPlace`: while it stays, both addresses are in one page, which is the one
  `eeep_init` would take (`BootsHere`), and the record to come fits - unless
  `adrift`;
- `Adrift`: after a failed page change `writeAddr` is in the page that came next
  and no other page change begins (`FullIs`: the free space is never too small);
- `WriteAddr`: `writeAddr` is at the end of the log of its page, or at its last
  record when the header of that one failed;
- `InRecord`: the record that waits for its status is the last one, invalid, and
  that of the request or of the key whose turn it is;
- `Listed`: the list is of the keys that are read in the old page, and the page
  to come is empty;
- `Copy`: while it moves, each key that is off the list reads the same in both
  pages, the old page is active and comes before all other active pages but the
  new one, and the cells the list may still take are free.
The lemmas `LatestAppend`, `LatestOver`, `MadeValidIs` and `UsedAppend`, and with
them `WrittenIs` and `ValidatedIs`, say once what `writeRecord` does to a log. `PagesAlwaysHold` is `Copy` and `InPlace`: the space
is looked at before the page changes and never after, and yet no record runs past
its page, except in the step `Overprint`. `AlwaysDurable` is the refinement of `KeyValueStore`, one lemma for each
action: only `Validate` outside a page change, or a failure of it that reached the
chip, changes what is stored, and the latter only in the page boot would take
(`RequestStored`): elsewhere, which takes `adrift`, the write is one that
`KeyValueStore` loses. `Activate` does not, as both pages read the
same by then; this is also why an error of it, or a power cut before `Retire`, is
harmless. `PageAssumption` is needed for `PagesHold`: with pages of fewer cells the
copies alone would run past the end.

**CodeplugProofs**, for any bounds of the tables and any names. `LaidOut` is
inductive as it stands, as each call needs all of the layout: it finds the banks
by their offsets, and the end of the last bank by its count. `Layout` speaks of
neighbours (a bank begins where the one before it ends); `Ordered` draws from it,
by the least counterexample, where every bank is, and `Places` that no read leaves
its part of the file. The lemmas `InsertedIs`, `OverwrittenIs` and `RaisedIs` give
every item of the file after a shift, a write and a correction. Each insertion is
one lemma about the file before and after (`ContactInserted`, `ChannelInserted`,
`BankInserted`, `EntryInserted`), which also says that every other bank reads as
before wherever it has moved (`BankAs`); `NewOffset` is the offset which
`cps_insertBankHeader` computes. `SameShape` serves all that writes over an item
of the same kind. `AlwaysLaidOut` follows.

`AlwaysActsAsTables` is the implementation of `CodeplugTables`, call by call, as
long as `sound` stays true. `Answered` says what a call does that does not return
0: nothing (`Refused`), or to raise offsets (`SpoilsOffsets`). For one that does,
there is a lemma for each call (`insertContactActs` to `writeBankDataActs`), and
`PlacesRead` and `ListRead` say that the guards of the code are those of the
tables (`InsertionsAct`, `WritesAct`, `insertBankDataAnswers`,
`writeBankDataAnswers`). `TablesRead` and its like give the three tables as
operators of a header and a file (`ContactsOf`, `ChannelsOf`, `BanksOf`), and
`ContactRows`, `ChannelsAre` and `BanksAreRows` their rows. An insertion lemma then
says of each row of the new table which row it was (`RowPut`), and `RowInserted`
that this is `InsertAt`; `RowSet` and `RowReplaced` do the same for a row that is
overwritten. `EntriesMoved` is where `sound` counts: no entry is left out by
the bound in `cps_writeBankData` that should have been raised. `EntriesApart` says
that no cell is an entry of two banks, so that overwriting one is seen in one list
alone. A refused `insertBankData` of the last bank leaves the file as it was
(`NothingRaised`, `SpoilsStep`); of any other it ends `sound`.

Only model-checked: all liveness, since temporal fairness is out of reach of the
prover.

## 5. Plan

Models, in this order:

1. *Overlapping requests*: `AudioPath` with a request split into its check and
   its commit, called by two threads, for which the arbiter has no lock.
2. *Codec under pressure*: `AudioCodec` with a second task, and with the critical
   sections statement by statement once a thread has been left behind.
3. *Audio streams*: the slots and their ids, and below them the double buffer of
   `DmaStream` with its interrupt.
4. *Start-up and shutdown*, with the queues between the threads.

Proofs:

1. Every invariant and action property a run checks is a theorem. What the
   liveness properties rest on can be proved as well, short of fairness: that each
   step of an `Xmodem` transfer leaves less of it to do or uses up a retry, and
   that each step of an M17 reception under a link set-up that is never heard
   brings the late entry nearer (`LateEntry`).
2. With each model above, its invariants in the same form: an inductive invariant
   first checked by a run, one lemma for each action.
