# Verification of the Ralink AP SDK's own programs

The repository is an access-point SDK (Ralink 4.1.1, RT5350): a Linux 2.6.21
tree, uClibc, many third-party programs, and a few programs of the SDK's own.
This directory models three of its subsystems:

* **rtdot1xd**, the IEEE 802.1X authenticator daemon in `user/802.1x`. It
  decides whether a wireless station may use the network, and relays between the
  station (EAPOL) and a RADIUS server (UDP);
* **NVRAM**, the settings of the device: a kernel module over a flash sector,
  the library `libnvram`, and the daemon that restores defaults;
* the **Block Ack recipient** of the rt2860v2 wireless driver, which puts the
  frames of an A-MPDU session back in order.

There are TLA+ modules for each, TLC configurations that check them on small
instances, and TLAPS proofs of nearly all their safety properties and of both
refinements for every value of the constants.

Paths are relative to `src/lktos_sdk/source`; in what concerns rtdot1xd, to its
`user/802.1x`. The daemon is built with `MULTIPLE_RADIUS` (each BSS has its own
list of RADIUS servers), libnvram with `CONFIG_KERNEL_NVRAM`.

## Inventory

### rtdot1xd

| Part | State | Operations | Talks to |
|---|---|---|---|
| State machines (`eapol_sm.c`) | per station: `auth_pae`, `be_auth`, `reauth_timer`, `auth_key_tx`, four timers, the signals between the machines, `portStatus` | `eapol_sm_alloc`, `_initialize`, `_step`, `_free`, `eapol_port_timers_tick` | called by every handler of `ieee802_1x.c`; calls back to send identity requests, requests, responses to the server, and to set the port |
| Frames and replies (`ieee802_1x.c`) | `last_eap_supp`, `last_recv_radius`, `radius_identifier` in `sta_info` | `ieee802_1x_receive`, `handle_eap_response`, `ieee802_1x_encapsulate_radius`, `ieee802_1x_receive_auth`, `ieee802_1x_new_station` | sets the machines' inputs and calls `eapol_sm_step`; sends through the RADIUS client |
| RADIUS client (`radius_client.c`) | retransmit list `msgs`, `num_msgs`, `next_radius_identifier`, current server of each BSS | `Radius_client_send`, `_list_add`, `_get_id`, `_receive`, `_timer`, `_flush`, `Radius_change_server`, `Radius_retry_primary_timer` | calls `ieee802_1x_receive_auth` for a reply; timeouts of eloop |
| Station table (`sta_info.c`) | `sta_list`, a hash table, session timers | `Ap_get_sta`, `Ap_free_sta`, `Ap_get_sta_radius_identifier`, `Ap_sta_session_timeout` | a station owns its state machines |
| Event loop (`eloop.c`) | ordered timeout list, readers, signals | `eloop_run`, `eloop_register_timeout`, `eloop_cancel_timeout` | calls all handlers, one at a time |
| Daemon (`rtdot1x.c`) | the above together | `Handle_read` (frames and driver events), `Handle_reload_config`, `Handle_usr1` | the wireless driver |
| Configuration (`config.c`) | server lists and secrets per BSS, timeouts | `Config_read` | an ioctl of the driver |
| Coding (`radius.c`, `md5.c`) | none | RADIUS attributes, HMAC-MD5 | pure functions |

What is hard here. The daemon has one thread, but everything is asynchronous:
frames, replies, timeouts, driver events and reloads may come in any order, be
lost, delayed or repeated, and each finds the state that the others left. Four
machines signal each other inside a loop that ends when nothing changes. Flags
set for one authentication may be seen by the next. Identifiers are one byte
and reused. Timeouts are kept by (function, context) and must be cancelled
before their context is freed. What makes each part correct:

* state machines: the port is authorized only on an accept of the current
  authentication, a reject revokes it, every wait ends, `eapol_sm_step` returns;
* RADIUS client: identifiers in the list are unique, the list is bounded, a
  non-empty list has a timeout, requests are signed with the secret of the
  server that they go to, requests are given up in the end, a reply reaches the
  station that asked.

`PROJECT.json` lists the places where this could go wrong ("hazards"), with the
property that would show it or the reason why none does yet.

### NVRAM

| Part | State | Operations | Talks to |
|---|---|---|---|
| Kernel module (`linux-2.6.21.x/arch/mips/rt2880/nvram.c`) | per flash block: cache of settings, `dirty`, the buffer `env.data`; one semaphore | `ra_nvram_init`, `nvram_get`, `_getall`, `_set`, `_commit`, `_clear` through ioctls | `ra_mtd_write_nm` |
| Flash (`drivers/mtd/maps/ralink-flash.c`) | one erase sector that holds all blocks, each a CRC and data | `ra_mtd_write_nm`: read the sector, patch, erase, write | survives power loss |
| libnvram (`lib/libnvram/nvram_env.c`) | per process and block: a cache, `valid`, `dirty` | `nvram_init`, `_bufget`, `_bufset`, `_commit`, `_close`, `_clear` | the kernel module |
| Daemon (`user/rt2880_app/nvram`) | where it is in `main` or in a restore | test of `WebInit`, `loadDefault` (`ralink_init clear`, `renew`), `initGpio`, pid file, SIGUSR2 | the web server waits for the pid file |
| Other loaders (`user/goahead`, its `upload_settings.cgi`, `user/3g_dial`) | which command of the load they wait for | `ralink_init clear` and `renew` with the defaults or a user's file, `reboot` | the kernel module, in competition with everybody else |

Hard: power loss between any two steps of a commit, which are two writes of the
whole sector; errors that nobody looks at; several processes with caches of
their own over one kernel cache; a load of settings, by any of several programs,
that others can commit or clear in the middle of. Correct means: after a restart
each block holds what was saved, what was being saved, or nothing; "nothing to be
committed" is true; while the pid file is there the defaults are there; the daemon
always gets that far.

### Block Ack recipient

`drivers/net/wireless/rt2860v2/common/ba_action.c`. State: the table
`BARecEntry` (position `LastIndSeq`, window, ordered list, time of the last
frame), the index `BARecWcidArray` of each station and TID, the counter
`numAsRecipient`, and a pool of blocks that all lists share. Operations:
`Indicate_AMPDU_Packet` with its five cases, `CntlEnqueueForRecv` (BlockAckReq),
`PeerAddBAReqAction`, `PeerDelBAAction`, `BASessionTearDownALL` from
authentication and removal of a station, and `iwpriv BARecTearDown`.

Hard: frames are lost, repeated and reordered by definition; sequence numbers
wrap; the pool and the table run out; timeouts give frames up; a command in
process context is interrupted by the softirqs that it races with. Correct
means: frames leave a session in order and once, an acknowledged frame is not
lost, lists stay inside their window, blocks and table entries are accounted for.

### The other parts

* `user/lldt`: link-layer topology responder with session and enumeration state
  machines.
* `user/3g_dial`, `user/lktos_app`, `user/goahead`, `lttools/hmimagebuilder`:
  sequences of AT commands and shell commands, translation of forms to
  configuration values, image concatenation. String work and I/O.
* The rest of the kernel and driver, the C library, busybox, samba, pppd,
  iptables and so on: mostly third-party code.

See "Not modelled".

## Modules

| Module | Content |
|---|---|
| `EapolSm` | the authenticator of one station: state machines, step loop, handlers |
| `MCEapolSm` | its instances for TLC |
| `EapolSmProofs` | its theorems: types, authorization, lockstep, ticks, counters, inputs, waits, replies, and that it implements `PortAccess` |
| `RadiusClient` | retransmit list, identifiers, failover, reload, matching of replies with stations |
| `MCRadiusClient` | its instances for TLC |
| `RadiusClientProofs` | its theorems |
| `PortAccess` | abstract: a controlled port, its request and the server's verdict; implemented by `EapolSm` |
| `Nvram` | kernel module, flash sector, libnvram, nvram_daemon, other processes, power loss |
| `MCNvram` | its instances for TLC |
| `NvramProofs` | its theorems: types, saved blocks, and that it implements `SettingsStore` |
| `NvramDaemonProofs` | its theorem about the daemon and the defaults |
| `SettingsStore` | abstract: settings that are live, saved or being saved; implemented by `Nvram` |
| `BaReorder` | Block Ack recipient: table, reordering lists, pool; an external originator |
| `MCBaReorder` | its instance for TLC |
| `BaReorderProofs` | its theorems: types, blocks; the lemmas about its handlers |
| `BaTableProofs` | its theorem about the table |
| `BaListProofs` | its theorem about the lists and windows |
| `BaOrderProofs` | its theorems about the frames passed up: order, uniqueness, survival |

Operators whose comment begins with "Mutant" are slips a programmer could have
made in the definition that follows them. None is used by a specification; each
is substituted for its original to see that the property it belongs to notices.

### EapolSm

Variables are named after the fields of `struct eapol_state_machine`. A handler
sets inputs and calls `eapol_sm_step`; `pc` is the place in that call. One TLA+
step is one `SM_STEP_RUN` of the loop body, that is: choose the target state as
the `SM_STEP` function does (`PaeTarget`, `BeTarget`, `ReauthTarget`,
`KeyTxTarget`) and carry out its entry action (`PaeConnecting`, `BeResponse`,
...), including what the entry action calls. `changed` stands for the
comparison with the `prev_xxx` variables: as in the code, entering the state a
machine is already in does not count as a change. `after` is what the handler
does when the call returns: `eapol_sm_initialize` deasserts `initialize` and
runs the loop again, `EAPOL-Start` and `-Logoff` run it twice (once in the
`case`, once at the end of `ieee802_1x_receive`), the tick registers itself
again, an accept without any timeout frees the station.

`sta.pending` is `radius_identifier >= 0`, `sta.lastRecv` the code of
`last_recv_radius`. A reply can arrive only while an identifier is pending, in
any state of the machines: that is how late replies enter the model. `tick`
counts registrations of `eapol_port_timers_tick` for this station.

`ghost` is history that no action reads. `verdict` is the server's answer to
the latest request of this authentication if it came while the Backend waited
for it; entering AUTHENTICATING or RESPONSE clears it.

Left out: EAP identifiers (a response either has the current one or is
`OtherFrame`), packet contents, counters for statistics. `portControl` is only
ever `Auto`, so FORCE_AUTH and FORCE_UNAUTH are unreachable. Session-Timeout is a
natural number below 2^31.

### RadiusClient

`msgs` is `radius->msgs` with the newest request first. Absolute times of the
code are kept as the seconds still to go. `timers` counts the registrations of
`Radius_client_timer` per remaining delay; there can be several, as a list that
empties and fills again registers another. The handlers are atomic except
`Radius_client_timer`, whose `while` loop is taken one entry per step (`entry`,
`failover`). `Radius_change_server` compares secrets and flushes the list or
resets its entries; `ChangeServer` does this for all BSSs that move at once. (In
the code they move one after another within the same handler; each flush empties
the list for the next, and each reset gives the same result, so the outcome is
that of one call.) `Handle_reload_config` frees stations and the list and
starts with the first server of each BSS.

A reply first removes its request (`Acknowledge`), then is matched with the
first station that has the identifier (`Matches`), as `sta_info.c` does. The
sockets, and the statistics of the handlers' table, are left out. The period of
`Radius_retry_primary_timer` is left open: it may fire at any time.

### PortAccess

The port opens on an accept of the latest request only; a request is answered at
most once; after a reject nothing more is asked while the port is open. The
refinement mapping takes `port` from `sm.portStatus` and `verdict` from the
history variable of EapolSm. The steps of the machines in between stutter.

### Nvram

A kernel cache is a function from names to values, a block in flash a CRC and
data. A CRC is modelled as the content it was computed from, so it matches
exactly the right data. The kernel is built for one processor without
preemption, and the ioctls of 2.6.21 run under the big kernel lock; other processes
therefore get in at the return to user space, while a caller waits for
`nvram_sem`, during flash I/O (which sleeps), and at `copy_to_user` (which may
fault and sleep). These are the boundaries of the actions: `Get` and
`GetReturns`, `GetAll` and `ParseAll` are apart, and `CommitDirty`, `Erase`,
`Program` (one block each) and `WriteReturns` are apart while `sem` is held. A
block cut in the middle of being programmed reads like an erased one (its CRC
does not match), so a block is programmed in one step.

`ra_mtd_write_nm` can return an error from `kmalloc`, `mtd->read`, `mtd->erase` and
`mtd->write`, and neither `nvram_commit` nor `nvram_clear` looks at it. `WriteFails`
may end either of the two calls at any point; it leaves what a power cut at that
point would leave (`Stopped`: any of the blocks erased, or only the first ones
programmed), and the caller goes on, releases the semaphore and clears `dirty`. So
a failed save can empty the other blocks of the sector under a running system.

A cleared block is all ones under a good CRC: `init_nvram_block` finds no
terminator in it and reads past the buffer; the outcome is an empty cache or one
entry of junk (`Parse`). The junk does not fit `env.data`: a GETALL
(`nvram.c:649`) as well as a commit (`516`) of it overruns the buffer while it
holds `nvram_sem`. Two outcomes are modelled: the overrun hits nothing, or the
process dies there (`Overrun`) and the semaphore is never released (`Oops`), after
which only a power cut helps. A further entry finds the buffer full: the commit is
refused (`CommitFails`), and a GETALL copies nothing, so that libnvram parses what
`malloc` gave it (`GetAllFails`). Not modelled: an overrun that changes other data
of the kernel, and the byte that `init_nvram_block` itself writes beyond its buffer.

A process is an instance of libnvram on one block; its cache is the set of names
it knows, since values always come from the kernel. `BlockOf` gives each process
a block, so a program that uses two counts as two. `ralink_init`, which the
daemon and others run and wait for, takes its caller's place in `lib` with a fresh
cache. `ra_nvram_exit` is never called (the module is built in).

`load` is the `ralink_init clear` and `renew` that a process runs. The daemon runs
them when `WebInit` is not "1" and on SIGUSR2; the web server on its own SIGUSR2
(`goahead.c:218`), from its pages and application interface (`management.c:1040`,
`appinterface.c:1436`), the 3G dialler (`loopt.c:211`, `netcmd.c:1432`)
(`ProcResets`); `upload_settings.cgi` with a file of which nothing is known
(`ProcUploads`): it may lack defaults, give them other values, or end at a line
without a value, where `renew_nvram` commits what it has. All but the daemon at its
start then call `reboot`. `WebInit` is set only by loading a file. In `main` of the
daemon, `initGpio` may fail, and the daemon exits without a pid file; if it does not,
it has installed the handler of SIGUSR2, and a restore can come before the pid file.

`ghost.spoilt` and `ghost.unsaved` are history. `spoilt`: a commit or a clear of
another process in the middle of a renew, a set of a load refused for lack of room,
or an uploaded file that lacks a default. `unsaved`: the blocks that a failed
write was for or has wiped, until they are written again.

### SettingsStore

`live` is what processes see, `saved` what a restart finds, `saving` the block
being saved. A save that succeeds saves its block as it is live and leaves the
others alone. One that fails leaves its block old, new or empty, and may have
emptied others; `lost` names them all. A restart in the middle of a save may find
any block as saved before, or empty, or, for the block being saved, as it was to
become; never a mixture. A restart at any other time brings back what was saved.

### BaReorder

Frames are named by flow (one TID of one station) and an unbounded number; the
code sees the number modulo `MAXSEQ + 1`. The handlers run in softirq context on
one processor and are atomic. (`MlmeHandler` also runs in process context, when an
iwpriv command such as AutoChannelSel starts a scan, `ap_cfg.c:6549` and
`ap_sync.c:1532`; an ADDBA or DELBA that it finds in its queue there could be
interrupted by reception. The model takes it for atomic too.) They are written as functions on a record with the
fields of the entry, the pool and the frames passed up, in the order of the
code's calls: `Indicate_AMPDU` applies `FlushTimeout`, then one of the cases I to
V. `iwpriv BARecTearDown` runs in process context and is cut where it holds no
spin lock (`TdEnter`, `TdRefresh`, `TdSection`, `TdFree`, `TdDec`).

The originator is external and keeps the rules of IEEE 802.11: one window
outstanding, repetition until acknowledged or given up, BlockAckReq with the
start of its window. The hardware acknowledges each frame of a session; the
acknowledgement may be lost. Times are an age: 1 is more than 100 ms since the
session's last frame, 2 more than 500 ms.

The driver does not keep its promises in every case, and the properties say in
which it does. `why` records, per session, what was done that voids one: the
first frame after a reset was not the oldest (`first`), a gap was given up after
100 ms (`timeout`), a whole list was flushed (`refresh`), a frame went up past
the list (`direct`), its successor stayed in the list (`stuck`), a frame in the
list was passed up while another copy may come (`again`), a new frame is half of
the sequence numbers ahead of the session's position and looks old (`behind`;
windows of lost frames must be given up in a row for that, since the position
moves only with what arrives). `ghost.raced` says
that a softirq came between the steps of `BARecTearDown` in a way that changed
the session; `ghost.orphans` are entries that no index names any more.

Left out: the cast of `BufSize` to a byte (`692`, `1371`; grant and record are cast
alike) and the comparison of the TID in `BARecSessionTearDown` (`1031`), which can
fail only for an orphan or after a race; oversized frames, A-MSDU conversion, statistics, `bBADecline`, the wrap
of jiffies, the release of all resources when the interface goes down.

## Runs

| Run | Question | Result |
|---|---|---|
| `eapol_sm` | safety of one station under all interleavings of frames, replies, ticks, disconnects; does every step loop end, and every reauthentication conclude | holds (715,733 states) |
| `eapol_sm_state` | is State sent only in reply to a challenge, as the comment says | violated |
| `eapol_sm_reauth` | does `session_timeout_interval = 0` disable reauthentication, as the README says | violated |
| `radius_client` | safety of the client with two BSSs, failover between servers of equal and different secrets, reload | holds (about a million states) |
| `radius_client_live` | are requests given up in the end, one server per BSS | holds |
| `radius_client_failover` | the same with two servers that share a secret | violated |
| `radius_client_reply` | is a reply used only by the station whose request it answers | violated |
| `radius_client_timer` | is every request retransmitted when it is due | violated |
| `nvram` | what is left of the settings after power loss and after failed reads, erases and writes of the sector (old, new or empty, as SettingsStore says), and does nvram_daemon always restore what is missing | holds (717,760 states) |
| `nvram_get` | does nvram_get return the fresh value, as its comment says | violated |
| `ba_reorder` | order, uniqueness and survival of frames, accounting of blocks and sessions | holds (595,039 states) |
| `ba_reorder_assert` | does an ADDBA always take an entry with an empty list, as `BARecSessionAdd` asserts | violated |

`eapol_sm` also checks that `EapolSm` implements `PortAccess`, and `nvram` that
`Nvram` implements `SettingsStore`.

What the properties of the passing runs say:

* `AuthorizedByAccept`: a late accept leaves `aSuccess` set, and a later
  authentication must not profit from it. It holds because RESPONSE clears it.
* `RejectRevokes`: the handler of a reject does not return with the port open.
* `Lockstep`: between handlers PAE and Backend are in matching states.
* `EveryWaitTimed`: in every waiting state the timer that ends it runs and the
  tick is registered, so a lost frame cannot hang a station.
* `TickOwned`: no tick is left to run on a freed state machine, none is doubled.
* `InputsServed`: no start, logoff or reauthentication request is left behind.
* `RetriesBounded`: counters tested with `!=` and `>` do not step over the limit.
* `ReplyCarriesState`: the other half of the State comment, which does hold.
* `StepTerminates`, `ReauthConcludes`: liveness of the loop and of a
  reauthentication; the former also when Session-Timeout is zero, where the
  Reauth Timer machine by itself would change state in each pass.
* `UniqueIds`, `TimerArmed`, `NumMsgsCovers`, `SecretCurrent`, `Drains`: see the
  inventory. `NumMsgsCovers` is an inequality because `Radius_client_get_id`
  unlinks without decrementing `num_msgs`.

* `ImplementsPortAccess`: see PortAccess. It adds to `AuthorizedByAccept` that a
  reject is effective before the next request.
* `ImplementsStore`: see SettingsStore. The CRC is what makes it hold.
* `CleanMeansSaved`: a commit that finds nothing to do leaves nothing unsaved,
  except in a block that a failed write was for or has wiped.
* `PidMeansDefaults`: while the pid file is there and nobody is loading settings,
  the defaults are set, whatever power cuts, failed writes and loads came before;
  except after a commit or clear of another process in the middle of a renew, which
  can leave `WebInit` with part of the defaults, with a full cache, or after an
  upload that lacks a default.
* `DaemonFinishes`: the daemon gets to `pause` from every state of the flash, or
  exits because `initGpio` failed, unless an overrun took the semaphore along.
* `BlocksAccounted`: no block is lost or freed twice, even when commands are
  raced; the only leak is that of EAPOL frames.
* `ListInWindow`: the asserts at `ba_action.c:722`, `1999` and `1892`, and order,
  unless a command is raced; `ba_reorder_assert` shows that case.
* `TableConsistent`: counter, entries and indices agree.
* `NoReorder`, `NoDuplicate`, `AckedNotLost`: what a session promises the upper
  layers and the originator, with the exceptions named above.

### Bounds

EapolSm is finite by itself: timers are reset to constants and counters are
tested. The instances use timers of one or two seconds instead of 30 to 3600
and `reAuthMax = maxReq = 2`: enough for a timer to be running, to expire, and
to be restarted, and for each counter to be below, at and past its limit.
Session-Timeout is 0 or 1. Two different values for `txPeriod` and `quietPeriod`
make the timers expire in different orders.

RadiusClient: three identifiers and a list of two make identifiers wrap while
old requests are in the list and make `num_msgs` drift to its limit. Three
attempts, failover past one, and waits of 1, 2 and 3 keep the order of the
code's 10, 4 and 1..120: an entry fails over before it is given up. Two BSSs let
one fail over while the other has requests. `MaxTimers = 2` limits concurrent
registrations of the timer; a send waits while there are two. The code has no
such limit. The proofs of safety do not use it.

Nvram: two blocks, so that a write can take another block along; a cache with
room for two settings and three names, so that it can be full; `WebInit` and one
more default, so that a renew can be half done; one use (a set, a restore or a load)
and one fault (power cut or failed write) at any step. An uploaded file is empty, or
has `WebInit` and not the other default. A power cut or a failed write can hit the
repair that the erased factory block calls for. The invariants were also checked
with an upload of all defaults (851,326 states) and with a set, a load and a fault
in one behaviour (4,168,341 states); those instances take longer and are not kept
as runs. `nvram_get` has two processes.
One factory block is erased, the other holds a setting.

BaReorder: `MAXSEQ = 7` with windows of 1 and 3 keeps a window just below half of
the space; `FirstFrame = 16` starts at sequence number 0, so the start of a
BlockAckReq is 0 and the position before it wraps to 7. Four frames let one fall
beyond a window of three, and let the originator get half of the space ahead of a
position that a BlockAckReq has set. Two flows share a table with one usable entry and a
pool of two blocks, so both run out. One of the frames carries EAPOL. Two ADDBA
requests open a session and renew it or give its entry to the other flow; one
command or allocation failure races with them. (Three hold as well, in 1,100,549
states; that instance is not kept as a run.)
Because all these are used up in the end, deadlock is not checked. The flows are
interchangeable (symmetry).

Stations are interchangeable, so `radius_client` uses symmetry over them; the
runs of temporal properties do not.

### Fairness

* EapolSm: the step loop is a C loop, hence weak fairness of `StepLoop` (and of
  handling the frame for which a station was created). `eloop_run` serves a due
  timeout before it reads sockets, so a stream of frames cannot postpone the
  tick for ever: strong fairness of `Tick`, as a handler disables it meanwhile.
* RadiusClient: weak fairness of `Tick` (time passes) and of
  `Radius_client_timer` (a due timeout is served, and its loop runs on).

* Nvram: weak fairness of the flash write (it runs on once begun); strong fairness
  of the daemon, of its own steps and of its calls, since `down` queues the waiters
  for `nvram_sem` and others cannot overtake the daemon for ever. Nothing is assumed
  of other processes, failed writes, power cuts, restores and the reboot.
* BaReorder is checked for safety only. Delivery is not promised: the timeouts
  are looked at only when a further frame arrives.

Nothing is assumed of the supplicant, the server or the driver.

## Proofs

The theorems hold for every value of the constants that the module's
`ConstantsAssumption` allows: any timer length, retry limit and Session-Timeout;
any number of stations, BSSs and servers, any modulus and list limit; any number
of flash blocks, processes, settings and faults; any number of flows, table
entries, blocks and frames. The assumptions that are more than types:

* `Nvram`: the content of a cleared block (`Ones`) is no set of settings; what
  the device is delivered with holds no junk, and its settings are complete or
  missing altogether; `WebInit` is the first of the defaults, as in
  `RT2860_default_vlan`; a dead holder of the semaphore (`Oops`) is no process.
* `RadiusClient`: every BSS has at least one server. That is more than the code
  ensures: `config.c` asks for one server in all, and `Radius_client_send` takes the
  server of the BSS without a test (`radius_client.c:257`). Runs and proofs say
  nothing of a configuration in which a BSS with 802.1X has none.
* `BaReorder`: the number of sequence numbers is a power of two up to 4096 (the
  code masks with `MAXSEQ`), and every window is less than half of it. The driver
  has 4096; the window in an ADDBA has ten bits and `RxBAWinLimit` is 64.

| Theorem | States | Inductive invariant |
|---|---|---|
| `EapolSmProofs!TypeCorrect`, `AuthorizationSound`, `MachinesInLockstep` | `TypeOK`, `AuthorizedByAccept`, `Lockstep` | `IInv` |
| `EapolSmProofs!TickIsOwned`, `RetriesAreBounded`, `InputsAreServed`, `EveryWaitIsTimed`, `RepliesCarryState`, `RejectsRevoke` | `TickOwned`, `RetriesBounded`, `InputsServed`, `EveryWaitTimed`, `ReplyCarriesState`, `RejectRevokes` | `IInv /\ Kept` |
| `EapolSmProofs!PortAccessImplemented` | `ImplementsPortAccess` | `IInv /\ Kept` |
| `RadiusClientProofs!TypeCorrect`, `IdentifiersUnique`, `RetransmissionArmed`, `ListBounded`, `SecretsCurrent` | `TypeOK`, `UniqueIds`, `TimerArmed`, `NumMsgsCovers`, `SecretCurrent` | `Inv` |
| `NvramProofs!TypeCorrect`, `CleanIsSaved`, `StoreImplemented` | `TypeOK`, `CleanMeansSaved`, `ImplementsStore` | `KInv` |
| `NvramDaemonProofs!PidComesAfterDefaults` | `PidMeansDefaults` | `DInv` |
| `BaReorderProofs!BaTypeCorrect`, `BlocksAreAccounted` | `TypeOK`, `BlocksAccounted` | `TInv` |
| `BaTableProofs!TableIsConsistent` | `TableConsistent` | `TInv /\ TableInv` |
| `BaListProofs!ListsStayInWindow` | `ListInWindow` | `TInv /\ TableInv /\ ListInv` |
| `BaOrderProofs!FramesStayInOrder`, `NoFrameTwice`, `AckedFramesSurvive` | `NoReorder`, `NoDuplicate`, `AckedNotLost` | `TInv /\ TableInv /\ ListInv /\ OrderInv` |

Every inductive invariant was first checked by TLC on the instance of the run
that checks its property.

### EapolSm

    IInv == TypeOK /\ Coupled /\ Signalled /\ Started /\ Unfinished /\ Evidence

`Lockstep` speaks of the times between handlers only and says nothing of the
passes in between. `Coupled` says, for the place in the loop, which pairs of PAE
and Backend states can occur together with `authStart` and `authAbort`: the PAE
runs first, so at BE_AUTH the Backend may lag one transition behind.
`Signalled` says that while the PAE is AUTHENTICATING it sees `authSuccess`,
`authFail` or `authTimeout` exactly when the Backend has just reached that end,
so no signal of an earlier authentication is taken for it. `Started` ties the
machines' first states to `initialize` and `portEnabled`. `Unfinished` says
that a transient state makes the loop run again, so it is never seen between
handlers. `Evidence` carries the accept: in RESPONSE, `aSuccess` is set only by
a verdict of accept, and so are SUCCESS and AUTHENTICATED reached after it.

    Kept == Ticking /\ Counted /\ Served /\ Timed /\ Answered /\ Rejected

The other properties also speak of the times between handlers. Each conjunct of
`Kept` says its property of every point of the loop: what the property forbids
may hold only where the loop has still to run the machine that ends it. So a
start may be pending while another pass is due (`Served`), a timer may be zero
while the machine that restarts it comes later in the pass (`Timed`), the tick
may be unregistered exactly while `eapol_sm_initialize` has not ended or the tick
handler itself runs (`Ticking`), and after a reject the port may be open until
the PAE has seen `authFail` (`Rejected`). `Counted` finds the counters below
their limits wherever they are incremented, `Answered` keeps the reply of the
server that a request under way will be answered with.

`PortAccessImplemented`: an initial state maps to an initial state; a new
authentication and a new request are `Ask`, a reply while the Backend waits for
it is `Answer`, the entry actions that set the port are `Grant` and `Revoke`, the
end of a station is `Leave`; everything else stutters. `Grant` needs `Evidence`,
`Ask` needs `Rejected`.

### RadiusClient

    Inv == TypeOK /\ UniqueIds /\ TimerArmed /\ NumMsgsCovers /\ SecretCurrent

is inductive as it stands. The lemmas before it say what removal, prepending,
`Front` and the per-entry updates do to a list whose identifiers are distinct
and whose secrets are current. The conjuncts depend on each other:
`num_msgs - 1` stays natural only because `num_msgs` covers the length.

### Nvram

    KInv == TypeOK /\ BufferFixed /\ SectorWritten /\ FlashClean /\ CleanSaved

`CleanMeansSaved` says nothing of a write under way. `BufferFixed`: while the
semaphore is taken the buffer is the cache of its block, as nobody else changes
either. `SectorWritten`: what each block of the sector holds before the erase,
between erase and program, and after it, for both writes (CRC, then data). Other
blocks are as before or, once one of the calls has failed, erased (`Kept`); the
block itself has its new CRC after the first call, or, if that failed, is as
before or erased (`CrcDone`). That a half-written block does not read as anything
but empty is the CRC's doing and is said here. `FlashClean`: the flash never
holds junk, since a commit of it is refused or never returns. `StoreImplemented`
follows: a set is `Set`, the start and end of a commit or clear are `BeginSave` and
`EndSave`, a power cut or reboot is `Restart`, and the erase and program steps in
between stutter, since while a save is under way `saved` is what the sector held
before it (`write.before`). What is left to show is that a power cut in the middle,
or a failed call, finds one of the outcomes of `Restart` or `EndSave`, which is where
`SectorWritten` is used.

    DInv == KInv /\ Places /\ (ghost.spoilt \/ Loaded)

`Places` says in which calls a process can be, by what it loads (`InPlace`) and, for
the daemon, by the place in `main` (`DaemonInPlace`), and that whoever holds the
semaphore waits for the flash. `Loaded` says what `WebInit` stands for. In the flash
and on its way there it comes with all defaults (`SavedComplete`), and so it does in
the cache while nobody renews (`CacheComplete`): `Renewing(p)` is from the end of a
`clear` to the commit, and only a cache that is being renewed may have `WebInit` and
lack others. It then has the names of the file that were set so far (`Loads`), and
is committed after the last one. A power cut in between finds a flash without
`WebInit`, hence the daemon renews again. `WebInitSet`: from where the daemon has
found `WebInit` or loaded it (`Trusted`), it is in the cache whenever nobody renews.
A commit or clear by a process while another one renews would break the argument;
it sets `ghost.spoilt`.

### BaReorder

    TInv == TypesNoPool /\ BlocksAccounted /\ OrigOK

That the pool does not exceed its size is no type fact: it follows from the
accounting of blocks, so the two are proved together. `OrigOK` bounds the
numbers of the originator by the frames sent so far. `InUse` is the set of
places in lists, and a handler is shown to add or remove exactly as many as it
takes from or returns to the pool.

    TableInv == ~ghost.raced => Table
    Table == Counted /\ Named /\ Owned /\ Command

`Command` is what `iwpriv BARecTearDown` may rely on at each of its steps: the
entry that it works on stays its flow's, the index names it or nothing, and once
the command is past its critical section the index names nothing and the entry
is freed only by the command. A softirq may tear the session down before that; an
ADDBA that takes the entry or the index again is what `ghost.raced` records.

    ListInv == ~ghost.raced => Lists
    Lists == Filed /\ Flushed /\ Windowed

Sequence numbers are compared modulo 4096 (`SEQ_SMALLER`, `SEQ_STEPONE`). The
proof measures a frame by its distance from the position of the session: inside
half of the space, which the assumption on windows guarantees, the code's
comparisons are those of the distances. For each
helper that passes frames up, files one or flushes a list, a lemma says that a list that is ordered in its
window becomes one that is ordered in the window of the new position and no
longer starts with the next frame. `Filed` is that for all sessions; `Flushed`
keeps the list of a session being torn down empty between the steps of the
command; `Windowed` is that no session has a window of zero, for which the next
frame itself would lie outside the window.

    OrderInv == ~ghost.raced => Order
    Order == (\A f \in Flows : FlowOK(f)) /\ (\A e \in Entries : Clean(rec[e]))

What a session promises is about frames, and the code sees only their numbers
modulo 4096. `Placed` gives the position of a session the frame `T` that it stands
for: `LastIndSeq = T % M`; the list holds frames of the flow from `T + 2` to the
end of the window in increasing order; the originator is past `T` by at most half
of the space; whatever was passed up is not after `T` and before every frame of
the list; and, unless a frame was skipped, every frame from the start of the
originator's window to `T` was passed up. With that, the code's comparisons are
those of the frames (`SmallerNumber`, `SameNumber`, `StepNumber`), and each of the
cases of `Indicate_AMPDU_Packet`, the flush after 100 ms and a BlockAckReq is shown
to lead from one such `T` to the next (`AmpduGood`, `BarGood`):

* A new frame is less than half of the space after `T`, or the cause `behind` is
  recorded; a repeated one is not older than the originator's window. So what
  cases II and III drop was passed up before, or is recorded as skipped.
* Case V moves the window to end with the new frame `n`: the frames up to
  `n - BAWinSize` that it gives up are before the originator's window, since the
  originator keeps to the window that it was granted (`Agreed`).
* A BlockAckReq starts at the originator's window, before which nothing will be
  repeated.
* `again` leaves a slack of one: the frame that is expected next may have been
  passed up already, which is a repetition but no reordering (`Slack`).

`Clean` keeps the frames of one flow in the list of one entry, so what a handler
passes up is the history of its own flow only (`OneFlow`, `OthersHistory`). A
stuck copy is always a consequence of a frame passed up directly or of an
originator that is half of the space ahead (`AmpduStuck`), which is why
`AckedNotLost` need not name it.

That the originator may be half of the space ahead was found in this proof:
without `behind`, `Placed` is not inductive, and an instance with a smaller
sequence space shows the counterexample.

Maxima and minima of bounded sets are found as minimal elements of a well-founded
ordering of finite subsets (`MaxIn`, `MinIn`), since the library's induction
theorems cannot be instantiated.

### Only model-checked

* The liveness properties `StepTerminates`, `ReauthConcludes`, `Drains` and
  `DaemonFinishes`: the prover has no rules for fairness.

Every safety property that a passing run checks, and both refinements, are proved.

## Findings

1. `ieee802_1x.c:436` copies State whenever the last reply was a challenge; the
   comment above it says "if and only if this packet is Access-Request reply to
   the previous Access-Challenge". A response repeated while the Backend waits
   for the server is sent again under the new challenge's State.
2. `eapol_sm.c:558` does not disable reauthentication when no session timeout
   is set; `README:108` and `:113` say it does. A station whose Access-Accept
   carries no Session-Timeout is freed at once and is not concerned; one with a
   Session-Timeout above the default period of 3600 s is reauthenticated.
3. `radius_client.c:448` sets `attempts` to 0 on failover; with servers of the
   same secret a request is never given up, against the comment on
   `RADIUS_CLIENT_MAX_RETRIES`.
4. `sta_info.c:79` finds a station by an identifier that may be a leftover of an
   unanswered request; the reply to another station's request is taken by it.
5. `radius_client.c:223` registers a timeout only for the first request of the
   list; one added behind a request with a long backoff waits for that.
6. `nvram_env.c:276` returns the kernel's value only for names in the process's
   own cache; the comment in `nvram_get` says that the value is fresh without a
   new `nvram_init`.
7. `ba_action.c:1074` holds no lock from the flush of a list to the removal of its
   session. A frame that is filed in between is still in the list when the next
   ADDBA takes the entry, against the ASSERT at `722` (and, if a frame follows soon,
   the one at `1999`).

The other exceptions in the properties of the passing runs are behaviours of the
code too, for which no doc or comment was found that says otherwise: a failed flash
write is taken for a success, and may have emptied other blocks (`nvram.c:533`); a
commit or clear of another process during a renew can leave part of the defaults for
good, and so can an uploaded file (`upload_settings.cgi.c:141`); the junk of a
cleared block overruns `env.data` (`nvram.c:516`, `649`); an EAPOL frame inside a session leaks a block (`ba_action.c:1860`); a
BlockAckReq that starts at a frame of the list makes its repetition a duplicate
(`1525`); a frame that bypasses the list leaves its successor there (`1905`); the
frames of an originator that is half of the sequence numbers ahead are dropped as
old although the hardware acknowledges them (`2037`);
`BATableAllocRecEntry` returns the last entry if its loop finds none free, which
the counter prevents as long as it is right (`785`).

## Not modelled

The repository has some nine million lines, nearly all of them Linux 2.6.21, its
drivers and third-party programs. The modules here cover a small part of them by
design: the three subsystems in which the SDK's own code has concurrency, failure
and protocol state that can be modelled from the source. Left out:

* rtdot1xd: the hash and AID tables, session timers, eloop's ordered queue,
  signals that interrupt a handler, sockets; RADIUS coding and MD5 (pure byte
  work); several stations' machines over one client in one model.
* NVRAM: the byte layout of a block and its size check (`nvram.c:511`) for settings
  other than junk, what an overrun of `env.data` does to the rest of the kernel, the
  user-space flash build of libnvram, the generation of configuration files.
* Wireless driver: everything but the Block Ack recipient. The originator side
  has the same table discipline; the MLME state machines, WPS and WPA handshakes
  are the next candidates.
* LLTD responder: sessions and enumeration; a candidate.
* 3G dialling, web interface, start-up configuration, image builder: sequences of
  commands and string translation without state that a property could relate.
* Kernel, C library, third-party programs: not the SDK's own logic.

## Plan

1. *Done:* `EapolSm`, `RadiusClient`, their runs and first theorems.
2. *Done:* `PortAccess` and `SettingsStore` with their refinements; `Nvram`;
   `BaReorder`.
3. *Done:* proofs of the remaining invariants of `EapolSm` and of the simulation
   of `PortAccess`; types, `CleanMeansSaved`, `PidMeansDefaults` of `Nvram` and the
   simulation of `SettingsStore`; all invariants of `BaReorder`.
4. Later: `StaTable` (session timers with their contexts, 32-bit
   Session-Timeout), `Eloop` (ordered queue, signals), `Dot1xd` (several stations
   over one client and a lossy network), `Lltd`.
