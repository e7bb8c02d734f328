# A verification project for AioVPN

AioVPN is an Android VPN client: a Kotlin application (`app/`) on top of the
WireGuard tunnel library (`tunnel/`), which is Java over a Go device
(`libwg-go`) and comes with the vendored `wireguard-tools` in C: `wg`, `wg-quick`
and an embeddable library.  This directory holds TLA+ models of the parts whose
correctness depends on order, concurrency, failure or the width of a number, the
TLC configurations that check them on small instances, and TLAPS proofs of the
central facts for every instance.

The models are translated from the code.  What the code promises is taken from
its comments, messages and assertions and, for the tools, from the manual pages
`wg.8` and `wg-quick.8`.

## The system and its parts

| Part | State | Operations | Uses |
|---|---|---|---|
| `GoBackend` with its `VpnService` | current tunnel, configuration and handle; the static future of the service | `setState`, `onCreate`, `onDestroy`, `onStartCommand` | libwg-go, the platform |
| libwg-go | table of handles | `wgTurnOn`, `wgTurnOff` | the Go device |
| `WireGuardBackend` | tunnel, pending configuration, flag, permission callback | `connect`, `retryConnectionAfterPermission`, `disconnect` | `GoBackend`, parser |
| `Updater` | update state, `isUpdating`, package file, consent | `checkNow`, `startUpdate` | the server, the installer |
| `SettingsActivity` (update row) | enabledness, what its collector saw | click, `onResume`, collector | `Updater` |
| Account session | token, ranking cache, last good server | login, refresh, logout, ranking | the server |
| `wg` | none that outlives a command | `show`, `showconf`, `set`, `setconf`, `addconf`, `syncconf`, `genkey`, `genpsk`, `pubkey` | one of five transports |
| transports of `wg` | sockets, buffers, cached adapters | get, set and list devices | netlink, a daemon's socket, ioctls, DeviceIoControl |
| embeddable library | none | add, delete, list, get, set; keys | netlink |
| key code | none | base64, hexadecimal, Curve25519 twice and once more in the library | - |
| `wg-quick` for Android | link, rules, filter, networks: all outside the process | `up`, `down` | ip, iptables, ndc, wg, binder |

What makes it hard.  In the application nothing in `GoBackend` or
`WireGuardBackend` is synchronized, although they are called from the threads of
`Dispatchers.IO` and from the main thread; the platform creates and destroys the
service whenever it likes; coroutines are cancelled when their activity goes, but
only where they suspend; state flows are conflated; the process may die.  In the
tools a device is read and written in several messages while other processes
write it too, any call or allocation may fail, every failure has its own way
out, and `wg-quick` may be killed between any two commands.  `PROJECT.json` lists
the hazards at the lines where they bite.

## The modules

Application:

| Module | Models |
|---|---|
| `Backend` | what `Backend.setState` promises, without threads, services or devices |
| `GoBackend` | `GoBackend.java` and the handle table of `api-android.go` |
| `WireGuardBackend` | `WireGuardBackend.kt` on top of `GoBackend` (extends it) |
| `Updater` | `Updater.kt`, its preferences and its file |
| `UpdateScreen` | `App.onCreate` and the update row of `SettingsActivity`, on top of `Updater` |
| `Session` | `TokenStore`, `ServerRankingCache`, `LastGoodServerStore` and their users |

Tools:

| Module | Models |
|---|---|
| `KeyEncoding` | `encoding.c`, `ctype.h` and their copies in the library |
| `Montgomery` | reference: the curve's points with the affine group law, over a small prime |
| `FieldHacl64`, `FieldFiat32` | the limb arithmetic of `curve25519-hacl64.h`, `curve25519-fiat32.h` |
| `Curve25519` | both ladders and both inversion chains |
| `CurveWg` | limbs, ladder and packing of the library's `wg_generate_public_key` |
| `WgConfig` | `config.c`: files and the arguments of `wg set` |
| `EndpointResolution` | `parse_endpoint` with its retries |
| `Show`, `ShowConf`, `SetConf`, `KeyCommands` | `show.c`, `showconf.c`, `setconf.c` and `set.c`, `genkey.c` and `pubkey.c` |
| `DeviceList` | the growing list of `ipc.c`; the listing of kernel and userspace interfaces and `show all` |
| `KernelDevice` | external: what the kernel makes of a device it is sent, whole or in several messages |
| `MnlAttr` | attributes and nests of `netlink.h` in a buffer |
| `NetlinkSet`, `NetlinkDump` | `kernel_set_device` and `kernel_get_device` of `ipc-linux.h` |
| `EmbeddableWg` | the calls of `wireguard.c` |
| `Uapi` | `ipc-uapi.h` and the socket of `ipc-uapi-unix.h` |
| `DeviceIo` | what `kernel_get_device` and `kernel_set_device` promise on any system |
| `PackedDevice` | the packed structures of OpenBSD and Windows |
| `OpenBsdIpc`, `FreeBsdIpc`, `WindowsIpc` | the control calls of the three systems, each an implementation of `DeviceIo` |
| `WindowsInterfaces` | the cached adapters of `ipc-windows.h` |
| `WgQuick`, `WgQuickConfig` | `wg-quick/android.c`: the commands of `up` and `down`; what is made of the file, and the binder calls |

Proofs are in `BackendProofs` (`GoBackend`, its refinement of `Backend`, and
`WireGuardBackend`), `AppProofs` (`Updater`, `UpdateScreen` and `Session`), `WgProofs`
(`EndpointResolution`, `KeyCommands`, `DeviceList`, and `FreeBsdIpc` with `DeviceIo`),
`KernelDeviceProofs` (lemmas about `KernelDevice` only), `IpcProofs` (`NetlinkSet` and
`WindowsInterfaces`), `SetConfProofs`, `WgQuickProofs` and `WgQuickConfigProofs`.
`MCWireGuardBackend` gives finite constants.  `MCKeys`, `MCWg`, `MCIpc` and `MCWgQuick`
put components side by side that answer one question: a variable `part` says which of
them runs, and the variables of the others are `NULL` or stay as they are at the
start.  A property `part = "x" => X!P` is P of the instance X; the components that are
extended and not instances (`EndpointResolution`, `KeyCommands`, `DeviceList`,
`SetConf`, `NetlinkSet`, `WindowsInterfaces`, `WgQuick`, `WgQuickConfig`) have their own properties
checked, which say nothing of a component that does not run.  Nothing is shared
between parts, so that the run is the union of what the components' own runs would
be.

### How state and actions correspond to the code

**GoBackend.**  Each caller has a program counter and a frame with the locals of
`setState`; `setStateInternal` is the same code at four stages: taking the old
tunnel down for a switch, bringing the new one up, restoring the old one after a
failure, and taking a tunnel down on request.  A step groups adjacent
statements, so that every interleaving of the model is one of the code.
`onDestroy` is four steps of the main thread.  A configuration stands for all
its content; everything that may throw between the attachment to the service and
`establish` (resolution, builder calls, a null descriptor) is one choice.

**WireGuardBackend.**  Adds the singleton's fields and the locals of `connect`
and `disconnect`, and runs `GoBackend`'s steps inside them.  A text is a model
value, and parsing it makes one of the `Config` objects not in use.

**Updater.**  A job is a coroutine.  The package file is a sequence of chunks,
each what the server sent, something else, or a hole, so that cut, damaged,
too long and doubly written downloads can be told apart.  The server's answer
is any version.

**UpdateScreen.**  The collector sees the present state when it runs and is not
called when it equals the one seen last, as a `StateFlow` does.

**Session.**  A session is the number of the login that began it and stands for
its token, its servers and what is derived from them.  Each access of a store is
a step.  When an activity is destroyed, its coroutines stop where they suspend.

**Keys.**  Words keep their width and sign; keys are a few bytes long, with the
same remainder modulo three as 32.  Field operations are the code's, limb by
limb, over fewer and shorter limbs and a prime of the same form; the conversions
between limbs and bytes are run on named bits with the code's own widths.  The
inversion chains make sense only for 2^255 - 19 and are run on the binary digits
of the exponent.

**Commands of wg.**  A line of a file, or one keyword with its value, is one step
of the parser; text is tokens, one for each case the parsers tell apart.
`blocks` counts allocations, and every allocation may fail.  `SetConf` sends what
the parser made to `KernelDevice`; between the read and the write of `syncconf`
another process may write.  The interface's peers are read in any order, and `qsort`
gives the one sorted rearrangement there is, equal entries being alike.  `ShowConf` prints a device and has `WgConfig` read
the lines.  `DeviceList` lists links and sockets while they come and go; probing a
daemon may fail in `stat`, in `socket` and in `connect`, refused or otherwise.

**Transports.**  `NetlinkSet` has the code's sizes and its three nested loops with
their labels; only the buffer is smaller.  `NetlinkDump` has fragments, the
interrupted flag and the joining of peers; `EmbeddableWg` the library's variant.
`Uapi` writes and reads line by line, against a daemon that applies each line and
may stop anywhere.  The three control calls go structure by structure (or nvlist
by nvlist), with the device growing between the call that asks for its size and
the one that fetches it; handles, buffers and the half-built device are tracked, so
that what an error path loses is seen.  In `MnlAttr` an attribute of type string may or
may not end with a zero byte, and reading it goes on to the next one.  The kernel's and
the daemon's side are marked external.

**wg-quick.**  One action for each command (or loop of commands whose effects go
away together); the link, the filter rules, the ip rules and the networks outlive
the process.  Filter rules are counted by kind, since `iptables -I` adds one whether
or not there is one already; an ip rule is a network with a name, and a name may
have several after a deletion that was cut short, of which `del_if` takes the one
listed first.  Which rules an expression made of a name matches is a constant:
`Matched` for the ip rules, `Commented` for the filter rules.  A listing that fails
(`ReadsNothing`) is an empty one to the code, `wg show allowed-ips` included.  `exit` runs the handler of `up` if it has been armed; a kill does
not.  In `WgQuickConfig` a line of the file is a step, and so is an application's uid
in `set_users`; the binder calls have the objects each of them hands out, and the
words of the parcel.

## Assumptions stated in the models

None of these is enforced by the code; each is a named formula or constant, so
that what depends on it is visible.

* `Exclusive` in `SerialSpec` and `WExclusive` in `WSerialSpec`: calls do not
  overlap, and `onDestroy` runs between calls.  Without it
  `RunningTunnelsListed` fails.
* `PromptDispatch` (`Updater`): `startUpdate` is not called in the short windows
  between its own test of `isUpdating` and the coroutine's first statement, or
  between a coroutine's last state and its `finally` block.  The code does not enforce
  it (`Updater.kt:97`, `115`).  `OneUpdater`, `OfferVerified` and `RowNotStranded` depend
  on it; `BusyHasJob` and `UpdatesEnd` do not.
* `PromptDestroy` (`Session`): the activities of the session before are
  destroyed when a new login is stored, that is, before somebody has typed a
  password on the login screen.
* `OnePerName` (`WgQuick`): two invocations that run at once name different
  interfaces.
* `PiecesFit` (`NetlinkSet`): the device's own attributes, with one peer after them,
  and one continued peer with one allowed IP fit into an empty message, as they do
  in the real buffer of a page or more.
* In the list of names (`DeviceList`) a process has less memory than `size_t` has values, so that sums
  of lengths do not wrap; the doubled capacity may.
* A string the kernel sends ends with a zero byte inside its attribute.  `BuffersHold`
  says nothing of reading one that does not.

What the theorems assume of the constants is named too.  `Apart` (`WgQuick`) is
`OnePerName`, that no interface's name is the start of another's, and that none has a
character (`.`, `+`) that is an operator in the regular expressions it is put into.  The others
say what the constants stand for: `SettingsCounted` (`EndpointResolution`) that the
cap on counted attempts is above every finite setting, `InputsRead` (`KeyCommands`)
that input is a sequence, `NamesApart` (`DeviceList`) that no name is both a kernel
link and a daemon's, `InstancesApart` (`WindowsInterfaces`) that a null id is no
adapter, `DevicesListed` (`NetlinkSet`) and `Described` (`DeviceIo`) that devices have
lists of peers and peers lists of allowed IPs, `TextsParsed` (`SetConf`) what flags the
parser gives to files and to the arguments of `addconf` and `set`, and that what
another process sends meanwhile only adds, `KernelsFormed` (`SetConf`) that an allowed
IP belongs to a peer of the interface or to nobody, `FilesFormed` (`WgQuickConfig`) that
lines have lists of tokens, a package is listed once and has a uid up to the last,
and the MTU of the default route is a number,
`RequestsListed` (`WgQuickConfig`) that servers and domains are lists.  `MCWg`, `MCIpc` and
`MCWgQuick` assume these of the constants that TLC runs with, so that TLC evaluates
them; `Apart` is a conjunct of `QuickInit`.

Fairness is weak fairness of steps that need nobody's cooperation.  In
`GoBackend` every thread inside `setState` and the main thread; in `Updater` every
job, whose requests have timeouts of 15 and 20 seconds.  In `MCWg` and `MCIpc` the
one process that runs goes on as long as it can, the kernel answers what it was
sent, and a daemon answers or closes.  What other processes do to a device, links
and daemons is not fair and is bounded: a writer that never stops can keep
`kernel_get_device` from returning, by design of the retry.

## The runs

| Run | Question | Distinct states | Result |
|---|---|---|---|
| `backend_serial` | with calls one after another, through switches, restores, revocation and the service's death: is every device listed, can what is up be taken down, is `isConnected` never stale, do calls do as asked, and is `GoBackend` a `Backend`? | 271,000 | holds |
| `gobackend_overlap_live` | does every `setState` return, however two callers and the service interleave? | 171,000 | holds |
| `gobackend_destroy` | is every running device listed when a call may overlap `onDestroy`? | - | violated |
| `update_screen` | one download at a time, only complete, verified, consented packages offered, and the update row never left disabled for good? | 1,150,000 | holds, with two named exceptions for the row |
| `updater_live` | without `PromptDispatch`: does every update end, and is neither a waiting state nor `isUpdating` abandoned? | 82,000 | holds |
| `session_tokens` | is the token of an earlier session never stored over a later one? | 115,000 | holds |
| `session_ranking` | is a ranking that was found still there when it is used? | - | violated |
| `keys` | are exactly the texts of keys accepted, does the limb arithmetic compute modulo the prime, is the public key the right multiple of the base point? | 219,000 | holds |
| `wg` | does each command print, parse and leave in the kernel what it should while others write; are the right peers kept; is everything freed; does it end? | 479,000 | holds |
| `ipc` | does reading give one moment and setting the whole or a part of it from the start, through each transport; are buffers respected, everything closed and freed; do calls return? | 465,000 | holds |
| `wg_quick` | is an `up` whole or undone, does a `down` clear what any history left, is no other interface touched, are users, MTU and name servers as the file says? | 1,074,000 | holds |
| `wg_quick_prefix` | the same isolation, for interfaces `wg1` and `wg10` | - | violated |

Some properties name exceptions, each of them something the code does; the reasons
are under "Disagreements" below.

* `RowNotStranded`: the installer was opened from the row; a state was written and
  replaced before the collector ran.
* `BuildsWhatTheTextMeans`: of a peer with several allowed-ips values, some with a
  prefix and a later one without, it leaves open whether the allowed IPs are replaced
  (`SaysBoth`).
* `ListIsHonest`: daemons whose probe failed for a reason of its own (`unsure`).
* `RoundTrip`: endpoints that could not be named.
* `ReadsTheTruth`: memory is short.  `KeepsPromise`: IPv6 endpoints on OpenBSD and, on
  Windows, requests with a mark.  `BuffersHold`: strings without a terminator.
* `NothingLeaks` of `ipc`: an error in the middle of a device that is being built, on
  OpenBSD, FreeBSD and Windows; a failed `realloc` on OpenBSD; an error of the first
  call on Windows; the packed request of a set on FreeBSD.
* `FindsTheAdapter`: an instance id could not be read.  That an adapter that stays is
  found is said of commands that did not list the adapters first.
* `CallsReturn` of `ipc`: the library's `wg_get_device`.
* `UpIsWholeOrUndone`: the routes, if `wg show allowed-ips` failed; a network the
  interface could not be added to.  `DownClears`: the same network.
* `DoesWhatTheFileSays`: the highest uid behind an excluded one (`LeftOut`); the MTU,
  where an endpoint's route has a lower one (`EndpointLower`).

### Bounds

* `backend_serial`: two callers and tunnels and two handles, enough for a switch
  that fails and is restored by either caller, and two `Config` objects for each
  of two texts, so that the same text can be parsed again while it runs.
  `gobackend_overlap_live`: one tunnel and configuration, and one handle, so that
  the table fills up.
* `updater_live`: two jobs, the least that can disturb each other, and packages of
  two chunks, so that a download is interrupted in its middle.  `update_screen`:
  one version, one chunk and two clicks in flight.  `session_*`: an earlier and a
  later login, two rankings.
* `keys`: keys of 5 bytes, every character code from -128 to 255 at every position;
  the library's curve modulo 16381 (3 limbs of 5 bits) and 32749 (2 limbs of 8
  bits, with the factor 19), about 90 private keys including those that clamping
  changes most; field elements with limbs at and around their limits, modulo 4093
  (hacl64) and 1021 (fiat32).
* `wg`: up to three peers with seven handshake times, among them none, equal
  seconds, one in the future and one of more than a year ago; files
  and command lines of a few entries over all kinds of entries, good and bad;
  every address and mask of a scaled size; `setconf` files of up to three peers
  with three keys, the same one twice included, against seven interfaces and one
  foreign write; two links and a daemon with four arrivals and departures; retry settings of
  0 to 4, 15 (the default), 128 and infinity; names of 0 to 4 characters in a
  `size_t` of 24 values, so that the doubling wraps.
* `ipc`: up to three peers in a buffer that takes a few attributes, so that every
  label of `kernel_set_device` is reached; dumps of up to three messages, of one peer in
  three parts where memory may be short; nests two deep and received buffers with
  arbitrary lengths, and strings with and without a terminator; two interfaces for the
  library, and requests with its per-peer flags; one or two foreign writes (three changes of adapters); up to two peers and two allowed IPs for the
  control calls.
* `wg_quick`: three invocations, the least for a down after a down after a failed
  up, for two interfaces and two network ids (both pairs symmetric): up to two of
  them at once with one failing command (which includes all three in turn), or in
  turn with one kill; and two in turn with both a failing command and a kill.  The
  invariants about invocations are proved for any number of them, failures and kills.
  Files of up to three lines after `[Interface]`, and uids of 0 to 9, of which 9 is
  the highest, with 8 excluded or not.

Symmetry is used only in runs without liveness.  Deadlock is checked in the runs
of the application; in `keys`, `wg`, `ipc` and `wg_quick` commands end.

### What the violated runs show

* `gobackend_destroy`: after a revocation `onDestroy` has read the tunnel it is to turn
  off.  Before it clears the fields, `setState` on another thread takes that tunnel down
  and turns the next device on; the fields `onDestroy` then clears are the new tunnel's,
  and a device runs that nothing lists.  An `onDestroy` that begins only after a switch
  has cleared the fields turns off and clears one and the same tunnel.
* `session_ranking`: a logout clears the ranking between the test and the `!!`.
* `wg_quick_prefix`: `del_if` looks for `lookup wg1` without anchoring the end of
  the name, finds the rule of `wg10` and destroys its network.

### Disagreements the models show and no run asks about

The models do what the code does, so these behaviours are in their state graphs, but
for what an assumption excludes; the properties are stated so that they leave them out.

* Two overlapping `UP` calls both see no handle and the second overwrites the
  first's (`GoBackend.java:279`).  An overlapping `disconnect` forgets in its `finally`
  the tunnel a `connect` has just brought up (`WireGuardBackend.kt:124`).
* Two `startUpdate` calls before the first coroutine has set `isUpdating` start two
  downloads into one file (`Updater.kt:97`).
* A profile refresh that was under way at a logout stores its token again
  (`VpnRepository.kt:60`).
* `onResume` calls `startUpdate` once the permission is there, which refuses in
  `InstallPermissionRequired` (`Updater.kt:103`), although the screen said "Allow
  app installs to continue update" (`SettingsActivity.kt:332`).
* Leaving the account screen during the request cancels `tokenStore.clear()`; the
  cancellation is caught and the login screen opens with the token stored
  (`AccountActivity.kt:155`).
* `parse_peers` tests its nested result with `if (!ret)` (`ipc-linux.h:400`), so that
  a failed allocation is not an error and a device comes back without some of its
  allowed IPs.
* `wg_get_device` keeps `-EINTR` in `ret` over its retry (`wireguard.c:1412`): once
  interrupted it throws every further result away.  `ipc-linux.h:491` resets it.
* The library's `coalesce_peers` takes over the `last_allowedip` of the part it joins
  (`wireguard.c:1402`), which is null if that part has none, as when an allocation
  failed; joining a third part writes through it.  `ipc-linux.h` does the same.
* `mnl_attr_get_str` hands out the payload as it is (`netlink.h:300`), and its users
  take a zero byte for granted (`ipc-linux.h:39`, `420`).
* Half-built devices are lost on errors: `ipc-windows.h` and `ipc-openbsd.h` go to `out`
  without freeing `dev`, `ipc-freebsd.h` frees the peer it is at and the device, and not
  the peers and allowed IPs linked to them (`230`, `245`).
* On Windows an error of the first call returns without `CloseHandle`
  (`ipc-windows.h:235-241`).  On OpenBSD the result of `realloc` replaces the only
  pointer to the old buffer (`ipc-openbsd.h:82`).  On FreeBSD the packed request of
  `kernel_set_device` is never freed (`ipc-freebsd.h:347-355`).
* With a 32-bit `unsigned long`, `parse_fwmark` (`config.c:96`) accepts numbers that
  are too large as 0xffffffff.
* A second `allowed-ips` of one peer sets the flag that replaces all, also after an
  incremental one (`config.c:363`; `wg.8:74-78`).
* After `syncconf` a peer that stays keeps a keepalive the file does not mention
  (`setconf.c:53`), where `wg.8:175` says that it is then off.
* `userspace_get_device` returns a positive `ENETUNREACH` and no device
  (`ipc-uapi.h:233`); `show.c:403` tests for negative results.
* `set_mtu`'s expression for endpoints can match no line of `wg show endpoints`
  (`android.c:1004`; `wg-quick.8:86`).
* `set_users` adds the range after the last excluded uid only `if (start < 99999)`
  (`android.c:817`): when uid 99998 is excluded, 99999 is in no range either.
* `set_routes` takes a failed `wg show allowed-ips` for an interface without allowed
  IPs (`android.c:1033`): `up` succeeds and there are no routes.
* A network that was created and that the interface could not be added to, or an `up`
  killed in between, stays: no rule names it, and `del_if` finds networks by their rules
  (`android.c:732-733`).
* `del_if` puts the name of the interface unescaped into its expressions
  (`android.c:646-647`), although names may have `.` and `+` (`android.c:1184`): with `+`
  it misses its own filter rules, with `.` it may delete those of others.
* A refused connection makes `wg` remove a daemon's socket, also one that is bound
  and does not listen yet (`ipc-uapi-unix.h:84`; the comment above says "If the
  process is gone").
* On OpenBSD an IPv6 endpoint is longer than the size it is compared with and is
  not copied (`ipc-openbsd.h:141`).
* On Windows an adapter whose instance id could not be read stays cached with a
  null id, which opens the first interface of the class (`ipc-windows.h:107`), and a
  mark is passed over without an error (`ipc-windows.h:375`; `wg.8:88`).

## What is proved

For every number of callers, tunnels, configurations, handles, jobs, clicks,
versions, chunks, logins and rankings, every width of `size_t`, every list of peers
and allowed IPs, every size of buffer, every number of links, daemons, adapters and
invocations, every file of `wg-quick` and every list of packages, and without the bounds on failures, kills and foreign writes that the
runs need.

* `BackendProofs`, `GoBackend`: types, for calls that overlap as they like; and for
  serial calls no lost device, never two devices, the remembered configuration is
  the running one, the listener was told the truth, and how calls end.  None of
  these is inductive: they speak of the moments between calls.  `SerialInv` says,
  for each place a call can be at, what the fields, the table and the listener are.
  Serial `GoBackend` implements `Backend` (`BackendRefined`), reading the promise off
  the fields and the frame of the call in progress.
* `BackendProofs`, `WireGuardBackend`: `WSerialSpec` uses `GoBackend` serially, so
  that all of the above holds inside it; with `WInv`, which ties the locals of
  `connect` to the frame of the call they made, ownership, the flag and the outcomes
  follow.
* `AppProofs`: types, and, with no assumption on scheduling, that no waiting state is
  abandoned and that whenever `isUpdating` is set some coroutine is still to reset it
  (`NoAbandonedWait`), also when two update at once.  From `PromptDispatch`, which the
  code does not enforce, `UpdaterInv` (what the one
  updating coroutine has established at each point), and from it that updates
  exclude each other and that only verified packages are offered.  `UpdateScreen`
  only drives the updater (`ScreenUsesUpdater`), so these hold under the screen too;
  with `RowInv`, which says what a disabled row is waiting for (a state that goes on by
  itself, or what a click set off and has not begun), the row is never stranded.
* `AppProofs`, `Session`: from `PromptDestroy`, `RefreshInv`: a refresh in flight belongs to the
  newest session, and while it is in flight the main screens are in front or not yet
  destroyed; so it never stores an older token over a newer one.
* `WgProofs`: `parse_endpoint` retries as often as it is told (`EndpointInv`: the
  retries left and the attempts made add up).  Keys handed out are random in every
  byte and `pubkey` takes exactly one key and blanks (`KeysInv`: how far the buffer
  is filled, and what of the input has been read).  The listing is honest while
  interfaces come and go (`ListInv`: what is listed and what is still to come cover
  everything that stayed, but for daemons probed in vain, and are apart).  `string_list_add` stays in its buffer
  (`Inv` adds to `InBounds` that the capacity is that of the buffer and that there is
  room for the second terminator), and a call of it that fails changes nothing.  The
  control calls of FreeBSD implement `DeviceIo`, and each nvlist is destroyed once
  (`FreeBsdInv`: what has been copied is the beginning of the list that is being read,
  and which nvlists live is a function of the statement).
* `KernelDeviceProofs`: how a device is taken peer by peer.  The recursion of `TakePeers`
  unfolds one peer at a time and looks at nothing but the pieces of the message; a
  peer introduced in one message and continued in the next is as good as one
  introduced with all its allowed IPs; and so two messages, of which the second
  begins where the first stopped, are as good as one.
* `IpcProofs`, `NetlinkSet`: a device cut into messages of any length makes of the
  interface what one message would have made, a call that fails leaves what the first
  so many pieces make of it, every piece is delivered once, and no message outgrows its
  buffer.  `SetInv`: what the message holds and what the kernel has taken are together
  the pieces before the cursor of the two loops, at each label the code jumps to, and
  the message has room for what is put without a check.  `KernelInv`: the kernel's
  device is what the delivered pieces make of the device it was, taken as one message.
  A message with the first piece that is new to the kernel begins where the last one
  stopped, so that a step that delivers it is an instance of "two are as good as one".
* `IpcProofs`, `WindowsInterfaces`: adapters, cached or looked for again, are opened by
  their name, and one that stays is found by a command that did not list first (`AdaptersInv`: what is known of the cache, and which adapters the walk has
  still to meet).
* `SetConfProofs`: for every file, interface and other writer that only adds, `setconf`
  leaves what the file says; `syncconf` leaves the file's peers, no others but those
  added after it had read the interface, and, if nobody else wrote, the allowed IPs
  where `setconf` would have put them; `addconf` and `set` lose no peer they are not told to remove; `syncconf`
  never removes a peer that it read and that is in the file, not even to add it again;
  and everything is freed once.  The invariant (this module's `SetInv`) has three parts.
  `SetShape`: what is allocated at each statement, and that owners are peers.  `SetDev`:
  the removals put before the file's peers are of the strangers among the keys that the
  loop has passed, and all strangers of the sorted array are what was read and is not in
  the file; that the merge finds exactly these rests on equal keys being neighbours with
  the interface's entry first.  `SetBefore`: until the device is sent every peer of the
  interface is one whose session goes on.  The allowed IPs follow by comparing the two
  kernels, `syncconf`'s and the blank one of `setconf`, peer by peer: the owners differ
  only where a peer of the file that is still to come settles them.
* `WgQuickProofs`: an `up` is whole or undone, a `down` clears, both with the exceptions
  listed above, and interfaces are isolated, from `Apart`.  `QuickInv` says what an `up` has set up before each command,
  what `del_if` has taken down so far (the rules left are those it still has
  listed), that a network has one interface and the one that `del_if` found is
  still its own, and that a name whose deletions all ran to their end is in at most
  one network; the promises about the moment when an invocation has ended do not
  survive a step without these.  `Isolation` needs the part about `del_if`: a network
  it destroys is the one the rule named when it looked.
* `WgQuickConfigProofs`, the file: `wg-quick` and `wg` get the lines that are theirs, the
  users are exactly those asked for (but for `LeftOut`), no command is empty or too long,
  the array of uids is not overrun, addresses and name servers are the file's, and the
  MTU is the default route's where no endpoint's is lower (`FileObeyed`).  `FileInv`: after each line an
  option is what the lines read so far have of it, one after the other, and the
  section is that of the last header.  `UsersInv`: the list of uids is sorted, has
  exactly the uids of the selected packages and at most as many entries as the list has
  names (a name matches one package: `Pigeonhole`); the ranges sent and gathered cover what
  lies below the uid that is next, and what is gathered is as many as the number of
  ranges leaves over a batch.
* `WgQuickConfigProofs`, the resolver: what is set is set once, in a whole parcelable,
  and nothing is left behind (`NameServersSetOnce`).  `DnsInv`: which words are in the
  parcel and where its position is before each of the 22 calls of the second
  transaction, which objects are held before each call, and that nothing has been taken
  before the transaction that sets it.

`MessagesFit`, the two theorems about FreeBSD and `CommandsCleanUp` are conjuncts of the
properties `BuffersHold`, `KeepsPromise` and `NothingLeaks` of the runs `ipc` and `wg`, which
ask the same of every transport and command.

Facts about a list of any length are proved without an induction theorem: where one
fails there is a least number for which it fails (`Least`), and the step before it
gives a contradiction.

Only model-checked:

* the liveness properties (`CallsReturn`, `UpdatesEnd`, `CommandsEnd`), which are out of
  the prover's reach;
* keys and field arithmetic, dumps (`NetlinkDump`) and the embeddable library, which
  are written with recursive operators or bitwise ones;
* the packed structures of OpenBSD and Windows, the lines `WgConfig`, `Show`, `ShowConf`
  and `Uapi` make or read.  They are folds over sequences of tokens, whose definitions come with modules
  (`SequencesExt` and what it extends) in whose context the provers are too slow for
  proofs of this size.

Where a module says `USE Zenon` a leaf is tried with Zenon unless it names `SMT`,
which those with arithmetic do.

## What is not modelled

* The connect button of the home screen, Smart Auto and the server list's
  connection: the states of one screen over calls `WireGuardBackend` covers.  The
  overlapping calls they can make are excluded by `WExclusive`.
* Device registration, the other rows of the settings screen and split tunneling:
  read-modify-write of preferences by one user's clicks.
* `WgQuickBackend`, `RootShell`, `ToolsInstaller`: only for rooted devices, and never
  constructed by the application.
* The Java configuration parser (a pure function; the C parser of the same format
  is modelled), keys and statistics in Java, `AioApi`, layout and adapters: their
  results are choices of the modules that use them.
* In the tools: the command table `wg.c`, colours, `wincompat/`, fuzzers, the
  opening of a named pipe in `ipc-uapi-windows.h`, the listing of interface groups
  on the BSDs, the highlighter and the contributed example programs, which are
  not part of the build; the ELF cleaner, which runs once at build time; the JNI
  glue, which forwards calls.
* The Go map's data race: the search for a handle and its insertion are one step.
