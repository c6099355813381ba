# TLA+ models of monkey_rtems

These TLA+ modules model the event, output, header, plugin, date and URL-decoding code of the Monkey HTTP server port to RTEMS (`src/`). TLC checks them.
Each module is translated from the C source it names. `PROJECT.json` lists, for every definition, the lines it models (`map`), every run, the mutants that show each property can fail, the findings and the hazards.

## The system and how its parts interact

The server runs one worker thread per core. Each worker runs an event loop over a readiness backend.

- **EventBackend** (`mk_event_rtems.c`, `mk_event_rtems.h`, `mk_event.h`) is the kqueue backend. For each `struct mk_event` it keeps:
  - an interest mask (READ 1, WRITE 4, SLEEP 8);
  - the kernel filters it registered (EVFILT_READ, EVFILT_WRITE, EVFILT_TIMER).

  `_mk_event_add` turns a mask change into at most two `kevent()` calls. `_mk_event_del` removes the filters. `_mk_event_timeout_create` and `_mk_event_channel_create` make timer and wake-channel events. `_mk_event_wait` reports ready filters, which `mk_event_foreach` iterates. Each worker creates its loop as it starts. `_mk_event_loop_create` opens the kqueue, and `_mk_event_channel_create` builds the wake channel with `socketpair_monkey`. On RTEMS that is a loopback listener, a connect and an accept. Every descriptor comes from the one process-wide table, so workers starting together interleave their opens and closes.
- **Scheduler / EventLoop.** Its source is not under `src/`. Spec 4.2 says a connection switches to WRITE interest once a response is queued, so the response is written at a later event. Other connections of the same worker are served in between.
- **Channel / iov** (`mk_iov.c`) is a vectored output buffer. It holds:
  - an array of `iovec` entries;
  - `total_len`;
  - the list `buf_to_free` of buffers to free once sent.

  `mk_iov_send` (via `rtems_writev` on RTEMS) writes what the socket takes. `mk_iov_consume` advances the entries past it. `mk_iov_free_marked` frees and empties. `mk_iov_realloc` moves the iov to a larger array.
- **Response headers** (`mk_header.c`). `mk_header_prepare` adds a response's header lines to the worker's **thread-local** iov and queues a stream of that iov on the connection's channel. `mk_stream_set` is given size -1, so the stream's byte count (`bytes_total`) is the iov's `total_len` at that moment. Each channel write sends the whole iov and lowers the stream's count by what was written. When the count runs out, `mk_header_cb_finished` frees the iov's marked buffers and empties it. Rows a plugin adds with `mk_plugin_header_add` go to the request's own `_extra_rows` iov instead. The blank line ending the headers goes there too, and a second stream of that iov is queued behind the header stream.
- **Plugin registry and stages** (`mk_plugin.c`). `mk_plugin_load_all`:
  1. loads the compiled-in plugins;
  2. loads the dynamic plugins named by the "Load" entries of the PLUGINS section;
  3. validates each descriptor, links its stage callbacks into the stage 10 to 50 lists, and calls `init_plugin`, unregistering the plugin when init fails;
  4. only after the dynamic loop, calls `mk_plugin_preworker_calls`, which runs `pthread_key_create` for each plugin's `thread_key`.

  `mk_plugin_core_process` and `mk_plugin_core_thread` call each active plugin's `master_init` and `worker_init`. `mk_plugin_exit_all` calls every exit hook and closes the libraries.
- **Utilities** (`mk_utils.c`): `hex2int`, `url_decode`, and the date code. `mk_utils_utime2gmt` formats a time as an RFC 1123 date, through a per-worker least-used cache of `MK_GMT_CACHES` slots. `mk_utils_gmt2utime` parses one back with `strptime` and the RTEMS `timegm`, which sets the process-wide `TZ` to UTC around `mktime` and then restores it.
- **Signals** (`mk_signals.c`) and the **RTEMS network configuration** are process wiring and board setup.

## Modules

| Module | Models | State | Actions |
|---|---|---|---|
| `EventBackend` | `_mk_event_add/del/timeout_create/channel_create/wait` | `mask`, `filters` (the kernel's), `made`, `ready`, `reported`, `last` (the last call's kevent changes and result) | `Add`, `Del`, `TimeoutCreate`, `ChannelCreate`, `SetReady` (the peer), `Wait` |
| `EventFds` | `_mk_event_loop_create/destroy`, `socketpair_monkey`, the descriptor side of `_mk_event_channel_create`, for concurrent workers | `open` (the process's descriptor table), each worker's `pc` (a code label), `kfd`, `listener`, `fd0`, `fd1`, `rfd`, `wfd`, and `own` (the descriptors it opened and has not closed) | `LoopCreate`, `SpListener`, `SpListen`, `SpSocket`, `SpConnect`, `SpAccept`, `SpCloseListener`, `SpFailed`, `ChAdd`, `LoopDestroy` |
| `IovSpec` | what a vectored output buffer promises (spec 4.3): a byte FIFO | `pending`, `wire`, `owned`, `freed` | `Enqueue`, `Write`, `Release` |
| `Iov` | `struct mk_iov` and its functions; refines `IovSpec` | `io` (the live entries), `total_len`, `buf_to_free`, `size`, `wire`, `freed`, `used` | `Add`, `Send` (send + consume), `FreeMarked`, `Realloc` |
| `Header` | `mk_header_prepare` on the thread-local iov, `mk_plugin_header_add` and the `_extra_rows` iov, composed with `Iov` by `INSTANCE` | the thread-local iov, each request's `_extra_rows` iov (`xio`), each connection's channel (a queue of header and extra-rows streams), each socket's bytes, the bytes prepared for each connection | `Prepare` (with the plugin rows added before it), `Flush` (channel write of the first stream, consume, the stream's `bytes_total`, and its finished callback) |
| `Plugin` | `mk_plugin_load_all`, `mk_plugin_load`, `mk_plugin_init`, `mk_plugin_unregister`, `mk_plugin_preworker_calls`, `mk_plugin_core_process/core_thread`, `mk_plugin_exit_all` | `plugins` (`mk_config->plugins`), `stage` (the stage lists), `handles` (open libraries), `keys` (the plugins whose thread key was created), `phase`, `cursor`, `called` (the hook/plugin pairs called so far) | `LoadStatic`, `ReadConf`, `LoadDynamic`, `DynamicDone`, `StageRun`, `CoreProcess`, `CoreThread`, `ExitAll` |
| `GmtDate` | `mk_utils_utime2gmt`, `gmt_cache_get/add`, `mk_utils_gmt2utime`, the RTEMS `timegm` | each worker's cache `gcache`, the environment (`store`: TZ strings by address, `env`: the address `TZ` points to), each worker's `pc`, `date`, `text`, `tm`, saved `tz` pointer and `result` | `Utime2Gmt`, `GetEnv` (strptime, getenv), `SetUTC`, `MkTimeStep`, `Restore` |
| `UrlDecode` | `mk_utils_url_decode`, one loop iteration per step; `mk_utils_hex2int` as a recursive operator | `uri`, `i`, `buf`, `pc` | `Search`, `Step`, `Done` |

Each `MC*.tla` module extends one of these and gives the model values and sequences that its `.cfg` files substitute.

### How the code is abstracted

- **kevent.** A `kevent()` change is a record `[op, f]`. The kernel rejects `EV_DELETE` of a filter that is not registered (ENOENT). `EV_ADD` of a registered filter modifies it. `Issue` applies the changes one call at a time and stops at the first failure, as the C code returns at the first `ret < 0`. Whether a call may fail is the constant `SyscallsMayFail`.
- **Mask tests.** They use the C operators: `^^` and `&` of the community module `Bitwise`. This keeps the XOR tests of `_mk_event_add` as written.
- **Bytes.** A byte is `<<buffer, offset>>`, and an entry is `[buf, base, len]`, so a partial write is a prefix of the flattened entries. In `Header` a buffer is `<<connection, request, field>>`, so the bytes on a socket say which response they came from. Header text is abstracted to its fields: each field is one byte, and the status line is two, so that a write can stop inside an entry.
- **Descriptors.** A descriptor is a number of `Fds`. A new one is any free number, because RTEMS libio hands out the head of a free list that closes reorder. EMFILE happens when none is free. Each call may also fail outright (`SyscallsMayFail`). The RTEMS sockets are blocking, so `connect()` either connects or fails. It never gives EINPROGRESS, so `connect_done` is always 1 and the second `connect` of `socketpair_monkey` is never reached. `setsockopt` and `fcntl` change no descriptor and are left out.
- **Plugins.** What a plugin's library and descriptor turn out to be is chosen in `Init`: the dlopen/dlsym outcome, which mandatory field is NULL, which stages it hooks, what `init_plugin` returns, and whether it has a `thread_key` and whether `pthread_key_create` succeeds.
- **Dates.** A date text is the sequence of its fields as the code writes them: day name, the two digits of the day, month name, four year digits, and the digits of hour, minute and second. `year` is an `unsigned short`, so it is taken `% 65536`. `gmtime_r`, `strptime` and `mktime` are reference definitions (civil-from-days, and days-from-civil minus the zone's offset); they are libc, not mapped. The zones are "unset", "" (both UTC) and "CET" (one hour east).
- **newlib's environment.** `setenv` copies a value no longer than the current one over it in place, and otherwise allocates a new string; `unsetenv` frees nothing. `store` holds the strings by address, so a pointer kept from `getenv` reads what was later written there.
- **Characters.** In `UrlDecode` characters are ASCII codes, so that the offsets `0x57/0x37/0x30` of `hex2int` are the code's.

### Spec-modelled definitions

These definitions model code that is not under `src/`. They are marked `spec_modelled` in the map:
- `mk_iov_add` (`mk_iov.h`): `Iov!Add`, `Header!F/Own`.
- `mk_event_del`'s mask reset (`mk_event.c`).
- The stage-run loop (`mk_plugin_stage_run`, spec 4.4).
- `mk_string_char_search`.
- The value of `MK_CUSTOM_STATUS`.
- The zeroed date cache of `mk_cache_worker_init` (`GmtDate!Init`, `EmptySlot`).
- The channel write's choice of iov (`StreamIov`, `FrontPending`): the first stream of the channel is written from its own iov.
- The channel write's byte counting (spec 3 and 4.3: a stream has a total length).
  - A stream of an iov takes the iov's `total_len` as its `bytes_total` when `mk_stream_set` gets size -1 (`Header!Streams`).
  - Each write lowers `bytes_total` by what it sent, and the finished callback runs when `bytes_total` is no longer positive (`Header!Flush`).
  - A write that sends nothing changes nothing.

## Runs

| Run | Config | Expect | What it shows |
|---|---|---|---|
| `event_backend` | `MCEventBackend.cfg` | pass | With single-direction masks and reliable `kevent()`, the registered filters always match the mask (`KernelMatchesMask`), and no kevent change is redundant or rejected (`NoRedundantKevent`). `del` of a connection or channel leaves nothing registered (`DelUnregisters`). A direction asked for and ready is eventually reported by `wait` (`NoLostReadiness`). |
| `event_timer_del` | `MCEventBackendTimerDel.cfg` | violation | `del` of a timer sends EV_DELETE on EVFILT_READ, which is rejected, and the timer stays armed. |
| `event_fds` | `MCEventFds.cfg` | pass | Two workers create their kqueue and wake channel at once, with every call allowed to fail and descriptors reused in any order. Every error path closes what it opened, and a running loop owns exactly its kqueue and channel ends (`NoLeak`). A worker never closes a descriptor it does not hold, such as one the other worker was just given (`OwnedOpen`). |
| `event_lost_readiness` | `MCEventBackendLostReadiness.cfg` | violation | With the READ\|WRITE mask in reach and `kevent()` allowed to fail, a direction asked for and ready is never reported (`NoLostReadiness`). Two findings have this outcome: the XOR tests delete READ's filter while the mask keeps READ, and a failed second `kevent()` leaves a stale mask. |
| `iov_refines` | `MCIov.cfg` | pass | `Iov` implements `IovSpec` (`IovRefinesSpec`): bytes reach the socket in order, exactly once, under every partial-write pattern, and each marked buffer is freed once. |
| `plugin_registry` | `MCPlugin.cfg` | pass | After loading, the active list is exactly the plugins that loaded and initialised, in registration order (`ActivePluginsValid`, spec 8). Each stage list is in registration order (`StageOrder`). |
| `plugin_hooks_on_invalid` | `MCPluginHooks.cfg` | violation | The server calls hooks of plugins that are not set up (`HooksCalledOnValid`). TLC's shortest trace: with no load file, `mk_plugin_load_all` returns before `mk_plugin_preworker_calls`, and a compiled-in plugin's `master_init` runs although its thread key was never created. Also, a plugin unregistered after a failed `init_plugin` is still called by the stage runs. A compiled-in plugin that fails validation stays on the active list, so `core_process`, `core_thread` and `exit_all` call its hooks, including a NULL `exit_plugin`. |
| `header_single_connection` | `MCHeader.cfg` | pass | One connection answers two pipelined requests. Under every partial-write pattern, the socket receives a prefix of the prepared headers, in order (`HeadersIntact`). |
| `header_shared_iov` | `MCHeaderSharedIov.cfg` | violation | `HeadersConserved` fails. It says every prepared header byte is either on its connection's socket or still queued for it, in order. The worker's header iov is shared, and this goes wrong three ways. (1) The shortest trace: on one connection, the first stream's write also sends part of the pipelined second header. That completes the first stream, whose `mk_header_cb_finished` frees the second's Location buffer and empties the iov. The rest of the second header is lost, and its stream never completes. (2) Two connections: the first socket receives the second connection's header. (3) Plugin rows: the second response's headers go out before the first response's `_extra_rows`. TLC also reaches (2) with one request per connection, and (3) with a single connection. |
| `url_decode` | `MCUrlDecode.cfg` | pass | For every URI of up to five characters, the decoder returns the percent-decoding, or NULL on an invalid escape or when there is no '%' (`DecodeMatchesReference`). |
| `gmt_round_trip` | `MCGmtDate.cfg` | pass | Two workers format dates through their caches (hits, misses, evictions, and `date = 0` with `time()` failing) and parse them back, interleaved on the shared `TZ`. Each gets back the time it formatted (`ParsesBack`). |
| `gmt_tz_restore` | `MCGmtDateTZ.cfg` | violation | Started with `TZ=CET`, one `mk_utils_gmt2utime` call leaves `TZ` empty (`TZRestored`). `timegm` restores `TZ` through the `getenv` pointer, and `setenv("TZ", "", 1)` overwrote that string in place. |

Each pass run also checks its module's `TypeOK`. Each property of a pass run has a mutant in `PROJECT.json`: a plausible bug in a mapped definition that TLC shows breaks it. Examples:
- the XOR test without its mask operand;
- the kqueue not closed when the events array cannot be allocated;
- the failing channel add also closing the listener that was already closed;
- `mk_iov_consume` not advancing `iov_base`;
- `buf_idx` not reset by `mk_iov_free_marked`;
- `mk_plugin_unregister` without `mk_list_del`;
- stage callbacks linked at the head;
- the thread-local iov emptied before a prepare adds to it;
- the escape bound `i + 1 < len`;
- the year digits without `% 10`;
- a cache hit that does not copy the slot's text.

### Bounds and why they are enough

- **EventBackend.** One connection event, one timer and one wake channel, with every single-direction mask (every mask including READ|WRITE in the bitset run).
  - Every add-to-add transition appears, including the same mask twice, a mask and back, and add after del.
  - `SetReady` lets the peer toggle readiness in either direction at any time.
- **EventFds.** Two workers (symmetric) and seven descriptor numbers. A worker's socketpair holds at most four descriptors at once (kqueue, listener, two ends), so seven lets both run at the same time and still reach EMFILE on some orders. Every call may fail, so every error path is taken with the other worker at every point.
- **Iov.** One constant string and two allocated buffers, entries of 1 or 2 bytes, 2 slots growable to 3, and 5 bytes appended over a behaviour. This covers:
  - writes that stop inside an entry, exactly at a boundary, or past a boundary;
  - two fill/drain cycles, with `mk_iov_free_marked` in between.
- **Header.**
  - Pass run: one connection with two requests. The second is prepared while the first may be partly sent.
  - Violation run: two connections with two requests each, and a fourth profile to which a plugin added one row. A plugin row is left out of the pass run, because it breaks `HeadersIntact` on a single pipelined connection.
  - The pass run checks `HeadersIntact` only. Freeing a marked buffer only after it is sent, and eventual delivery, both fail on one pipelined connection. The freeing is shown by `header_shared_iov`.
  - Profiles: a 200 with a Location (a marked buffer), a 206 with a Content-Range (a marked buffer, and Connection: Close), and a 304. These exercise marked and unmarked entries and the keep-alive branches.
- **Plugin.** One compiled-in plugin and two Load entries, two stage lists, and every dlopen/dlsym outcome, missing field, stage subset and init result. The violation run also lets each plugin have a thread key or not. The pass run gives every plugin a key, because keys play no part in its properties. The stage code is the same for all five lists, so two lists suffice to show order and membership.
- **GmtDate.** Two workers (symmetric), two cache slots, three dates, three requests per worker, and TZ unset or CET at start.
  - Three dates in two slots force an eviction, and three requests give a hit after it.
  - One date is in 2000 and one in 1999, so the year digits and the leap day are exercised.
  - The interleavings cover every order of the two workers' getenv, setenv, mktime and restore.
- **UrlDecode.** Every URI of up to 5 characters over '%', '0', '4', 'a', 'F', 'G': 9331 URIs. This gives escapes at every position, back to back, cut short at the end, and with non-hex digits in either place.

### Fairness

- **EventBackend: `WF_vars(Wait)`.** Each worker's loop calls `mk_event_wait` again after dispatching.
- No other action is assumed to happen. Requests, adds and dels come from clients and handlers that may stop at any time.

`CHECK_DEADLOCK FALSE` appears only where the process really stops:
- after `mk_plugin_exit_all` or `exit(EXIT_FAILURE)`;
- when each event-loop worker has destroyed its loop or failed to create it;
- when a header model's streams are all written, or the first one left has an empty iov;
- when `url_decode` has returned;
- when each date worker has made its requests (`MaxReq`).

## What is not modelled, and why

- The scheduler and the HTTP layer: not under `src/`.
- `mk_event_foreach`'s array walk: it only reads.
- `mk_iov_set_entry` and `mk_iov_print`.
- The plugin API table, `mk_vhost_map_handlers` (not under `src/`), and the accessors.
- Signals: `mk_exit_all` and the workers are not under `src/`.
- The RTEMS network configuration.

`PROJECT.json` (`hazards`) lists the hazards no run covers, each with the reason: the foreach over-read, the shortname parse, `_extra_rows` overflow, and the `%00` truncation among them.

Two observations need no run:
- `mk_iov_consume` leaves `total_len` too large after a partial write that crosses an entry boundary. This is harmless: the channel counts a stream's bytes itself, and `mk_header_cb_finished` empties the iov.
- The failure path of `socketpair_monkey` closes `listener` again after line 76 closed it. That is only reachable after the second `connect`, which a blocking socket never needs. `event_fds` shows no worker closes a descriptor it does not hold.

The date example of the spec and of the comment above `mk_utils_utime2gmt`, "Wed, 23 Jun 2010 22:32:01 GMT" for 1277331121, is wrong: that time is 22:12:01. The model computes the date from the code, so the example plays no part in a run.
