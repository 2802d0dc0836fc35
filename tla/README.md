# TLA+ verification of cellmgrd

`cellmgrd` is a C daemon that runs on a router with a 5G modem: it serves a web page, talks to
the modem through oFono (by running `dbus-send`), keeps profiles and settings in SQLite, reboots
the machine on a plan, and forwards messages. This directory holds TLA+ modules for its parts,
TLC configurations that check them on small instances, and proofs checked by TLAPS.

`PROJECT.json` is the index: every module's definitions with the source lines they stand for,
every run, the hazards with the properties aimed at them, two divergences between code and
documents, and for every checked property a small fault in the code's model that it notices.

Run a model with `tlc -config X.cfg M`, a proof with `tlapm M.tla`.

## 1. The system

Three threads share one `app_state` with no lock of their own (SQLite serialises statements):

| thread | code | what it does |
|---|---|---|
| main, then HTTP | `main.c`, `http.c` | loads settings, finds the modem, then accepts and serves one request at a time for ever |
| scheduler | `scheduler.c` | every 30 s compares the clock with the plan in memory and reboots |
| monitor | `dbus_monitor.c` | keeps a `dbus-monitor` process running and stores what it prints |

Every external program (`dbus-send`, `curl`, `sync`, `reboot`) is run by `run_capture`
(`dbus_cmd.c`), from the first two threads.

| component | state | operations | interacts with | what is hard | what makes it correct |
|---|---|---|---|---|---|
| run_capture | two pipes, a child, a clock reading | run, collect, time out, reap | every caller; other threads' forks | fd inheritance, pid reuse within and without the daemon, a wall clock read in whole seconds, partial reads, a child that closes its streams and runs on | true exit code, complete output, no early kill, no leak, returns |
| profiles and band cache | `device_profiles`, `capability_cache`, `active_profile` row and field | import, save, activate, delete, discover | main, HTTP, at_send | several statements per request, ignored errors, crash between, wall-clock ttl | active profile exists, no bands of a predecessor, bands only get newer |
| settings | file, rows, `cfg` | load, override, discover the modem, save, password | main, HTTP, oFono | row-by-row writes, precedence, a hung oFono | a restart sees each field old or new; start-up ends |
| scheduled reboot | plan in `cfg` and rows, `last_yday` | save, check, reboot | HTTP and scheduler threads | torn reads, 30 s sampling, state lost by its own reboot | reboots when planned, only then, not without end |
| SMS forwarding | one socket or one curl | forward one message | an SMTP relay or webhook | replies of several lines, end of file, lost answers | the report agrees with what was delivered |
| SMS inbox | the modem's slots, the page's selection | list, read, delete | oFono, AT, page | two numberings, stale rows, texts that read as part of an answer, answers and texts that are cut | delete and read reach the message shown, what fits is listed |
| AT and oFono commands | `at_history`, `allow_dangerous_at` | gate, send, record, answer | oFono, modem | a command that timed out still happens; exit code 0 says that a reply came, not what it says | answers that mean something, complete history |
| network page | rows of bands and cells, the ticked codes, the form, the active profile | discover, tick, scan, pick, lock, unlock | modem, page, profile | names and codes mixed, vanishing fields, a field that is filled and edited, buffers of 512 bytes, a profile searched as text | what is locked is what was ticked or picked, with the profile's own command |
| HTTP server | the listening queue, one connection, a session token | accept, read once, route, answer, close | clients, all handlers | segments, hang-ups, silence, full buffers, waits without a timeout, SIGPIPE, one thread | everybody is served unless one of four waits never ends; only who gave the password acts |
| D-Bus monitor | a process, a pipe, rows | start, store, reap, restart | run_capture (inherits descriptors), HTTP (port) | held pipes, orphans, failing INSERTs | comes back, reads all that was printed |

Not modelled, and why:
- the parsers whose numbers are only displayed (`+CSQ`, `+COPS`, registration, `+CGEQOS`,
  `+GTCELLLOCK`, property listings): one `sscanf` per line each, no state, no decision;
- JSON escaping, growing buffers, trimming, reading a file, logging (`common.c`): sequential
  helpers whose only failure, a full memory, is modelled where `run_capture` handles it;
- `sysinfo.c`: readings of `/proc`. The one state is the previous CPU sample, which all pages
  share: the load shown is that since anybody last asked;
- handlers that only read the daemon's state (overview, export, validate, capabilities, settings,
  events), the schema, the layout of the page.

## 2. The modules

Handlers are split wherever another thread, a crash or a partner can come in between: at database
statements, at unlocked reads and writes of `cfg`, at each system call that waits. Everything
else is one step. Data is reduced to what the properties distinguish.

**RunCapture** (`dbus_cmd.c` 29-129). `pc` is the caller's place: `PipeOut`, `PipeErr`, `Fork`,
`EnterLoop`, then rounds of `SelectRead` (select and the two reads), `Expire` or `InTime` (the
timeout test), `Poll` (waitpid WNOHANG) and at last `Finish`. `writers[s]` is the set of processes
holding a write end, so end-of-file is `writers[s] = {}`. The child may close a stream long before it
ends (`CloseStream`). `pid` says whom its number denotes: once it is reaped that may be
nobody, a stranger, or a `sibling`, the child of another thread of the daemon, for which `waitpid`
works as well. Then this call may reap the sibling, or the call that had the number before may
reap this child (`StaleReap`); `crossed` remembers it. `OtherFork` is another thread forking in the
window. `Tick` and `SetClock` are the wall clock, which runs and may be set. `BuffersFail` is the one
allocation failure the code handles here; when the first buffer fails the second is freed before it
was initialised, and the daemon may crash.

**ProfileStore** (`main.c` 48-60, `http.c` 590-662 and 962-998, `db.c`, `profile.c`).
`profiles`, `cache` and `row` are tables; `active` is `cfg.active_profile`; `step` is the handler
in progress. Each statement whose result the code ignores may fail. Histories: `gen` (deletions of an id),
`seen` (age of what was shown), `torn` (deletions that stopped half-way), `lost` (whether a
statement has failed).

**RebootScheduler** (`scheduler.c`, `main.c` 62-88, `http.c` 264-286 and 785-838). The save's six
writes (three fields, three rows) and the check's reads (enabled and clock, hour, minute) are
steps. `Tick` moves a calendar of `Hours`*`Minutes`*`Slots`. Histories: `mixed` (a save overlapped
the check), `torn` (a save was cut short or lost a row), `whole` (memory did not change since the
minute began), `fired` (how often the machine was rebooted, and for which minute).

**SmsForward**, with the abstract **Forwarding** (`sms_forward.c`, `smtp.c`). Client and server
exchange lines through two queues; the server is any that follows the protocol. Its greeting and
each of its replies have any number of lines in `Lines`, of which the client reads one. It may even
take a mail after it rejected the login, which `refused` remembers. A text is ordinary, has a line
that begins with a dot (which the server drops: the client does not double it), has a line of one dot
(which ends it), or is longer than the buffer (and then never ends). `trouble` records that the text or
the relay is one the client does not reckon with, a second line of any reply included. `Forwarding`
says only: the relay takes the message or not, and then the report says which; in trouble it may say
anything.

**SmsInbox** (`http.c` 316-520, `parsers.c` 355-436 and 516-650, `web_assets.c` 86-89). Modem,
listing, the page's selected row, and the last request about it. An answer is the sequence of its
lines, each with what it looks like; both parsers are recursive functions over it, so a line of a text
that looks like a line of the answer (`OK`, `+CMGL:`, an object path, a key, a variant, a bracket) does
what it does in the code: a variant may give a key its second value, and a variant that is a bare
word gives the listing a form that is not JSON, on which the page changes nothing. An answer is cut
where a capture is full (`OfonoCap`, `AtCap`), a text of an AT row where its buffer is (`Room`). Sizes
are counted in lines; a line is kept or lost as a whole.

**Settings** (`config.c`, `main.c`, `ofono.c` 3-127, `http.c` 840-911). Five fields stand for all;
`todo` is the rows still to be written. Every statement may fail (`Put`), which `lost` remembers.
`Best` is the modem that the discovery chooses, by score and then by order.

**HttpServer** (`http.c` 28-136, 164-197, 522-530, 810-911, 1188-1331). A request arrives in
parts; the server reads once. The body lies in a buffer of a function that has returned, so its fields
may be lost even when it was read (`Intact`). Tokens are those of a start (`boot`), and clients keep
them across restarts; `proven` remembers who gave the password during this one. Six operations stand
for the routes: a query (any that runs programs), the test of forwarding, login, and the changes of
plan, password and settings. `phase = "full"` is a write that waits for the client to read
(`TakeRest`). `timed` is whether `at_timeout_ms` is positive; without it, and in the test of
forwarding, what the thread waits for need not end (`MayHang`). The header of an answer goes into
the empty buffer of a new connection and cannot wait.

**DbusMonitor** (`dbus_monitor.c`). The thread, the process, the pipe, other holders of its write
end, the INSERT of a line, which may fail unnoticed (`lost`), and the orphan that a crash leaves. It
may keep the listening socket for good: nothing in the code ends it but a write to its broken pipe,
and whether that does is up to `dbus-monitor`.

**ModemCommands** (`at.c`, `ofono.c` 129-179, the gated handlers of `http.c`, the radio query and
the D-Bus test). `atModem` is what oFono holds: it survives the time-out and the daemon. A command
is a request and its part, since the radio query sends several. The modem carries a command out or
refuses it (`rejected`). oFono returns from `SendAtcmd` with whatever the modem said, from
`SendMessage` when the message is queued, from `SetProperty` when the property is set (`Returned`), or
with a D-Bus error at any time (`ErrorReply`); `dbus-send` turns a return into exit code 0, and the
daemon looks at nothing else.

**Network** composes three modules. **Bands** (`parsers.c` 159-243, `web_assets.c` 22 and 79-81): the
parser's two passes, then ticking, which writes the field of codes, and typing into it, which no box
follows. **Cells** (`parsers.c` 293-353, `web_assets.c` 82-83): the lines of `AT+GTCCINFO?`, then picking
a row, which fills the form, and editing the form. **ProfileDoc** (`profile.c` 4-55 and 120-153,
`json_util.c` 60-116): how a command is found in a profile, on sequences of tokens, next to what JSON
says of the same document; a string with escapes of which the code only drops the backslash has
both readings. Network itself has the requests (`http.c` 962-1186): each takes its command from the
profile and its values from a panel. A field that is empty is not one that is missing: lock-band and
lock-cell refuse without a template, frequency lock and unlock take the fixed command (`OrFixed`),
discovery and the cell scan send the empty command. A template is filled in buffers of 512 bytes
(`Filled`, `Sent`): beyond `Fits` codes a list may be cut anywhere, in the middle of a code too.
The page's own requests confirm with `true` and are refused, so the locks modelled here are
those of a client that confirms with 1. The parsers and the search are recursive functions and
selections, never RECURSIVE operators, so that they can be proved about.

`Network` and `DbusMonitor` prefix their `Init`, `Next`, `Spec` and `TypeOK` (`NetInit`, `DbusInit`),
because each is extended together with another component by the module of their proofs.

`MC*` modules only give constants that a cfg cannot write. Definitions named `X_Y` (for instance
`Ready_Whole`) are faults: the form `X` would have after a plausible slip. No specification uses
them, except `Activate`, which adds its guard to the unguarded form.

## 3. What TLC checks

Passing runs (bounds, and why they suffice):

| run | properties | bounds | shows |
|---|---|---|---|
| RunCapture | `AnswerIsTruthful` `CompleteUnlessLate` `NotKilledEarly` `NoDescriptorLeft` `Returns` | 2 streams with 2 units of output together, 1 of each kept, pipes of 1, timeout between two whole seconds, 4 ticks of half a second, the clock set by a second either way, one other fork, one sibling | full pipes, output beyond the limit, both ends of a second, a number that is recycled outside and inside the daemon, a stream closed early and one held open; the safety part is also proved for all sizes |
| ProfileStore | `ActiveResolvable` `NoInheritedBands` `BandsNeverGoBack` | 3 ids, one of them the cut form of another, 2 documents, each id deleted once, clock 0-1 | one id to be active, one to delete and re-create; ttl 0 and 1; crash and failure at each statement |
| RebootScheduler | `RebootsAreBounded` `PlannedMinuteIsNotMissed` `RebootsByPlan` | 2 days of 2 hours of 2 minutes, 4 slots a minute, sleep of 2, 1 slot late, 1 save, lost rows | midnight, a restart within the minute, the latest check, every interleaving of a check with a save |
| SmsForward | `RetryIsSafe` `ReportsWhatHappened` (refinement of `Forwarding`) | all three modes, with and without AUTH, greeting and replies of 1 or 5 lines each, all texts, hang-ups, HTTP faults | every shift of the script by one long reply or several; a mail reported as failed was not taken, unless the server had rejected EHLO or the login; the promise holds for one-line replies and no faults |
| SmsInbox | `DeleteHitsShown` `ReadShowsPicked` `ListIsFaithful` | 2 slots, 3 messages, all with lines that look like those of an answer; captures and buffers that hold some listings and texts and cut others | reuse of a slot by a later message; rows that are no message, shifted numbers, a second value of a property, a listing that is no JSON; a message that is cut off behind one that is whole |
| Settings | `AnsweredIsSaved` `RestartIsOldOrNew` `StartsUp` | 2 changes, 1 failing statement, crashes, 3 answers of oFono | a crash and a failure at each row, also of the discovery; a hung oFono |
| HttpServer | `ConnectedIsServed` `OnlyThisSession` | 2 clients, 6 operations (changes of plan, password and settings by one of the two, `Editors`), 2 passwords, queue of 1, 2 starts | a full queue, half requests, a silent client, one that does not read, a mail server that does not answer, a timeout saved as 0, SIGPIPE, a token across a restart, a password changed in between; the safety part is also proved for any clients and starts |
| DbusMonitor | `PrintedIsStored` `MonitorComesBack` | 3 signals, pipe of 2 lines, 2 deaths, 2 crashes | held pipe, failing INSERTs, an orphan on the port for a while or for good |
| ModemCommands | `OkIsSettled` `AnsweredIsRecorded` | 2 requests of 19 forms, radio queries of 2 commands, 1 failing INSERT, 1 crash | late execution under the next request or part, refused commands, D-Bus errors for commands that are carried out |
| Network | `RowsAreTheReply` `LocksWhatIsPicked` `CommandIsOwn` | replies of up to 2 of 6 bands (`seen` of 1, lists of 1 code surely fit) or 2 of 8 lines, 2 lists to type, 8 profiles for the bands and 4 for the cells | a code off the offsets, a code that a WCDMA band shares, a full `seen`, a list that is cut, one that was typed; whole, shifted, short and titled cells, low NR bands; profiles in two orders, with members missing, empty, escaped, too long or mentioned elsewhere |

Each component also has its `TypeOK`, `NetTypeOK` or `DbusTypeOK`. Bounds are constants or `Max...` guards of the
modules. What the properties rule out by a premise is what the code cannot promise, and is said in
each property's comment: for example `ListIsFaithful` needs, over AT, a printer that escapes quotes,
because `extract_quoted_after` stops at the first one.

The conditions in the properties deserve attention, since they delimit what was shown. Most of them
name something the code does wrong or leaves open, so that the property says: nothing else does.

- RunCapture: `AnswerIsTruthful` excepts calls that crossed over a recycled number; `NotKilledEarly`
  allows what the clock was set forward; `NoDescriptorLeft` excepts the first pair when the second pipe
  fails; `Returns`, for a positive timeout, excepts the last `waitpid`, which has none, when it waits for a
  child that closed its streams and runs on or for another call's child. Whom the signal hits
  once the number was recycled (`struck`) is in the model, and no property denies it.
- ProfileStore: `NoInheritedBands` excepts deletions that stopped half-way; `ActiveResolvable` excepts
  ids over 127 bytes and holds until a statement fails, as does the order of discoveries in
  `BandsNeverGoBack`, which also supposes a wall clock that is not set back.
- RebootScheduler: `RebootsByPlan` excepts checks that a save overlapped and plans torn by a crash or a
  lost row; `PlannedMinuteIsNotMissed` a plan that was moved within its day.
- Settings: `AnsweredIsSaved` excepts what failing statements lost, `StartsUp` a stored timeout that is
  not positive.
- SmsForward: `ReportsWhatHappened` is silent once `trouble` holds, `RetryIsSafe` once the server
  rejected EHLO or the login.
- SmsInbox: `DeleteHitsShown` and `ReadShowsPicked` speak of numbers used with the source they come from:
  a slot for a delete, which the route sends only for clients that confirm with 1. `ListIsFaithful` speaks
  of messages that fit, needs over AT a printer that escapes quotes (`extract_quoted_after` stops at the
  first one), and excepts texts that read as part of an answer as its comment says.
- HttpServer: `ConnectedIsServed` excepts the four waits without end (a client that sends nothing or
  does not read, a mail server, a program without a timeout); `OnlyThisSession` supposes that each
  start's token differs from the former ones, as it does unless process id and second are the same. That
  a change answered ok may have saved the defaults in place of what was asked is in the model
  (`Intact`), and no property denies it.
- ModemCommands: `OkIsSettled` says that the modem dealt with a command, not that it obeyed;
  `AnsweredIsRecorded` excepts failed INSERTs. DbusMonitor: `PrintedIsStored` likewise.
- Network: `RowsAreTheReply` speaks of clear replies (`Clear`): the names' digits are below 100 (those of
  `BAND_NR_257` are read a second time, as a code), the codes follow the offsets 100 and 5000 (501 to
  509 do not), and none is what a WCDMA band of the reply was given, since a WCDMA band n gets the code of
  LTE Bn and the second pass then skips it; of cells it excepts replies in which one has an empty field
  or stands on the title's line. `LocksWhatIsPicked` excepts bands whose code is off the offsets
  (`ByOffset`), lists that were typed, are left from an earlier reply or do not surely fit, and forms
  that were edited; its RAT is that which 3GPP gives the channel (`Standard`), but for the NR bands below 2
  GHz that a row gives by code, which the page takes for LTE (`NotLow`). `CommandIsOwn` excepts profiles
  that mention a capability's or a member's name elsewhere too, commands with escapes that are not
  understood and templates longer than the buffers. The run includes replies, lists, cells and
  profiles on both sides of each of these lines but the first.

Runs that are expected to find a violation, each a place where documents and code part:

| run | property | document says | code does |
|---|---|---|---|
| RebootSchedulerSerial | `DangerousOpsSerial` | dangerous operations are serialised (DESIGN.md:55) | the scheduler reboots during an AT command |
| ModemCommandsConfirm | `ConfirmTrueIsEnough` | send `"confirm": true` (DESIGN.md:638-642) | `atoi("true")` is 0: refused |

`confirm:true` is what the page itself sends, so its lock, online, delete and reboot buttons are
refused, and `enabled:true` in the plan reads as disabled.

The models contain more such places. No run is spent on them; the properties above are
worded so that they hold in spite of them:

| document says | code does | in the model |
|---|---|---|
| SQLite keeps the active profile (DESIGN.md:166) | a failed write is ignored and success answered (`http.c` 624) | `SaveActive` with `lost` |
| bands are what discovery returned (DESIGN.md:264) | a failed discovery is cached and answered as a success later (`http.c` 991) | `ModemAnswers` |
| profiles are edited from the page (README.md:14) | each start imports the file over the stored profile (`main.c` 48) | `Import` |
| the saved plan is carried out (DESIGN.md:567-569) | a check between two writes sees a mixture of two plans (`scheduler.c` 31) | `SaveField` and `mixed` |
| SQLite keeps the configuration (DESIGN.md:166) | a crash between two rows of a plan leaves a mixture (`http.c` 824) | `SaveRow` and `torn` |
| messages are forwarded (README.md:22) | one line of reply is read per command, a longer greeting or reply shifts the rest and a rejected mail may count as sent (`smtp.c` 100) | `Reply`, `ReadLine` |
| messages are deleted (README.md:21) | a position in oFono's listing is used as a slot of the storage (`http.c` 507) | `Pick` and `Delete` |
| the file enables login (README.md:125-131) | a saved password wins over the file for ever (`main.c` 103) | `Overridden` |
| configure the modem path (README.md:184) | one start without that modem replaces it (`main.c` 130) | `Discover` |
| the plan is saved (DESIGN.md:567) | a body in a later segment is missed and the defaults are saved (`http.c` 66) | `Read`, `Intact` and `SetPlan` |
| requests do not block on slow operations (DESIGN.md:52) | one thread serves everybody and runs the programs | `StartQuery`, `QueryEnds` |
| sending and dropping caches need `confirm` (DESIGN.md:638) | their handlers do not look for it (`http.c` 471) | `Confirmed` |
| AT commands are filtered unless `allow_dangerous_at=1` (README.md:147) | the test of a profile's command sends with `allow_dangerous` 1 whatever the setting (`http.c` 738) | `Passes` |
| in the advanced mode a dangerous command needs a second confirmation (DESIGN.md:397) | the console sends any command while `allow_dangerous_at` is set (`http.c` 272) | `Passes` |
| band codes typed by hand are validated (DESIGN.md:276) | whatever the field holds is put into the command (`http.c` 1064) | `TypeList`, `LockBand` |
| the console allows only queries (DESIGN.md:637) | it refuses eight prefixes and passes the rest (`at.c` 29) | `Safe` |
| NR `501` is `n1` (DESIGN.md:278) | codes below 5000 are LTE, so it is `B401` (`parsers.c` 213) | `NumberRow` |
| the page shows the bands discovered (DESIGN.md:275) | a WCDMA band n gets the code of LTE Bn, whose own code is then passed over (`parsers.c` 170, 202) | `NameCode`, `Skips`, `Clear` |
| a cell lock is `AT+GTCELLLOCK=1,<rat>,0,<earfcn>,<pci>` (README.md:18) | type is 1 unless the client sends one, and the page does not (`http.c` 1089) | `LockCell` |
| lock-band takes `"rat":"lte","bands":[...]` (DESIGN.md:458-471) | a list is no string and the request is refused (`json_util.c` 83) | `GetString` |
| a lock of an NR cell | a channel below 400000 whose band is a number is locked as LTE (`web_assets.c` 82) | `LockRat`, `NotLow` |
| the cells of `AT+GTCCINFO?` | an empty field vanishes and shifts the later ones (`parsers.c` 318) | `Fields`, `Whole` |
| a profile is JSON | `"discovery": null` takes the next object in the text, and a name given as a value counts as the key (`profile.c` 8-12) | `FindBlock`, `Plain` |
| bands to lock are those ticked | a new reply unticks every row and keeps the codes in the field (`web_assets.c` 80) | `Show` |
| login | a new password does not end sessions, whose token is that of the start (`http.c` 905) | `SetPassword` |
| a listed message | a line of its text that starts with `object path "` opens a row of its own and shifts the numbers (`parsers.c` 592) | `OfonoLine` |

**Fairness.** `RunCapture`: the caller runs, the clock advances, an exiting child gets to exit;
nothing is assumed of a running child or of another call's, so `Returns` rests on the timeout, and what
has none is its exception. `SmsForward`: the thread runs and the server answers; `Forwarding` owes a
report only while there is no trouble. `Settings`: main runs on; oFono may stay hung, which is why the
timeout matters. `HttpServer`: the thread runs, and a program with a timeout ends (what `Returns`
shows, but for its exception); nothing is assumed of clients, of a mail server or of a
program without a timeout, so `ConnectedIsServed` names the behaviours in which one of these is waited
for without end. `DbusMonitor`: the thread runs, `pipe` and `fork` do not fail for ever (strong fairness,
since failures interleave with retries), and holders of the pipe end (again `Returns`); nothing is
assumed of the orphan or of who restarts the daemon.

`CHECK_DEADLOCK FALSE` stands only where the system really stops: a call that has returned, a
message forwarded, the last observed day, a profile without a command, or the last start or request
within the bounds.

## 4. What TLAPS proves

Each theorem is about every value of the constants that the module's `ConstantsOK` allows; a
hypothesis beyond that is named below. Hardly any of the safety properties is inductive as it stands;
in each module `IInv` (or a named `...Inv`) is the strengthening that is, with a lemma per conjunct or
per action and one step per action or conjunct under it.

**RunCaptureProofs**, for all sizes, timeouts and settings of the clock: `TypeCorrect`, `Truthful`,
`Complete`, `Punctual`, `Tidy`, all safety properties of the run. `IInv` adds to `TypeOK`:
- `Lifecycle`: where the caller is fixes how far the child may be; the pid names the child exactly
  while it is running, dying or unreaped; unless two calls crossed, a reaped child's status is the
  caller's copy;
- `Accounting`: written minus unread is what was kept, cut at `MaxOutput`, and a stream is closed
  only when it is drained and the child can write no more;
- `Timekeeping`: whole seconds never run ahead of elapsed ticks, and of what the clock was set forward,
  by as much as a second;
- `Descriptors`: which ends the caller holds at each place.

`Complete` is the interesting one: it follows because leaving the loop without a kill requires both
streams closed, hence both pipes empty and a child that can write no more (it may still be running).

**ProfileStoreProofs**, for any ids, documents and history:
- `TypeCorrect` (with `Asking`: while the modem is asked, the profile stays, since one thread
  serves);
- `ActiveExists`: `ActiveResolvable`, from `CfgId = FileId`, which is needed: a configured id that is
  not the file's is an active profile that does not exist. `ActiveInv` adds that memory follows
  the row except inside an activation. It holds only until a statement fails, so it is guarded by
  `~ lost`, and is inductive because `lost` is never reset;
- `NothingInherited`: `NoInheritedBands`, also after failing statements; `CacheInv` says that every
  entry belongs to the present profile of its id unless a deletion is under way or torn;
- `OnlyNewer`: `BandsNeverGoBack`; `SeenInv` says that no entry is newer than the clock and, until a
  statement fails, that what was shown is not newer than the entry.

**WebProofs** has the theorems of HttpServer and of Network. HttpServer, for any clients, operations, passwords, backlog and starts:
- `TypeCorrect`: besides its parts `TypeInv` says that who waits or is served has a connection, that
  an idle client and one whose request was read have no parts left, and that nothing is written but
  an answer. A newcomer is then not yet in the queue (`QueueJoin`), and the head that is accepted
  not in it any more (`QueueLeave`);
- `SessionCorrect`: `OnlyThisSession`, for changes of plan, password and timeout alike. `SessionInv` says that a token is only on its way to, and the
  token of this start only held by, clients that gave the password since the start. It is kept
  because a restart makes every token held an older one (`session[c] <= boot` of `TypeInv`).

**ModemCommandsProofs**, for any requests, modems, failing INSERTs and crashes:
- `TypeCorrect`; `OkMeansSettled`: `OkIsSettled`. `InTurn` says that a command
  is sent once and in its turn, so that one carried out late cannot be taken for the present one;
  `Honest`, that exit code 0 is that of a command the modem has dealt with, or of a queued message;
  `Gated`, that a request past the gate has its fields and its consent, so that one that is refused
  never sent anything, in no part of it;
- `HistoryTells`: `AnsweredIsRecorded` as long as the history has at most 30 entries. The page lists
  thirty, so beyond that the property says nothing of the code; in the run the bound cannot be
  reached. `Recorded` says that what was sent is recorded before the next part and the answer.

**SmsForwardProofs**, for any number of lines in the greeting and in each reply, any text and any
server of the protocol:
- `TypeCorrect`; `Retry`: `RetryIsSafe`. The command the server takes next (`Due`) and the one whose
  reply the client awaits (`pos`) drift apart with each further line of a reply. `Queue` and `Stage`
  bind the server to the script, and `Clean`, the core, says that while no command was rejected no line
  on its way gives the client up;
- `KeepsThePromise`: the safety part of `ReportsWhatHappened`. Every step of `SmsForward` is one of
  `Forwarding` or leaves its variables alone. `InStep` says that without trouble client and server stay
  one line apart, and that the last reply read is the text's.

**RebootSchedulerProofs**, for any length of day, hour, minute, sleep and lateness:
- `TypeCorrect`; `ByPlan`: `RebootsByPlan`, from `Reads` (a check that no save has touched has read
  the form) and `Saved` (how far memory and rows follow the form);
- `Bounded`: `RebootsAreBounded`, if `Slots <= 2 * Sleep`: a minute is at most two sleeps, as 60
  seconds and `sleep(30)` are. Otherwise a machine that is up at once could be rebooted a third time.
  `Counted` says that each further trigger of a minute came a sleep later;
- `NotMissed`: `PlannedMinuteIsNotMissed`, if `Sleep + 2 * Late <= Slots`: what is left of a minute
  after a sleep covers the delay before and after it. The code sleeps for half the
  minute, so the theorem allows 15 seconds each. `Watched` says where the thread is in a minute.

**SettingsProofs**, for any values, modems, changes, failing statements and crashes: `TypeCorrect`;
`AnsweredSaved`: `AnsweredIsSaved`, from `Agree` (rows not left to write, and whose statement did
not fail, hold what memory holds); `OldOrNew`: `RestartIsOldOrNew`, from `Kept` (the disk
holds each setting as before the last change or as asked).

**IncomingProofs** has the theorems of SmsInbox and of DbusMonitor. SmsInbox, for any slots, messages
and sources, texts of any lines and lengths, and any size of captures and buffers:
- `TypeCorrect`; `Deletes`: `DeleteHitsShown`; `Reads`: `ReadShowsPicked`. `Page` says what a page may
  still believe: a number from AT means its message until that is erased (`ListedAt`, `PickedAt`), one from
  ofono as long as nothing was erased (`ListedOfono`, `PickedOfono`: an arrival comes last and
  moves no row, `OfonoRowsGrow`, although what it appends is parsed in the state the former texts
  left). `Once` says that a message is in one slot and listed once;
- `Faithful`: `ListIsFaithful`, by induction over the lines of an answer. The parsers are recursive
  functions, so their equations come first (`Recursion`, `AtRunIs`, `OfonoRunIs`, ...), and an
  induction is a step over a set of naturals (`Steps`, from the well-foundedness of `<`). Over AT
  (`AtFaithful`): the answer has each slot's entry (`AnswerShows`), if it lies within what is kept, its
  header opens a row, the text fills it up to the first stop, no later line reaches it. Over ofono (`OfonoFaithful`):
  the lines of one message add its row (`MessageRow`), and only that one if no line of the
  text looks like a path.

DbusMonitor: `MonitorTypeCorrect`, for any pipe and any number of signals, deaths and crashes. Its
last conjunct, that the thread has a living monitor only while it reads or reaps, is inductive.

WebProofs, of **Network**, for any names, numbers, lines and documents and any size of `seen`:
- `NetInv` is the inductive invariant (TLC has checked it too): the rows are what the parsers make of
  the reply shown (`BandsInv`, `CellsInv`), the field holds the codes of the ticked rows or what
  was typed, the form that of the row picked last or what was typed, and a request that was just made was made from these and from the profile
  (`AskedInv`). With it the theorems are statements about the parsers and the search of the profile,
  which are recursive or select from a text, and are proved by induction over a set of naturals
  (`Steps`, `Stays`, `Recursion`): `NetTypeCorrect`, and
- `RowsCorrect`: `RowsAreTheReply`. For the bands, `FirstPassIs` and `SecondPassIs` say what each pass
  adds, for any predicate of rows that both respect: that a row's code is that of its band
  (`ItemsAreCoded`, for every reply), and for a clear reply that each row is listed and each entry has a
  row (`ItemsAreListed`). A number is skipped only if a row has its code, whatever
  the size of `seen`: what no longer fits is shown twice, never lost. For the cells, `FieldsAre` says that
  without an empty field the first eight tokens are the first eight fields, `ItemsAre` that the row
  of the k-th cell is the k-th row;
- `LocksCorrect`: `LocksWhatIsPicked`, whatever was typed before. While the boxes wrote the field last it
  holds the codes of the ticked rows, a list that surely fits is sent whole, and a code that follows the
  offsets means the band of its row (`RowMeans`); while the form was not edited it has channel and PCI
  of the picked line, and the RAT that the threshold of the page gives is that of 3GPP's channels
  (`PickedIs`);
- `CommandCorrect`: `CommandIsOwn`. The text search and JSON's own reading are compared on any
  document: an object is a part of the text from a brace to the one that closes it (`BlockEndIs`); the
  nesting depth in a part is that of the document shifted by a constant (`DepthMoves`), so the part
  ends where the object does (`EndMoves`); and a name that stands once is found at its key
  (`FindPlace`, `OnceIs`). Hence the object of a capability and of its `discovery` are those JSON says
  (`CapabilityIs`, `InnerIs`), and the strings and numbers in them (`StringIs`, `IntIs`).

Proving has corrected four models. `RetryIsSafe` was too strong for a server that takes a mail whose
login it rejected (replies of 5 lines show it, so the run has such replies). Two
`CASE`s, in `FromFile` and in `OfonoLine`, had arms that overlap, of which TLC takes the first and the
logic any. In Network the conditions of `RowsAreTheReply` and `LocksWhatIsPicked` lay in the constants of
the run; stated as hypotheses they turned out to be more (the WCDMA code, the digits of a name), and a
`ttl` that is no number is the 0 of `atoi`.

Only model-checked: liveness (`Returns`, `ConnectedIsServed`, `MonitorComesBack`, `PrintedIsStored`,
`StartsUp`, and that of `Forwarding`), since fairness and ENABLED are out of this
prover's reach. Every invariant and every action property of a passing run is a theorem.

## 5. Plan

Done, most important first: RunCapture (everything depends on it), ProfileStore, RebootScheduler,
SmsForward with Forwarding, SmsInbox, Settings, HttpServer and ModemCommands, each with its proofs;
DbusMonitor, Network with Bands, Cells and ProfileDoc, with theirs; failing statements in
Settings and ModemCommands, login and password in HttpServer, both parsers of listings in SmsInbox.

Next, to extend the model:
1. a composition of the three threads: RunCapture calls of the scheduler and the HTTP thread with
   DbusMonitor's pipe, sharing descriptors and pids, to replace `OtherFork` and `Inherit` by the
   real partners;
2. an abstract settings store (a function changed at once) that Settings and the plan's rows
   implement up to a crash;
3. the band cache keyed by the modem path, with the path changing; profile replacement while its
   bands are cached.

Next, to prove: the refinements of points 1 and 2, once stated.
