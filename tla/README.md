# Meet Sentinel in TLA+

Meet Sentinel is a tray application that reminds its user of Google Calendar
meetings. The repository holds the decision engine, the files it keeps, the
Google adapters and an empty tray shell; the orchestration that joins them is
on the roadmap (R-006, R-007). These modules model the parts that exist and, for
the reminders, the use the engine is made for.

Run a check with `tlc -config X.cfg M`, a proof with `tlapm M.tla`.
`PROJECT.json` lists every run, the source lines of every definition, and for
every property a mutation of the code that breaks it.

## Inventory

| part | state | operations | talks to | correct when |
|---|---|---|---|---|
| reminder engine `core/reminder_engine` | none: a function of meetings, `ReminderState` and the time | `evaluate_reminders`, `due_reminders` | its caller feeds the decisions back as fired, snoozed and dismissed entries | each reminder shown once, in its window, again after a snooze, never after a dismissal |
| orchestration (roadmap) | clock, calendar, reminder state, popups | poll, fetch failure, Snooze, Dismiss, restart | engine, persistence, Google | nothing duplicated, nothing missed, across restarts |
| JSON persistence `persistence/json_persistence` | three files | load and save of settings, reminder state, event cache | file system | a save is atomic and durable; a load never sees half of one; what is loaded is what was saved, or is rejected |
| credential store `persistence/credential_store` | one file | `save`, `load`, `clear` | file system, same code | the same, and `clear` is final |
| file logger `persistence/file_logger` | one append-only file | `append` and its six callers | file system | one readable line per entry |
| loopback server `google/loopback_authorization_server` | a listening socket | constructor, `wait_for_callback`, destructor | the browser | returns the redirect, or throws in time; the peer is told the truth |
| URL encoding `google/url_encoding` and query decoding in the loopback server | none | encode, decode | OAuth, Calendar, browser | decode inverts encode |
| PKCE `google/pkce` | none | verifier and challenge | OAuth | RFC 4648, FIPS 180-4 |
| HTTP interface and curl provider `google/http_client`, `google/curl_http_client` | none | `send` and its callbacks | libcurl | a whole response or an `HttpError`, in time |
| OAuth client `google/oauth_client` | none | `authorization_url`, `exchange_code`, `refresh_access_token` | HTTP client, Google's token endpoint | tokens from Google or an error; the user stays signed in |
| Calendar client `google/calendar_client` | none | `fetch_events` | HTTP client, Google's calendar | the body of a successful answer to this request, or an error |
| tray shell `app/main`, `ui/` | a Qt event loop | Quit | nothing | - |

What is hard here: the order of `evaluate_key`'s early returns, which only shows
over several polls; window ends against the poll interval; the file protocol
when the process ends, a call fails or a second instance runs; what the next run
makes of the saved reminder state; the socket calls that do and do not have a
timeout; connections that end within an answer; a log shared by several writers;
documents that are not what this version writes. The list with lines is under
`hazards` in `PROJECT.json`.

Nothing in the repository starts a thread. Concurrency comes from other
processes: nothing keeps a second instance from starting, the browser is one,
and the log may be shared.

## Modules

| module | models | checked by |
|---|---|---|
| `ReminderEngine` | `reminder_engine.cpp`: the reasons of `evaluate_key`, traces, decisions | through the next two |
| `ReminderLifecycle` | the engine over time: polls of fresh and cached calendars, Snooze, Dismiss, the clock | `MCReminderLifecycle*.cfg`, proofs |
| `ReminderRestart` | the engine over restarts: the reminder state saved and loaded, in both orders of save and show | `MCReminderRestart.cfg`, proofs |
| `DocumentRegister` | what a saved document promises: saves take effect at once or not at all, and the three faults that weaken that | refined by `JsonFile`, used by `ReminderRestart` |
| `JsonFile` | `write_json_file`, `read_json_file`, `clear`: open, write, close, rename, the remove-and-rename fallback | `MCJsonFile*.cfg`, proofs |
| `Json` | the accessors of nlohmann::json the code uses, with what they throw on | through the next one |
| `JsonRecords` | every `..._to_json` and `..._from_json` of the persistence and the credential store | through `Encodings` |
| `CurlHttpClient` | the constructor, `send`, `write_header`, `write_body`, the limit, the error codes | through the next one |
| `GoogleSession` | `OAuthClient` and `CalendarClient` on it, with Google's endpoints and a caller that stores credentials | `MCGoogleSession.cfg` |
| `GoogleRequests` | `authorization_url`, `calendar_events_url`, the scopes | through `Encodings` |
| `LoopbackServer` | the constructor and its failures, `wait_for_callback`: select, accept, recv, the page, the return; destruction; connections of the browser | `MCLoopbackServer*.cfg` |
| `FileLogger` | `append`: open, buffered write, its throws, the write at destruction | `MCFileLogger.cfg` |
| `UrlEncoding` | encoding, and decoding of the callback's target, over bytes | through `Encodings` |
| `Pkce` | `base64url_encode` and the padding of `sha256` | through `Encodings` |
| `Encodings` | inputs and documents for the pure modules above, damaged documents, and what the conversions must compute | `MCEncodings.cfg` |
| `ReminderLifecycleProofs`, `ReminderRestartProofs`, `JsonFileProofs`, `GoogleSessionProofs`, `LoopbackServerProofs`, `FileLoggerProofs` | theorems | `tlapm` |
| `DocumentsProofs`, `EncodingsProofs` | theorems about the documents of `Encodings`, and about its forms, base64 inputs and sizes | `tlapm` |

`ReminderLifecycle` and `ReminderRestart` EXTEND `ReminderEngine`: their `Poll`
evaluates every meeting of the calendar with the operator translated from
`evaluate_reminders`. `JsonFile` instantiates `DocumentRegister` with what the
document's name stands for and implements it, faults included; `ReminderRestart`
instantiates `DocumentRegister` with reminder states as documents and takes its
steps as the calls of `save_reminder_state` and `load_reminder_state`. What is
proved of the one therefore holds of the other over the file protocol.
`JsonFile` stands for the reminder state, settings, event cache and
credential files alike (the two .cpp files hold the same function).
`GoogleSession` EXTENDS `CurlHttpClient` and reads token responses with `Json`.
The other modules are independent, as the code is.

### How state and actions correspond

* **Engine.** Vectors that are only searched for a key are sets; snoozes are a
  sequence per key because `find_snooze` returns the first. Titles, end times
  and URLs are never read.
* **Lifecycle.** `state` is the `ReminderState`. `Poll` is one evaluation and
  what its caller does with the decisions. The caller does not exist yet, so its
  one open choice is made in the initial state: `clears` says whether it erases
  the snooze it has honoured, and the constant `Callers` which of the two are
  considered. A meeting may appear, move, be cancelled, come back
  and disappear at any successful fetch; `PollStaleCache` evaluates the cached
  description. `since`, `alerts` and `granted` only serve the properties.
* **Restart.** `phase` is what the program is doing: down, loading, idle, in a
  save, or returned from one. The caller saves what is due and then shows it
  (`SaveFirst`) or the other way round (`ShowFirst`); an answer of the user is
  kept in memory also when saving it throws; a torn document lets the program
  start empty or not at all. A crash drops everything but the document, and may
  come between any two steps. `alerts`, `granted`, `silenced` and `crashes` only
  serve the properties.
* **JsonFile.** A file is an inode; `path` and `tmp` are the names. A file is
  `Torn` from its truncation until the stream is closed. `Faults` says which
  calls may fail besides those whose failure the code reports before it has
  touched the document, and `failed` which have: one run has all faults, and
  every property names those it tolerates. `acked` and `pending` only serve the
  properties.
* **JsonRecords.** A conversion that can throw returns a set of at most one
  record, so that `UNION` composes conversions as C++ composes the calls. Damage
  removes a member, or puts null or a value of another type in its place, at any
  depth.
* **CurlHttpClient and GoogleSession.** The headers of one response are one item,
  a body is a content and how many of its `Chunks` pieces have been received;
  `fetch_events` returns both as they are. There is no client (`phase` is
  "unconstructed") until `curl_global_init` succeeds. `answer` is what the server
  has sent, `response` what has arrived. Google's endpoints accept a code once and the
  refresh token always, answer a refresh with or without a refresh token, and
  let access tokens expire at any time; anything else may answer instead. The
  caller that stores the credentials does not exist: `keeps` says whether it
  keeps its refresh token when a response has none.
* **FileLogger.** The log is a sequence of texts and newlines; a text that does
  not fit the stream's buffer (libstdc++ writes a text of about 1 KiB or more
  directly) is its own write. `thrown` holds the entries whose append threw, and
  only serves the properties. `mishaps` counts the failed writes, the deaths in
  the middle of a line and the writes of another logger there; it only serves
  `DamageIsLocal`.
* **LoopbackServer.** `pc` begins in the constructor, which may fail without a
  socket ("failed") or leave one listening that nobody knows ("leaked"); "answered"
  is between the page and the return. A request is a kind and an amount;
  `returned` says whether the callback of a connection had a code; `came` remembers
  whether there was a connection during the current call. A peer may close or
  reset; after a reset `send` is ignored, or raises SIGPIPE, which nothing in
  the program handles.

## Runs

| run | bounds | shows |
|---|---|---|
| `lifecycle` | 1 meeting, both callers, windows of 2 seconds, poll interval 2, 2 start times, 2 snoozes and at most 3 alerts per reminder, horizon 7 | no missed window, no gap or overlap between the windows, dismissal is final even with stale snoozes around; with a caller that erases, no duplicates, and snoozes neither late nor cut short |
| `lifecycle_repeat` | the same, 1 snooze | **violated**: fired entries alone do not prevent duplicates, an elapsed snooze that stays is raised at every poll |
| `restart` | 1 meeting, both orders, all faults, 1 snooze per reminder, 2 crashes, horizon 4 | save-first duplicates nothing, show-first loses nothing, saved dismissals are final; whatever fails, a restart costs one alert at most |
| `json_file` | 1 writer, 1 other process, 2 documents, 4 files, all faults | the protocol is an atomic document with three faults; what survives which fault; nothing ever goes back to older contents |
| `json_file_close`, `json_file_rename`, `json_file_two_writers` | the same, one fault each | **violated**: see findings |
| `google` | 2 access tokens, bodies of 2 pieces, 4 other statuses, timeouts around the overflow of a 16-bit long | whole response or error; no refusal is taken for a success; signed in stays signed in; every call ends |
| `loopback` | 2 connections of any kind, backlog 1, 2 calls, timeout 2; peers close in the end | page, callback, timeout and destruction agree; stray connections lose no redirect; every wait ends |
| `loopback_silent_peer` | the same, peers need not close | **violated**: a silent peer holds the call for ever |
| `logger` | 2 loggers, 2 short and 2 long entries, deaths and full disks | each mishap costs at most two entries; without one the log is whole; what threw is not in it |
| `encodings` | forms of 2 fields and 3 bytes over 12 bytes with a role; 5 bytes over 6 values; sizes to 140; 4 documents, 2 damages | decode inverts encode; URLs say the request; base64 and padding as defined; records survive, damage is contained |

Why the bounds are enough. Reminders of different meetings share no state (the
engine never relates two keys), so one meeting reaches everything one reminder
can go through; the theorems are for any number. Windows, interval and snooze of
two seconds are the least at which before, inside, last and after are different
instants; the horizon lets a meeting be moved past its first window and polled
again. In `restart` three runs of the program let a crash hit the save of a run that
was itself started after one; snoozes and alerts are counted per reminder, and
the theorems are for any number of each. `MaxSnoozes` and `MaxAlerts` bound counters; a caller
that clears never reaches the bound on alerts. Four files suffice for two names and two
processes. Two access tokens are a sign-in and a refresh, or two refreshes one of
which was lost on the way back; no step depends on earlier ones except through
the credentials and the server's tokens. The timeouts are 0, two that fit, one
that becomes negative and one that becomes short. With two connections one is served while the other waits in
the backlog, is left over from an earlier call, or finds the backlog full (a
kernel may round the backlog of 1 up; that changes only when a peer can
connect). Four log entries are a damaged one, one on either side of it and one
of the other logger. Three bytes hold an escape, or one cut short. A 22-bit buffer
is the widest TLC's integers can shift a byte into; like the code's 32 bits it
overflows on the inputs checked. The saved records have no member equal to a
default or to another member, so a lost or swapped one shows; two damages reach
two members of one record, two records, or one member twice.

Fairness. `LoopbackServer` assumes that time passes and
that the thread inside `wait_for_callback` is scheduled (weak fairness of `Tick`
and `ServerStep`): there is one thread and nothing it could wait for but the
calls modelled. `SocketError` is not fair: no call needs to fail.
`GoogleSession` assumes libcurl's clock (weak fairness of `Expire`) and the
thread of the client (`CallEnds`), and nothing of servers and network: `CallsEnd`
holds because a transfer has a limit, not because anybody answers.
`PeersCloseSpec` adds peers that close in the end; it is an assumption about
the environment and the run without it shows that it is needed.
`CHECK_DEADLOCK FALSE` stands where the system really stops: the server
destroyed and every connection closed, all entries logged, no longer input.

## Findings

1. `reminder_engine.cpp:81` tests the snooze before the fired state: fired
   entries alone do not prevent duplicates (ROADMAP R-003), the caller must erase
   honoured snoozes.
2. `json_persistence.cpp:108` tests the stream before its buffer is flushed: a
   save on a full disk may return normally and replace the document by a torn one.
   `file_logger.cpp:66` has the same order: `append` may return and the entry, or
   half of it, is missing.
3. `json_persistence.cpp:116` removes the document when a rename failed; if the
   second rename fails too, a failed save has destroyed the saved state.
4. `json_persistence.cpp:99`: all processes use the same `.tmp` name.
5. `loopback_authorization_server.cpp:175`: `recv` has no timeout.

Also seen while modelling, without a run: `file_logger.cpp:65` writes a long
entry and its newline in two calls, so two loggers can put two texts on one line
(`DamageIsLocal` counts that as a mishap); a rescheduled meeting keeps its key, so a
reminder that has fired stays silent at the new time (whether that is meant is
not documented); a file that cannot be opened is loaded as a missing one, so the
program repeats what it has shown and its next save replaces the document;
`curl_http_client.cpp:67` keeps the headers of interim responses in front of the
final ones; a timeout of 0 is none, and where long has 32 bits (Windows) one
above 24 days overflows; HTTP 401 and a broken connection are the same error
code, so a caller cannot tell a token to refresh from a fetch to retry;
`credential_store.cpp:105` removes the document and not a `.tmp` that a crash has
left with the same credentials in it; when `getsockname` fails in
`loopback_authorization_server.cpp:109` the constructor throws past its
destructor and the socket goes on listening (`GetsocknameFails`); a successful answer that is no token response leaves `exchange_code` as a
json exception, not as an `HttpError`; a reminder state whose list is null loads
as one without entries.

## Proofs

`ReminderLifecycleProofs`, from the assumptions on constants only (any meetings,
start times, windows, poll interval, snooze duration):

* `TypeCorrect`, then `Inductive`: the invariant `IInv` adds to `TypeOK` that
  whatever was shown is fired, that a poll is never overdue (`PollOnTime`), that
  an instant at which a reminder was due was polled no later than one interval
  after it (`WindowCovered`), and, for a caller that clears snoozes, that every
  alert is paid for by the first showing or a granted snooze (`AlertsPaidFor`)
  and that recorded snoozes lie after the last poll (`SnoozeAhead`). None of
  the properties is inductive without the others: that a snooze exists at most
  once per key needs that only shown reminders are snoozed, and so on.
* `SnoozesHold` needs `OneSnooze`: for a caller that clears, a snooze is asked for
  when none is recorded, so the first entry, which `find_snooze` takes, is the last
  one asked for. (For a caller that does not, an elapsed snooze masks a later one.)
* `NoDuplicates` and `SnoozesOnTime` (for a caller that clears, as the properties
  say), `NothingMissed` and `DismissalIsFinal` (for both callers). The step lemmas are one per action;
  `RaisedWhenDue` and `NotRaised` say what the engine's decision function
  returns, and every step proof rests on them.
* `WindowsMeet`: the windows of the two kinds meet, whatever the offset and the
  late window. `DueInWindow` says what the decision function looks at, and the
  property follows from it in any state: no invariant is needed.

`ReminderRestartProofs`, from the module's assumptions only (any meetings,
windows, faults and number of restarts; the reminder state is any value of its
type): `IInv` says that what a run has in hand and what the disk holds both allow
no alert that is not paid for. `Owes` is what a state still allows to be shown,
`RunsPaidFor` charges what a crash takes away to `crashes`, and `DiskPaidFor`,
for a caller that saves first and as long as `failed` is empty, says the same of
the document without that charge: a restart replaces the state by the document,
so neither is inductive alone. `DiskFaithful` ties the call in progress to the
state it saves, `ShownBefore` and `SilencedHeld` carry the other two properties
through memory, call and disk. `NoDuplicates`, `OneRepeat`, `NothingLost` and
`DismissalIsFinal` follow.

`JsonFileProofs`, assuming `SingleWriter` (at most one writer; the run
`json_file_two_writers` shows that it is needed) and any faults:
`SInv` says where each call stands, that the file being written is private to
its writer (`TmpIsPrivate`), and what the document can be after the faults that
have occurred (`Document`). `NeverTorn`, `Survives`, `Acknowledged` and
`NoReversal` follow, and `FileImplementsRegister` maps every step to one of
`DocumentRegister` or a stutter: the rename is the commit, the open is the load,
the failed flush, rename and open are its three faults.

`GoogleSessionProofs`, from the module's assumptions only (any tokens, statuses,
timeouts, callers and pieces of a body): `IInv` adds to the four safety
properties that what has arrived is a beginning of what the server sent, the
headers before the body (`Beginning`, from which `Complete` makes a whole
response), which call waits for which request (`CallShape`), and what a successful
answer may hold (`AnswerHonest`: an access token is one that was issued, an
exchange brings a refresh token). `TokenResult` says what
`parse_token_response` makes of any response; a refresh without a refresh token
yields "", so `StaysSignedIn` needs both `AnswerHonest` and that only a signed-in
caller refreshes. That a returned body is all of its pieces follows from
`Complete`, the only step to "returned". `Whole`, `ReturnsHaveAgreement`, `RefusalsArrive` and
`SignedInStays` follow. `SpecTypeOK` needs `LimitFits`: a timeout
multiplied and converted by `to_long` fits a long of any width, and the limit libcurl
is left with is never negative.

`LoopbackServerProofs`, for any connections, calls, backlog and timeout: `IInv`
says that who has connected and was neither answered nor reset is the client or
in the backlog, and nobody else (`Unanswered`), that the backlog holds different
connections and never the client (`QueueShape`), that whoever came while
select waits is still there for accept (`Selecting`), that the page goes with the
return that is next (`AnsweredShape`), and that a request is taken for complete only
with a byte of it, or when none can follow (`ReadShape`, on which `RedirectNotLost` rests:
a read that ends too early costs the redirect). Without the first, nothing
keeps a reset of the backlog from hitting a connection that has had its page.
`TypeCorrect`, `PageIsHonest`, `NobodyMissed`, `NobodyHangs` and `RedirectKept`
follow; that another call comes for the redirect in the backlog is the caller's
part, and no theorem.

`FileLoggerProofs`, for any threads, entries and faults: `DamageIsLocal` is a
matter of counting, and not inductive, because a mishap may do its second damage
later: a line begun and never finished takes the next entry with it. `Counted`
says that the damaged entries, those without their newline included, and one
more for such a `Trap`, are at most two for each mishap. `DamageSpread` shows
that no step damages more than the writer's entry and the last one of the file,
`MishapCounted`, `WriteCounted` and `NothingCounted` keep the account, and
`BegunWell` and `EndedWell` say which texts end up alone on their lines.
`DamageStaysLocal` follows. Two more invariants stand on `IInv`: `Room` counts two texts
for an entry whose append has ended and one for a line that is begun, which
bounds the log (`TypeCorrect`), and `Absent` keeps what was thrown away out of the log and
out of every append in progress (`ThrownIsAbsent`).

`DocumentsProofs`, from `RecordsAssumption` only (any records of their types,
with lists of any length, and any number of damages): `DocumentInv` says that a
document is what its record was written as, worn (`Worn5`: at every level members
are missing, odd or worn themselves), and that no more of its top-level members
are `Touched` than it was damaged times. `Wear1` to `Wear5` show, level by level,
that damage leaves a worn value worn. For every reader a lemma says what it makes
of a worn value (`KindWorn`, `KeyWorn`, `EntryWorn`, `MeetingWorn`, ...), and
`Contained` puts them together: a field whose member is untouched is what was
saved, any other is that or its default, and in an event cache a list of the same
meetings. `RecordsSurvive` is the case of no damage; `DamageIsContained` counts
fields against touched members, of which each field has its own.

`EncodingsProofs`, from `BytesAssumption` and `PkceAssumption` (bytes are bytes;
the buffer's size is a multiple of 2^12, for never more than twelve of its bits
are still to be taken). The invariants are only that forms and inputs are made of
bytes; the work is in the operators, for inputs of any length:

* Induction is over sets of numbers (`LeastElement`, `Induction`, `UpTo`).
  `Recursion` and `Decode`, `Query` unfold the recursive functions, `FoldExists`
  and `FoldSteps` the folds, `Flatten` says where the parts of a flattened
  sequence stand.
* base64: `FedAll` says what the buffer and the characters are after each byte;
  the bits an overflow loses are above the six taken next (`LastBits`), which is
  where the buffer's size matters. `EncodesTheBits` follows. `PaddingFillsChunks`
  rests on `GrownTo`, the size at which the padding of sha256 stops.
* URLs: percent-encoded text has no separator in it (`Encoded`, `SafeBytes`), the
  decoder reads one escape back and stops at its end (`DecodeOne`), hence
  `DecodeInverts`; a query is read field by field (`QueryOne`), hence
  `QueryInverts`; and the query begins at the first '?' and ends at a fragment
  (`ParseInverts`). `RoundTrip`, `CallbackFaithful` and `UrlsSayTheRequest`
  follow; the last needs also `SplitInverts`: words joined by spaces are read as
  the same words.

Only model-checked: `CallsEnd` and `WaitEnds`, which are liveness under fairness
and beyond the prover. Every invariant and every action property of the passing
runs is a theorem.

## Not modelled

The tray shell and `ui/` (no behaviour), build files, the rounds of SHA-256 and
the random verifier, the wording of traces and logs, Windows socket start-up,
power loss (the code never syncs, so what is left of unsynced files is the
operating system's choice). Of `CurlHttpClient`, the request's headers, method
and user agent, which libcurl takes as they are. Of nlohmann::json, numbers asked
of booleans and ranges over objects. The event cache's `cached_at` is compared
with `stale_cache_tolerance` nowhere in the code yet.

## Plan

1. (done) `ReminderEngine`, `ReminderLifecycle`, their invariants and theorems.
2. (done) `DocumentRegister`, `JsonFile`, all faults, and the refinement theorem.
3. (done) `LoopbackServer`, `FileLogger`, `UrlEncoding`, `Pkce`, `Encodings`.
4. (done) `ReminderRestart` over `DocumentRegister`, and its theorems.
5. (done) `CurlHttpClient`, `GoogleSession`, `GoogleRequests`.
6. (done) `Json`, `JsonRecords`: documents with missing and odd members.
7. `AuthorizationFlow`: PKCE challenge, state, loopback server and exchange
   composed, once the code has a caller that compares the state.
8. Stale cache: `EventCache::cached_at` against `stale_cache_tolerance`, once the
   code compares them.
9. (done) The theorems of `GoogleSession`, `LoopbackServer` and `FileLogger`.
10. (done) The theorems of the documents, of base64 and the padding, and of the
    way of forms and requests through URLs.
