# A TLA+ model of kunstkammer

kunstkammer is a multi-threaded command line client for the Kaiten task tracker,
written in C++ (`src/src`). This directory holds TLA+ modules for its concurrent and
failure-prone parts, the TLC configurations that check them, and proofs that TLAPS
checks.

## The system: inventory

| Component | State | Operations | Used by | What is hard |
|---|---|---|---|---|
| Connection pool (`connection_pool`) | `_all_connections`, FIFO `_idle_connections`, `in_use` and `last_used` of each entry, `_pool_mutex`, `_pool_cv` | `get_connection`, `return_connection`, `~Pooled_connection`, `invalidate`, `close_all_connections`, `cleanup_expired_connections` | HTTP client, on many threads | waiting and waking, a bound checked before a wait, two containers that must agree, expiry at any moment |
| Rate limiter (`rate_limiter.hpp`) | two counters, three time stamps, limits, `_enabled`, `_mutex` | `wait_if_needed`, `set_limits`, `set_enabled` | HTTP client, and again directly by `modes.cpp` | sleeping with the mutex held, one clock read for three checks, window boundaries |
| HTTP client (`http_client`) | the pool, a limiter | `get`, `post`, `patch` | all API operations | a request that fails half-way, connections closed by the server |
| Card fetching (`card_operations.cpp`) | the pages collected so far, the batch of futures | `get_cards_paginated`, `get_all_cards_batched` | modes | pages fetched in parallel, joined in order; failure looks like the end |
| Offline manager (`offline_manager`) | `_operations`, `operations.json`, `_manager_mutex` | queue, mark, remove, clear, process, save, load | its tests only | crash in a save, save that fails, a mutex locked twice |
| Cache (`cache.hpp`) | five static maps with time-to-live | `get`, `put`, `clear`, `set_enabled` | `get_card`, `get_user` | entries that expire between two uses, a limit that does not limit |
| Single card and user operations | none of their own | create, update, get, tag, link; `get_all_users` | modes | an answer that does not parse counts as success |
| Command modes, backlog (`modes.cpp`, `main.cpp`) | counters of created and failed cards, what was read for the current entry | `handle_backlog`, `handle_create_card`, `handle_cards_filter`, ... | `main` | a card is created in several requests, each of which may fail |
| List readers (`modes.cpp`, `user_operations.cpp`, `board_operations.cpp`, `pagination.hpp`) | the offset, what was received so far | `handle_cards_list`, `paginate_with_offset_limit`, `get_all_users` | modes | the list changes between two pages; failure looks like the end |
| Filters (`main.cpp`, `modes.cpp`, `pagination.hpp`) | none | `parse_filters`, `apply_filters`, `Query_builder::build` | `handle_cards_filter` | later keys replace earlier ones; what does not parse is dropped |
| Data types (`card`, `card_utils`, `date`) | plain data | `from_json`, conversion of time stamps | everything | some fields have defaults, others throw; offsets across the ends of days and years |
| Errors, logging, configuration | none | formatting, I/O | everything | none that needs a model |

Interactions: a mode calls an API operation; an API operation calls `Http_client`; a
request first passes `Rate_limiter::wait_if_needed`, then takes a connection from the
pool, writes, reads, and gives the connection back when the `Pooled_connection` is
destroyed. `get_all_cards_batched` does this on up to six threads at a time, all through
one client, one pool and one limiter; this is where the parts meet under concurrency.

What makes each part correct:

* pool: a stream has one user, the pool keeps to its size, nothing it holds is lost,
  every caller gets an answer, nothing expired is handed out;
* limiter: requests keep their distance, bursts are bounded, every caller gets through;
* HTTP client: a failed request gives its connection back, every request returns;
* fetching: what is returned is the server's list in its order, without a gap, and all
  of it when nothing failed;
* offline manager: what was acknowledged survives, what was finished stays finished;
* card creation: nothing read for one entry reaches the cards of another, a card is left
  alone once its task is over, exit status and summary agree with the server;
* list readers: everything from a list that stays as it is, little missed from one that
  does not; one bad item costs its page and what follows, and nothing before it;
* filters: what was typed is what is asked for;
* data types: a field that is as it should be is shown, a time stamp is the same instant;
* a request from end to end: the server sees bounded bursts, and a reader's pages at a
  distance.

`PROJECT.json` lists the hazards line by line, with the properties that cover each.

## Modules

### Subsequences

What erasing elements leaves of a sequence, for the queue of the pool, the list of the
offline manager and the filtered list of the server (`std::remove_if` and `erase`). It
is written by rank, without recursion, and SubsequencesProofs says what it returns.

### ConnectionPool

Each critical section under `_pool_mutex` that does not block is one action. The two
places where `get_connection` blocks are visible. Waiting on `_pool_cv` is the label
`waiting`; `notify_one` moves one waiter to `notified`, and `Wake` is that thread
evaluating the predicate again. Resolving, connecting and the handshake happen with the
mutex held: `lock` is the thread that does so, and every other action needs
`lock = None`.

| Code | Model |
|---|---|
| `_all_connections`, `in_use` | `all`, `in_use` (sets of streams) |
| `_idle_connections` | `idle` (a sequence) |
| `now - last_used >= _connection_timeout` | `stale`, a set that `Expire` extends at any time and that taking or returning an entry leaves |
| `find_idle_connection` | `Take` (first match, the entries before it are dropped from the queue and stay in `all`) and `Miss` (everything is dropped) |
| `cleanup_expired_connections` | `CleanIdle`, `CleanAll`, part of each action whose code calls it |
| `create_new_connection` | `ConnectOk`, `ConnectFail` |
| `return_connection`, `~Pooled_connection` | `Return`, used by `ReturnConnection` and `DropHandle` |

`Conns` are identities of streams: one that nothing in the process refers to any more is
used again for a new connection, as an address would be. `Env` switches on what clients
and the environment may do besides: entries expire, attempts fail, waits end spuriously,
clients return explicitly, invalidate or close the pool.

### RateLimiter

`wait_if_needed` step by step, because the mutex is held through its sleeps and because
`now` is read once and used after them. `Tick` is the clock: it runs freely while a
sleeper has time left, and otherwise for at most `MaxSlack` ticks. `log` records when
requests were let through.

### HttpClient

Extends ConnectionPool by what a request does with its connection. A stream that its
peer closed or on which an exchange failed is `broken`; nothing repairs it. The handlers
catch every exception and leave the connection to the destructor, so `EndRequest` is the
same `DropHandle` for success and failure.

### RequestPath

Extends HttpClient by the limiter in front of it (an instance of RateLimiter): a request
is a call of `wait_if_needed`, `get_connection`, the exchange, and the return. Threads
share one limiter and one pool, or one thread is a page reader, which calls
`wait_if_needed` once more after each page. `wire` records when each request was written.
The steps that take no time and touch nothing another thread could see come before all
others (`Settled`): their interleavings are those of RateLimiter and HttpClient, which
check them.

### OfflineManager

`save_operations` is two steps, `OpenFile` (which truncates) and `WriteFile`, under
`_manager_mutex`. An operation is its id and its flag. `acked`, `finished` and `removed`
record what clients were told. `Env` switches on faults: the file cannot be opened for
writing or for reading, the disk is full, the process dies inside a save, clients retry.

### PagedRead, BatchedFetch

`PagedRead` says what every "get all" operation promises: what has been collected is a
prefix of the server's list, and grows until it stops. `BatchedFetch` is
`get_all_cards_batched`: `TaskEnds` completes the futures of a batch in any order,
`TakePage`, `TakeEmpty` and `TakeThrow` are the three outcomes of `futures[i].get()`, and
`EndBatch` waits for the rest, as the destructors of the futures do. It implements
`PagedRead` under a mapping that stops the read at the first exception. `matching` are the
cards that satisfy the caller's filters, which the first request alone carries.

### Filters, CardsFilter

`Filters` follows the argument of `--cards-filter` to the query: `ParseFilters` (a later
key replaces an earlier one), `ApplyFilters` with a handler for each key (`Handled`),
`Query`. A value is its text and the number at its beginning. `CardsFilter` is
`handle_cards_filter`: the server selects by the query, BatchedFetch (an instance) fetches,
and the last status decides on the exit status.

### CardJson, CardDate, Lookup

`CardJson` is `from_json` for cards and users. An answer gives each field a kind of JSON
value; a read of a field yields the value, a default, or an exception, as the function for
its type does (`ReadNumber` is `get_int64_optional` and its sisters, `ReadDate` that of
`Card_date`, `ReadPlace` those of boards and lanes, and so on). One exception throws the
card away (`Throws`). `CardDate` is `Card_date::parse` and `toIso8601` on minutes since
1970, with `timegm` and `gmtime` external; `InGreenwich` is the reference, computed on the
calendar by days and not by instants. `Lookup` is `handle_get_card` and `handle_get_user`
on top of both.

### Cache, CommandLine, CardCreation, Listing, Modes

The program runs in one mode per process. `Modes` is `main`: it extends `CardCreation`,
`Listing`, `CardsFilter` and `Lookup`, which share `mode` and `exit` (`CommandLine`), runs
the steps of the mode it was started in, and stops.

`CardCreation` is `handle_backlog` and `handle_create_card`, one action per request:

| Code | Model |
|---|---|
| the backlog file, or the arguments of create-card | `backlog`, a sequence of entries; a task is `"good"` or `"bad"` (one that makes the JSON library throw) |
| locals of `process_backlog_entry` | `read` (what the parent card said; `SprintNumber`, `WorkCode` and `ProductCode` are computed from it), `assignee`, `child` |
| `fetch_parent_card_info`, `get_card` | `ParentFromCache`, `AskForParent` (the cache misses, the server reads the card), `ParentReply` (the answer arrives and is stored) |
| `create_card_with_postprocessing` | `CardCreated` or `CardNotCreated`, then `LinkToParent`, `AddTag`, `UpdateTitle` or `KeepTitle` |
| an exception that leaves `main` | `Throw`, exit status `Terminated` |
| other people at the server | `EditParent`; `cards` and `parents` are the server's |

A create request may be refused, be carried out while its answer is lost, or have an
answer that does not parse; every other request may fail; `MaxFaults` bounds how often.
`Cache` is the class template as operators on a record, because the one instance in use
is touched by one thread. The tags that `config.json` adds to every card, sizes and types
are left out: they do not depend on anything the requests return.

`Listing` is the loop of `handle_cards_list` and that of `paginate_with_offset_limit`,
which differ in that the second counts its requests (`Capped`). A card list is sorted by
the time of the last update: `CardUpdated` brings a card to the front, `CardAppears` puts
a new one there, `CardVanishes` deletes one, at any moment between two pages. `bad` is an
item that `from_json` rejects, which leaves its whole page empty (`Parses`); users have no
field that could.

Each module has a few *mutants*, marked as such in a comment: a definition changed the
way a slip in the code would change it. Put in the place of the original each makes a
property fail, which shows that the property depends on that piece of code.

## Runs

| Run | Expected | What it shows |
|---|---|---|
| `Pool` | pass | three threads, two entries, one host; expiry and spurious wake-ups: `Exclusive`, `PoolBound`, `Accounted`, `NoLostWakeup`, and every call returns |
| `Pool_hosts` | pass | two hosts, one entry, every way to misuse a handle, failing attempts: `RightHost`, `NeverExpired` |
| `Pool_lost_wakeup` | violation | expiry followed by a failed attempt leaves a waiter asleep for ever |
| `Http` | pass | failing attempts, closed connections and expiry: `NoLeak`, answers for all, `RequestsEnd` |
| `Http_dead_stream` | violation | a dead connection is handed out again |
| `Path` | pass | limiter, pool and exchange together: `WireBurst`, `ReaderKeepsDistance` |
| `Limiter` | pass | bursts, spacing, `CountedWithinLimits`, `CallReturns`, under reconfiguration |
| `Offline` | pass | `Durable` and `NoResurrection` across two crashes outside of saves and saves that fail |
| `Offline_torn_save` | violation | a crash inside a save loses everything |
| `Offline_process` | violation | `process_pending_operations` deadlocks with itself |
| `Fetch_filter` | violation | pages after the first are not filtered |
| `Modes` | pass | creation: no leaks between entries (`OwnData`, `SettledStays`), exit status and summary (`ExitZeroMeansAllCreated`, `SummaryAddsUp`), age of parents, from the cache and from answers under way (`ParentNotStale`); lists: `ReadsAll`, `MissesFew`, `RepeatsFew`; filters: the fetch is in order, complete and ends soon (`FetchInOrder`, `FetchComplete`, `FetchBoundedWaste`), `SmallResultIsWhatWasTyped`, `ExitZeroMeansNoHole`; lookups: `ShownAsSent` (which says of a user's dates that they are not what was sent), `PrintedInstant`; every mode ends |

Bounds. Three threads on two pool entries are the smallest instance where one thread
waits while another two return, and where a woken thread can lose its entry to a
newcomer; on one entry, two waiters suffice for a wake-up to be lost. Two calls per
thread let a stream be used, returned, expire and be used again. Three requests on each of
two threads fill a minute of limit one several times over and reach the hourly limit,
which ends in the middle of a minute; settings change while at most two requests have
been let through (`BoundedNext`), and three ticks besides the sleeps put every request
before, at and behind the end of either window.
Lists of up to five pages with three tasks per batch, read without filters, put the last
page, full, short or missing, at every place of a batch, and reach a second batch. A page
has three cards (four are asked for, the API gives three), so that a filtered result of
one page can have an order. Two crashes let a restart happen on a file written
after an earlier restart. Backlogs of at most two entries and three tasks have an entry
before and one after each kind of trouble; two faults let a lost answer be followed by
another failure, and with a time-to-live of one and a clock up to two a cached parent
card is used, expires and is read again, or is used at an age that the time-to-live alone
does not allow, because its answer took a while. A list of up to seven cards, pages of two and a
cap of three requests put the end of the list before, at and behind a page's end and the
cap's; lists that change have up to six cards (`BoundedInit`), and three changes shift a
page by more than its length. With filters lists have up to seven cards: only the first
page depends on the filters, and a batch follows it that reads behind the end. An answer for a card or a user has
any one field of any kind, or two odd ones of which the second throws: fields are read one
after the other and independently, until one throws. Stamps are of the first and last days
of months, in leap years and others, at the ends of the day, with offsets of both signs,
of half hours, and of half a day and more.

In `Path` two threads share a pool of one entry, so that one waits for the other's
connection while its permission grows old; three requests each and a clock that may run
two ticks past every sleep bring four requests into a minute of limit one. The bound of
`WireBurst`, five there because the hourly limit is out of reach, is attained with four
ticks, an instance too large to run each time; the proof covers the rest. The minimum distance is on only for the page reader (`BoundedInit`), the only one a
property is claimed of.

Fairness. A woken thread is scheduled and gets the mutex; an attempt to connect ends,
by the kernel's timeout; a handle goes out of scope; a server answers or closes; started
calls run on; time passes; a mode takes its next step. `ModeEnds` needs the bound on
changes of the list: nothing in `handle_cards_list` stops a read of a list that grows as
fast as it is read. Nothing obliges a thread to make a call, and nothing obliges
the environment to cause or to avoid an expiry.

### What does not hold

Found while modelling; the first five have runs of their own.

* A waiter of a full pool can sleep for ever (`Pool_lost_wakeup`).
* A connection that has failed is used again (`Http_dead_stream`).
* A crash between truncation and write of `operations.json` loses all operations
  (`Offline_torn_save`).
* `process_pending_operations` locks a mutex it holds (`Offline_process`).
* Filters apply to the first page only (`Fetch_filter`).
* `--request-interval`, the "Minimum interval between requests" (`main.cpp:78`), holds
  between permissions and not between requests: two threads whose connections are slow
  write at the same moment. Only a page reader keeps it on the wire.
* With two hosts `PoolBound` and `GetReturns` fail: a woken caller creates an entry
  without looking at the size, and entries of the other host are dropped from the queue
  without leaving `_all_connections`. The program uses one host.
* With `explicit_return` in `Env`, `Exclusive` fails: the destructor returns the stream
  a second time.
* A minute lets through up to 2n+1 requests, not n, and up to 3n+1 when an hour ends
  within it: the end of the hour restarts the minute as well (`rate_limiter.hpp:46`), so
  that three sets of n fit into the length of one. An earlier `MinuteBurst` with 2n+1 held
  on the instance then checked; the attempt to prove it led to the case, which the
  instance now has (four requests with n = 1).
* With `disk_full`, `unreadable` or bad UTF-8, `Durable` fails the way it does for a torn
  save; with `retry`, `NoResurrection` fails because a failed `queue_operation` keeps its
  operation in memory.
* A create request whose answer does not parse leaves the id 0: link, tags and title are
  sent to card 0, and the task counts as a success. Failures of these requests never show
  in the exit status; a card may lack its parent, its tags or its title after exit status 0.
* A create request whose answer is lost counts as an error although the card exists;
  running the backlog again makes it twice. This is why `SummaryAddsUp` bounds the cards
  from above by successes and errors.
* A parent that is not a number, or a task that is not an object, terminates the process
  after part of the backlog has been created, without a summary (`Throw`).
* A cached parent card can be older than the time-to-live, by as long as its answer took:
  `put` stamps it on arrival (`cache.hpp:72`), and reads have no timeout. `ParentNotStale`
  bounds the age by both.
* A responsible who cannot be found falls back to the current user without a trace in
  the exit status; so does a list of users that broke off.
* A list request that fails looks like the end of the list; `ReadsAll` and `MissesFew`
  say nothing after a failure, and the mode exits with 0 if it has read anything at all.
* `handle_cards_list` may miss cards that were updated while it ran (the update moves them
  to the pages already read): `MissesFew` is about cards nobody touched.
* One card or board that `from_json` rejects throws its page away, and an empty page ends
  the read: the rest of the list is missing and the exit status is 0 (`ReadsAll` says what
  is still there).
* `get-card` prints an empty card, and exits with 0, when the answer does not parse or
  when a date, the external id of the board or lane, or an id in a list is of another kind
  than expected. A "type" that is an object, as the server sends it, is read
  (`card.cpp:342-345`, "for backward compatibility") and then overwritten by the empty
  string (`card.cpp:412`). The dates of users are never read (`card.cpp:112-135`):
  `get-user` prints 1970 whatever the answer says, an exception that `ShownAsSent` states.
* A filter whose number does not parse is dropped with a warning, and the fetch returns
  cards it should have excluded; of `1x` the 1 is used. Values are not URL-encoded, and a
  filter with the key `limit`, `offset` or `sort` repeats a parameter of the query.
* A filtered first page is followed by unfiltered pages at offsets counted in the
  unfiltered list (`Fetch_filter`): cards between are skipped. `SmallResultIsWhatWasTyped`
  is therefore about results that fit into one page.
* `--limit`, `--offset`, `--sort-by` and `--sort-order` are accepted and, unlike the
  repository's README says (lines 190 to 192), change no request; its default of 100 ms for
  `--request-interval` (line 186) is 500 in `main.cpp:78`.
* `queue_card_creation` and `queue_card_update` store no card data
  (`offline_manager.cpp:402`, 421).
* `--no-cache` leaves `card_number_cache` enabled (`main.cpp:158`), and the size limit of
  a cache removes expired entries only, so it does not limit its size (`Trim`).

## Proofs

Every safety invariant and every action property that a passing run checks is a theorem. A run shows it on a small instance; the theorem holds for every
value of the constants. `PROJECT.json` lists the theorems with the properties they state.

| Module | Theorems | Proved of |
|---|---|---|
| `SubsequencesProofs` | lemmas only | what `Rank` and `Subsequence` return |
| `ConnectionPoolProofs` | `TypeCorrect`, `MutualExclusion`, `OneHostBound`, `NothingIsLost`, `WakeupsSuffice`, `HandsOutTheRightHost`, `ExpiredIsNotHandedOut` | any threads, streams, hosts and pool size |
| `RateLimiterProofs` | `TypeCorrect`, `RequestsAreSpaced`, `RequestsAreCountedWithinLimits`, `BurstsAreBounded` | any threads, settings and windows |
| `RequestPathProofs` | `ClientUsesThePool`, `RequestsShareNoStream`, `RequestsLeakNothing`, `EveryRequestIsAnswered`, `PathUsesTheClient`, `TheServerSeesBoundedBursts`, `PagesKeepTheirDistance` | the client, and the client behind the limiter |
| `OfflineManagerProofs` | `TypeCorrect`, `AcknowledgedIsKept`, `SettledStaysSettled` | any threads, operations and crashes |
| `CardsFilterProofs`, `ListingProofs` | the invariants of the fetch and of the listings | any lists, page sizes, threads, caps and changes |
| `ModesProofs` | the theorems about all modes | any lists, backlogs, answers, faults and bounds |

### The arguments

*Pool.* The inductive invariant of the types is `TypeOK` with the fact that the queue
holds registered entries. `MutualExclusion` needs more: the idle queue has no duplicates
and holds only entries that are not in use, and the stream in a handle is in no other;
without the part about the queue two entries for one stream could be handed out one
after the other. `OneHostBound` holds although a woken thread creates an entry without
looking at the size, because with one host it gets there only when the predicate found
room: an idle entry would have matched. `NothingIsLost` adds that what is not in use is
queued (`FreeInv`). `WakeupsSuffice` counts: a return adds one idle entry and wakes one
thread, and a woken thread that sleeps again has found no idle entry at all.

*Limiter.* `RequestsAreSpaced` ties the program counter to the clock: past the interval
check the last request is at least the interval away, even if the check used an old
`now`. `RequestsAreCountedWithinLimits` rests on `RoomInv`: a thread that has passed a
check finds room in that window, or the window is over and is reset before the request is
counted. For `BurstsAreBounded` the log is cut into segments at the resets of the minute
counter (`SegmentInv`): the current one has at most n requests; of those before it, the
ones less than a minute older than its opening are at most n + 1, the request that opened
it included, or 2n + 1 when the end of an hour opened it. A minute opened by the hour
cannot be cut by the hour again, because a minute is not longer than an hour, so there is
never a fourth segment. `WindowInv` carries the bound to windows that have ended, to
which nothing is added.

*Client and path.* Requests refine the pool (`ClientUsesThePool`) with handles that are
scope guards, so the pool's exclusion holds without a hypothesis; `NoLeak` follows from
it. The path refines the client (`PathUsesTheClient`), and its steps are those of the
limiter, whose lemmas are used through an instance. `TheServerSeesBoundedBursts` keeps,
for each write, a place in the log (`WireInv`): what was written since and what is still
to be written was permitted after it, but for one request of each thread. In
`PagesKeepTheirDistance` the second call of `wait_if_needed` is what carries the distance
(`Apart`): its permission comes after the write, and the next one an interval later.

*Offline manager.* `AcknowledgedIsKept` says of file and memory which of them has the
acknowledged operations at each point of a save; `SettledStaysSettled` says that an id
that was completed or removed is pending nowhere, in memory, in the file or in a save
under way (`PromiseInv`), and that ids are new.

*Fetch.* `FetchInv`: what has been collected is the list up to the position behind the
last page taken (`OrderInv`), the futures of a batch are at consecutive offsets with the
pages of those offsets (`BatchInv`), and a page that is not full is the end (`EndInv`).
The refinement of `PagedRead` and the bound on wasted requests follow. For
`SmallResultsAreAsTyped` two things meet: a short first page is all there is and ends the
fetch (`SmallInv`), and of a well-formed argument every key comes into the query with what
its last piece says (`QueryOf`), so that the server selects what was meant.

*Dates.* `PrintsTheInstant` compares two ways to a date: the code's, which counts the days
to the stamp, subtracts the offset and finds the date of what is left, and the calendar's,
which goes to the next day or to the day before. A month has the days that the calendar
says (`MonthLength`), years and months grow (`YearsGrow`, `MonthsGrow`), so a day lies in
one year and one month only, and `gmtime` finds them.

*Listings.* What lies before the offset and was never touched has been received or has
moved behind a deleted card (`MissedInv`); each repetition is paid for by one change
(`RepeatedInv`). Both are counting arguments over sets of positions.

*Card creation.* `CreationInv` says of each local which entry it was read for, and of each
card which entry and task it belongs to (`CardsInv`, `ReadInv`, `PlaceInv`); `CountInv`
counts the tasks before the current one as successes and errors; `CacheInv` says
that an entry of the cache was what the card said at its time stamp less what the answer
took (`delays`), and `ReplyInv` that an answer under way is what it said when it was sent.

### Assumptions

Those named in the modules, which TLC evaluates on the instances: limits and windows are
numbers and a minute is not longer than an hour (`LimiterAssumption`,
`RequestPathAssumption`); the streams of a process are finitely many and `None` is none
of them (`PoolAssumption`); a file that is absent or torn is no list of operations
(`OfflineAssumption`); the server's list has no card twice and a page is not empty
(`FetchAssumption`, `ListingAssumption`); a backlog is a sequence of entries
(`CreationAssumption`); a filter value that is a number as a whole is found to be one
(`FilterAssumption`); the stamp of a card is a date of the calendar, with an offset of less
than a day (`LookupAssumption`).

Hypotheses of single theorems, each of which is needed:

* `MutualExclusion`: no explicit `return_connection` (the destructor would return the
  stream again). `NothingIsLost`: one host, no explicit return, no `invalidate`. The
  program itself has one host and calls neither.
* `WakeupsSuffice`, `TheServerSeesBoundedBursts`: finitely many threads, to be counted.
* `RequestsAreCountedWithinLimits`, `BurstsAreBounded`, `TheServerSeesBoundedBursts`:
  positive limits. A limit of 0 lets one request through per window.
* `AcknowledgedIsKept`: `Benign`, the environment in which a save that reports success has
  saved. TLC finds a lost operation when any of its parts is dropped.
* `SettledStaysSettled`: clients do not queue an id again after a failure.

### Only model-checked

* Liveness (`GetReturns`, `CallReturns`, `RequestsEnd`, `ModeEnds`): out of the reach of
  the prover, as is everything that needs `ENABLED`.

## Not modelled, and the plan

What is left:

`Listing` as an implementation of `PagedRead` while the list stays as it is.

Left out for good:

* `error_handler` and `api_utils` turn errors into text; no caller looks at a category and
  none retries, so that they decide nothing. `logger` wraps a library. `config` is read
  once, before a mode runs; a value of the wrong type there terminates the process.
* The values of fields: conversions copy them. `to_json` of a card is not used by any
  request. Fields inside nested objects are one kind ("odd").
* What is printed around the results (statistics, headings), and `--report`, which `main`
  accepts and does nothing about.
* What nobody calls: `paginate_with_metadata`, `handle_cards_list_simple`,
  `get_users_by_email`, `generate_cache_key`; `_last_sync`, which only statistics report.
* The unlocked `save_state` and `load_state` while other calls run, a data race on
  `std::vector` with no outcomes to enumerate; and how long a connection attempt or a
  server without timeouts may take.
