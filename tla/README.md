# Doomseeker in TLA+

Doomseeker is a server browser for Doom source ports: it asks the masters of each
engine for a list of game servers, queries every server over UDP, shows the list
with running totals, launches games, and downloads missing WADs with the Wadseeker
library. The code is C++ with Qt. Almost everything runs in the GUI thread, so what
makes it hard is not shared memory but the order of the turns of the event loop:
timers, datagrams, signals delivered from within handlers, modal dialogs that spin
their own loop, objects that disappear while they are queued.

All paths below are under `src/src/` of the repository.

## The system

| Part | Code | State it keeps | Operations | What is hard |
| --- | --- | --- | --- | --- |
| Query engine | `core/refresher` | two queues of servers, a hash of masters with a timer each, masters not asked yet, asleep or not | register a server or a master, two self-scheduling chains of queries, reading datagrams, timeouts, concluding a round | several pending single shots; servers destroyed while queued; late, lost and repeated answers; who concludes the round |
| Server objects | `core/serverapi/server.cpp` | refreshing or not, tries left, response, players, custom and LAN flags | `refreshStarts`, `sendRefreshQuery`, `refreshStops` | an answer that asks for another query when no tries are left |
| Master clients | `core/serverapi/masterclient.cpp`, `plugins/*/…masterclient.cpp` | the list, a timeout flag, a packet cache on disk | read a response, time out and read the cache instead | lists in parts; crash while the cache is written |
| Main window | `core/gui/mainwindow.cpp` | the "Get Servers" button, a round in process, the automatic refresh | start a round, be told that one ended | a button or timer that never comes back |
| Server list and totals | `core/gui/serverlist.cpp`, `core/gui/models`, `serverlistcounttracker.cpp` | one entry per address; numbers of servers, players and refreshes | register, remove, merge, pin | totals are added to and subtracted from, never recomputed |
| LAN broadcasts | `broadcastmanager.cpp`, `zandronumbroadcast.cpp` | LAN servers heard lately | detect, lose | the same server may be configured, too |
| Socket pool | `core/refresher/udpsocketpool.cpp` | sockets, each shared by a slice of the servers | acquire, release all | no socket left; released while one delivers |
| Wadseeker | `wadseeker/` | URLs and downloads per wanted file, sites to visit | search, download, install, abort | many finishing orders; every seek must end with `allDone()` |
| Updater | `core/updater` | packages downloaded and scripts for the installer | check, download, install at restart | restarts in between |
| Remote console | `zandronumrconprotocol.cpp`, `remoteconsole.cpp` | stage of the login, attempts, timers, dialogs | log in, retry, disconnect | a protocol object that outlives its window; the server's flood period |
| IP2C | `core/ip2c` | the database, a loader with a thread and an updater | load, update, fall back, look up | download, thread and fallback end in any order, the last one cleans up |
| IRC client | `core/irc`, `core/gui/irc` | chat windows by their recipients' names, a list of users for each channel, the client's own nickname, bans waiting for a host name | read a line, open and close windows, ban, disconnect | commands and lines cross on the wire; names change while they are keys |
| Joining, configuration, plugins, dialogs | `connectionhandler.cpp`, … | see `PROJECT.json` | | |

How they interact: `MainWindow::getServers()` takes the generic servers off the list,
hands what remains and the enabled masters to `Refresher`. When a master's list is
complete, `listUpdated()` makes the engine register its servers, and
`finishedQueryingMaster()` makes the window add them to the list. A server's
`begunRefreshing()` and `updated()` reach the count trackers. When the queues run
empty the engine emits `sleepingModeEnter()`, at which the window enables the button
and sets up the automatic refresh again.

What makes each part correct:

- engine: a server is refreshing exactly while the engine holds it; something is
  scheduled while it holds any; every refresh and every round ends; it sleeps only
  when idle, and the button and the signals agree with that;
- master client: a list reported complete is the master's list of one moment, each
  part once, whatever the network did; the cache never mixes two lists;
- list and totals: one entry per address; totals equal what the list shows;
- Wadseeker: every seek ends with one announcement, which says what happened; no file is
  forgotten or installed twice; an abort ends the seek;
- updates: what is installed is whole, of the configured channel, and installed once;
- remote console: a login that was begun goes on until it succeeds, fails or asks;
- IP2C: when the loader is gone the countries are known, and the right one is found;
- IRC: once everything sent has arrived, the windows, the lists of users and the
  client's own nickname are what the server has, and a window is found by its name.

## The modules

| Module | Models | Composes |
| --- | --- | --- |
| `Refresher` | the engine, the refresh part of `Server` and `MasterClient`, and `MainWindow`'s rounds | implements `RefreshService` |
| `RefreshService` | what the rest of the program relies on: everything asked for ends, and the engine sleeps only when nothing is left | |
| `RefresherProofs` | theorems about `Refresher` | |
| `ZandronumMaster` | `ZandronumMasterClient` reading a list in parts, on top of `MasterClient` and its cache | implements `ListService` |
| `ListService` | what a master client promises: parts of one round, each once, then one announcement | |
| `ZandronumMasterProofs` | theorems about `ZandronumMaster` | |
| `ServerCounts` | `ServerList`, `ServerListModel`, `BroadcastManager` and `ServerListCountTracker` | |
| `ServerCountsProofs` | theorems about `ServerCounts` | |
| `WadRetriever` | Wadseeker's downloads, with `URLProvider` | |
| `WWWSeeker` | Wadseeker's search of sites | |
| `Wadseeker` | the library: the seek, idgames, Wad Archive, the queued calls between them | `WadRetriever`, `WWWSeeker`; implements `SeekService` |
| `SeekService` | what the library promises to its user | |
| `WadseekerProofs` | theorems about `Wadseeker` | |
| `RCon`, `RConProofs` | the login of the remote console | |
| `IP2CLoader` | loading and updating the country database | |
| `IP2C`, `IP2CProofs` | the look-up in the database | |
| `Updates`, `UpdatesProofs` | `AutoUpdater`, the restart that installs, the flag in the configuration | |
| `IRCNetwork` | the other end of an IRC connection: server, people, channels | |
| `IRC` | the adapter of one network, with its windows and bans | `IRCNetwork` |
| `IRCProofs` | theorems about `IRC` | |
| `Clients` | any one of the last five, for one run | `RCon`, `IP2CLoader`, `IP2C`, `Updates`, `IRC` |
| `MCRefresher`, `MCServerCounts`, `MCWadseeker`, `MCClients` | model values for TLC | |

### Refresher

Variables have the names of the members they stand for (`unchallengedServers`,
`refreshingServers`, `registeredMasters`, `unchallengedMasters`, `bSleeping`);
`serverTicks` and `masterTicks` count the pending `QTimer::singleShot`s of
`sendServerQueries()` and `sendMasterQueries()`, `overdue` stands for the clocks of
`ServerRefreshTime`, `challengeTimers` for the masters' running timers, and
`cooling` for the servers that `CanRefreshServer` refuses for now.

Each action is one turn of the event loop with everything it calls:
`SendServerQueries` is `sendServerQueries()` with the resends of
`resendCurrentServerRefreshesIfTimeout()` and the next server;
`EndServerQueries` is the turn that finds nothing left and concludes;
`ReadFollowUp` and `ReadFinalAnswer` are a server's datagram by what
`readRefreshQueryResponse()` makes of it; `ReadMasterList`, `ReadMasterRefusal` and
`MasterTimeout` a master's; `GetServers`, `RefreshServer`, `DetectServer` and
`ModalDialog` are requests by the user, the automatic refresh and the broadcasts.
`DestroyServer` is the last reference to a server going away, which may happen
between any two turns: the holders of `ServerPtr` are not modelled one by one.

Abstractions: a queue is a set, with fairness for each server in it instead of its
order; one datagram is read in an action, while the code drains the socket (a
superset of its orders); `WAIT` and `PENDING` from a master change nothing and have
no action; an answer for a master that was registered anew and not yet asked is left
out, as its sockets were released when the last round was concluded; `quit()`, which
is followed by the destruction of the engine, is left out.

### ZandronumMaster

A datagram is a pair of the round in which the master sent it and the number of the
part. `packetsRead` is the set of the bits set in the C++ member, and `1 << n` is
modelled at its width: what it gives beyond the width is undefined in C++, and
`ShiftWraps` chooses between the two outcomes that builds produce. `copies` counts
how often a part's servers were put into the list, so that order, repetition and
mixing show without modelling addresses. The cache is the sequence of packets in the
file; a crash keeps any prefix of what was written since it was opened, and possibly
a record cut short. `cursor` is the place of `readPacketCache()`, which reads one
packet in a step. A part cut short in the network and an unwritable cache directory
are left out.

### ServerCounts

A server object comes from a master, the configuration or a broadcast; `AddressOf`
gives each an engine, host and port. An action is one event with all the signals it
emits delivered, as they are direct connections within a thread. The three stages of
what an event does to the tracker, deregistration, registration, beginning of a
refresh, are one operator each. Registering a set of servers in some order keeps one
of each address that the list has no entry for (`SetsOfNew`). Only one tracker is
modelled: those with a plugin filter see a subset of the same signals. Bots and
humans are counted as players are; `refreshedPercent()` is left out.

### Wadseeker

The objects of a seek talk in two ways. Links from idgames and Wad Archive, installed
files and critical messages are direct calls, hence part of the action that makes them.
The links that `WWWSeeker` finds, its `finished()`, and the retriever's `finished()` and
`pendingUrls()` are queued: `posted` holds them in order, and `Deliver…` is the slot.
They may be delivered when the objects have moved on, or after the seek. What the
retriever posts is decided when `startNextDownloads()` is called, by `Announced`.

`Choices` and `Extracted` are its loop over the wanted files: any file may come first,
as users and sites choose the order. They say which sets of URLs may be started (not
used, one per host, as many as there is room for) and which used URLs are dropped on
the way. A mirror's URL takes the others with it (`WithoutMirrors`). An installation is
the set of wanted files that came out of a download. `silent` marks the two ways in
which the downloads end and nobody is told; see below. `Dies` is the destructor, and
the two null pointers that end the process: a link delivered after the seek, and a seek
that has nothing to search.

Abstractions: a site is the URL that was taken for it, and its redirects are not told
apart; the three sources of sites are one set; names are compared as model values;
`startSeek()`'s refusals (directory, empty list) leave no trace and have no action.

### The other clients

`RCon` names the stages as `ConnectStage` does. The protocol is never deleted, so its
delayed steps go on when the window is closed; `dialogs` are nested event loops. Any
datagram stops the timer; `unanswered` remembers that one did which moves nothing.

`IP2CLoader` has a loader, the thread's progress (`started`, `reading`, `read`) and the
updater's reply. `isParsing` is the C++ flag, which is set by the thread itself, later
than it is started. `Destroyed` deletes the loader as `MainWindow::ip2cJobsFinished()`
does, even where the thread is about to begin or has failed unseen (`unseen`). A
download may be unpacked to anything, whole or not, or be so corrupt that the loop
which unpacks it never ends (`hung`): only the parser's thread goes on then.

`IP2C` is `lookupIP()` statement by statement, a turn of the loop in each step.

`Updates` follows the flag `bPerformUpdateOnNextRun` through memory and file, and the
packages and script on disk, from the check for updates to the updater that is started
at the next start or at exit. The process may be killed anywhere; where it is killed
while files are being removed or written one by one, `torn` remembers it. One process
runs at a time: that two overwrite each other's configuration is left out.

`IRC` is `IRCNetworkAdapter` from its connection to its end. `inbox` and `outbox` are
the two directions of the connection, lines and commands in order. An action is a line
read, with all that its handler does to the network and its windows, or a request of
the user. `chatWindows` maps a key to the name of the recipient whose window has it;
`lost` counts windows that are open and have no key. `usersArray` and `opsArray` are
the channels' lists. A ban that has fired stays connected until all lines that have
arrived are read (`deleteLater()`); while one has, only lines are read (`Reading`), and
`BansDeleted` is the return to the event loop. `misread` is a history variable, see
below. A timer reads what has
arrived, so that lines may be read after `disconnected()`.

`IRCNetwork` is not Doomseeker's code: it is what the handlers assume of a server. It
refuses nicknames that are taken, lets in or refuses, and tells the client in order of
all that happens in its channels; other people join, part, quit, change nicknames,
speak, and make and kick operators. Anyone may be made an operator by the server.

## The runs

| Run | What it asks | Instance |
| --- | --- | --- |
| `refresher_safety` | the engine's invariants, that a refresh never gains tries, and that only a refusal loses the end of a round | a custom, a LAN and a listed server, the LAN one with an empty request; two masters that may refuse; two attempts; three requests; one follow-up answer |
| `refresher_live` | every refresh ends, the button comes back, and `RefreshService` is implemented | a custom and a listed server, one attempt, two requests |
| `refresher_banned` | the button comes back when masters refuse: **no** | the same, with refusals |
| `zandronum_master` | lists and cache stay whole, every round ends, `ListService` is implemented (with it no part is read twice and each list is announced once) | three parts, three rounds, crashes, one stray datagram |
| `zandronum_many_parts` | a complete list is complete with 33 parts: **no** | one round, 32 bits |
| `server_counts` | one entry per address, and whether any step moves the numbers of servers, refreshes, players and kinds away from the list, but for the two causes that are named | an address that a master reports twice and the configuration and a broadcast report too, a LAN server with its own, pins at any moment |
| `server_counts_lost` | the number of servers is that of the list: **no** | a configured server and a LAN server at one address |
| `wadseeker` | no file forgotten, nothing waited for in vain, ends noticed, `SeekService` implemented | two files, two URLs on hosts of their own, two sites, one query at a time, one link or two mirrors on a page, two downloads |
| `wadseeker_live` | every seek ends, and an abort ends it | two files, two URLs on one host, one site |
| `wadseeker_pending` | `pendingUrls()` stops no search: **no** | the same, with calls left over from another seek |
| `clients` | logins go on, use up their attempts and end; countries are known and found, the search for them narrows, loaders have less to do with every step and end; updates are installed once and whole; windows, users and nickname agree with the IRC server | each part by itself: three attempts, two dialogs; databases of none to nine entries; two packages, two channels; one other person, two nicknames, one channel, one command under way, lines written when none is |
| `irc_bans` | a ban is for the user who was meant: **no** | two other people, three nicknames, two bans |

Bounds. Two masters make them finish in either order, time out together and be
registered while the other is asked. Three servers give one of each kind, and two of
a kind meet in the queues no differently than one of two kinds. Two attempts give a
resend and a last try; the clamps of `attemptsPerServer` are covered by the proofs,
which take any integer. Three requests are enough to register servers between the
last answer and the turn that ends a chain, and to begin a round while another is
ending. A list of three parts has a first, a middle and a last one; three rounds let
the cache of one survive into a third. An address shared by two objects of every pair of
sources, and two of one source, covers the merges of the list; one player tells a
server that counts from one that does not. The numbers may drift without bound in
`server_counts`, so a view leaves them out. Nothing is lost by that: no other variable
depends on them, and the properties compare a number before a step with the same number
after it, which is the same difference wherever the number started. The two servers of the
master are symmetric.

A server may answer PENDING again and again: each answer starts the clock anew and uses
up no attempt (`refresher.cpp:485`), and the refresh goes on as long as such answers
come. `MaxFollowUps` bounds them, and `RefreshEnds` rests on that bound: it says that a
refresh ends once a server has stopped asking for more.

Two files let one be installed while the other is downloaded, waits or is given up, and
both come out of one archive. Two URLs on hosts of their own run at once; on one host
(`wadseeker_live`) they wait for each other. Two URLs also make a mirror, a redirect to
a used URL and a link that two sources found. Two sites are one searched and one waiting.
Calls left by an earlier seek (`MaxStale`) are in `wadseeker_pending` only; the proofs
take any number. Nine entries take the search of the database down either side by four
steps; the proof takes any database. In `clients` the parts share no variable, so each
initial state chooses one: nothing is lost by not interleaving them. One other person and
two nicknames suffice for refused and exchanged nicknames, and for windows that lose
their key; a command and a line under way make them cross. The lines are written when
fewer than `MaxLines` wait, though a join brings two. With two commands (2.0 million
states), two lines (3.8 million), both but no bans (2.8 million) or a third nickname
(6.7 million) TLC finds no violation either; the proofs take any number.

Deadlock is checked wherever the system cannot stop. The engine stops when it sleeps
and the requests are used up (without dialogs), the master client when its rounds are.

Fairness. A Qt timer that was started fires, so the two chains, the resend clocks and
the masters' timers are weakly fair. The queue is first in, first out, so each server
in it is queried in the end, which is fairness for each server. Nobody has to answer,
and nobody has to ask. The master client's rounds end by the same timer, and reading
the cache is a loop. In Wadseeker the event loop delivers posted calls and fires timers,
and replies end: by `NetworkReplyTimeouter` for sites and downloads; for idgames and Wad
Archive, which have no timeout of their own, it is the network that is trusted. In
`RCon` the two timers fire, and nobody has to answer. In `IP2CLoader` the thread runs,
and replies end, again by the network alone. `IP2C`,
`Updates` and `IRC` have only safety properties.

## What is proved

TLAPS checks, for any sets of servers and masters, any answers and any bounds:

- `EngineSafe`: `EngineInv` is an invariant of `Refresher`. From it follow
  `TypeCorrect`, `NoRefreshLost` (a server is refreshing exactly while one queue holds
  it, and then a turn is scheduled), `MastersAccounted` (a master is waiting to be
  asked with a turn scheduled, or was asked and has a timer) and `SleepIsIdle`.
- `TriesRunOut`: a refresh that goes on never gains tries, which is what makes it end.
- `OnlyARefusalStrands`, `RoundsAreConcluded`: `EndIsAhead` says that "Get Servers" is
  unavailable only while the engine is awake, and that awake it has a turn scheduled or a
  master registered, which `MastersAccounted` says has a timer. No step loses this but
  the reading of a refusal; while nobody refuses it always holds. This is the half of
  `ButtonComesBack` that needs no fairness, and it names the one cause of what
  `refresher_banned` finds.
- `ImplementsService`: every behaviour of the engine is one of `RefreshService`, its
  fairness apart: asked, refreshed, listed and asleep change only as the service says.

`EngineInv` is inductive because of two conjuncts that no caller cares for.
`ChallengedTogether`: while a master waits to be asked, all do, and no timer runs;
without it `attemptTimeoutMasters()`, which takes a timer that is not running for one
that has expired, could time out a master that was never asked, and leave
`sendMasterQueries()` a master without a record. `TimeoutedAreGone`: a client that
timed out is not registered again before its flag is cleared. The proof has a lemma
for each action, and shares lemmas on what registering servers does
(`RegistrationKeeps`, `RegistrationSleeps`) and on a master that finishes
(`MasterFinishes`), since five actions do one of the two. The refinement maps
registrations to `Ask`, a master's end to `EndLists`, answers and destructions to
`EndRefreshes`, and the last turn of a chain to `Sleep`.

For `ZandronumMaster`, in three steps, as how much is right depends on the bits of
`packetsRead`:

- `RoundsNeverMix`, `TypeCorrect`: for every number of parts and every width, neither the
  list nor the cache mixes two rounds. `SourceInv` says that until the cache is read the
  list holds parts of this round, as does the file that is being written, and from then on
  parts of the file's round (`PartsHaveOneSource`), and that nothing is read after the
  cache (`ReadingIsLast`).
- `PartsComeOnce`: where every part has a bit (`EveryPartHasABit`: at most as many parts
  as bits, or a shift that wraps), no part is read twice. `NoRepeatInv` adds that a part
  in the list has its bits set.
- `ListsAreWhole`, `AnnouncesOnce`, `ImplementsListService`: where every part has a bit of
  its own (`NumPackets <= Width`), a list announced as complete is complete, a round is
  announced once, and every behaviour is one of `ListService`. This bound is not idle:
  beyond it the run `zandronum_many_parts` shows the opposite. `WholeInv` adds
  that the bits tell exactly which parts are in the list (`BitsAreParts`), that the
  client is registered exactly while it is asked and that a signal in the midst of the
  file means that nothing is missing (`Announcing`), that the list and the file agree
  (`CacheIsTheList`), and `LastPartCompletes`: what completes a list is the last
  datagram that is cached, hence what a crash tears. Without the last, a torn record could
  follow a complete list in the file, and `readPacketCache()` would announce it twice.

For `ServerCounts`, for any servers, addresses shared in any way, and any pins:

- `AddressesAreUnique`, `TypeCorrect`: the list has one entry per address (`ListInv`).
- `NumbersAreFollowed`: every step changes the numbers of servers, of refreshing servers
  and of players as it changes the list, except one, the loss of a LAN server that is not
  on the list (`LosesUnlisted`), which leaves each too low or right.
- `NumbersAreNotTooHigh`: hence nothing is ever counted twice.
- `StatusBarIsRight`: the number of servers is that of the list for ever if and only if no
  such loss ever happens; `RefreshesAreRight`: then those of refreshing servers and of
  players are, too.
- `KindsAreFollowed`, `KindsAreRight`: the numbers of each kind follow the list as well,
  except in that loss and where a listed server's flag changes (`FlagChanges`), and are
  right while neither happens.

No assumption on the servers is made, as the two exceptions are steps that the program
can take: the first comes when a LAN server has the address of a configured one, or was
pinned and taken from the list with the custom servers; the second with every pin, and
when a master lists a configured server. What the steps rest on is `SettledInv`:
`CountedAreSettled` (the servers whose players count are those on the list that are not
refreshing, which is what lets each step subtract exactly what was added) and
`UnbornAreBlank` (a new object brings no players). The proof sees every event as one swap
in a finite set: some members go, others come, and `SwapCounts` and `PlayersSwap` say what
becomes of the cardinality; `ServersFollow` and `StatesFollow` put them together for the
numbers, `EachKindFollows` for each kind.

For `Wadseeker`, for any files, URLs, hosts, sites and bounds:

- `FilesAccounted`, `WorkContinues`, `EndsAreNoticed`, `TypeCorrect`: the invariants of
  the run `wadseeker`.
- `KeepsPromise`: every behaviour is one of `SeekService`. A seek is announced to have
  ended once, no file is installed twice, and "success" means that all are there.

The inductive invariant `IInv` adds that nothing works when there is no seek
(`IdleMeansIdle`), that an aborted seek has no download, site or service left
(`AbortedIsOver`), which is what makes the last posted call its end, that open queries
and questions belong to who asks (`ServicesAsk`, `SitesAsk`), that downloads with URLs
run or are about to (`DownloadsGoOn`), and that wanted and installed files are together
those asked for as long as the seek is not aborted, and those searched for are those
wanted (`Accounts`). The proof has a lemma for each action; `AfterCleanUp` says what
`cleanUpIfAllFinished()` leaves and `GoesOn` what `startNextDownloads()` does, in which
most of the retriever's handlers end.

For `RCon`, for any number of attempts: `LoginContinues`, something is left that will
continue a login, unless the user is being asked or `unanswered`; `LoginsRunOut`, every step
of a login to which nobody attends uses up an attempt, or closes the window; and
`RConTypeCorrect`. The first two are what `LoginEnds` consists of beside the fairness of
two timers. `RConInv` says which of timer, delayed step and dialog drives which stage.

For `IP2C`, for every database of ordered disjoint ranges: `LookupIsRight`, where
`SearchInv` says that the address lies between the two ends of the search and the index
between them, and `LookupEnds`: each turn of its loop brings the ends closer or is the last,
as `ip2c.cpp:130` claims, which rests on the index being on one end only next to the other
(`IndexInside`).

For `Updates`, for any packages and channels: `InstallsOnce` and `InstallsWhole`, where
`UpdatesInv` says what the flag, in memory and on disk, implies of the files; and
`UpdatesTypeCorrect`, with which whoever confirms an update finds a package to download.

For `IP2CLoader`, which has no constants, the run is exhaustive; the proof says why it
passes. `FlagsComeBack` is `CountriesKnown`. `NoIdleLoader` and `LoadersRunOut` are what
`LoaderEnds` consists of beside fairness: a loader that is there has something to wait
for or hangs, and less to do after each step. `LoaderInv` says
that an update in progress waits, downloads or hangs (`UpdateIsPending`), that a deleted loader
leaves no thread, no reply and no lock (`GoneIsOver`), and that without a thread there are
entries or a known reason why not (`ReadIsKnown`); `JobsFinished` says it once for all
who call `ip2cJobsFinished()`.

For `IRC`, for any people, nicknames, channels and bounds:

- `WindowsKeyed`: a window's key is its recipient's name.
- `NickIsKnown`, `MembershipIsKnown`, `UsersAreKnown`: once everything sent has arrived,
  the client knows its nickname; a channel has a window exactly when the client is in
  it; and its list holds its members and, `misread` apart, its operators.
- `IRCTypeCorrect`.

While lines are under way client and server disagree, so the inductive invariant
`KnowsInv` says that the lines set right whatever is wrong. It has a sequence `b` of the
nicknames that the client will have after each line, of which the first is its own and
the last the server's; a channel that the client is not in is closed when they are read
(`ClosedAfter`); and of one that it is in, the list, changed line by line (`View`), ends
as the channel is (`Listed`). The proof has two halves: a line written extends what is
under way by what happened (`WriteInv`; `SilentInv` where the client is not told), and a
line read does to the client what `View` says (`ReadInv`).

The type invariants of all modules but `Refresher` are only proved, not run, as are
`NoPartTwice` and `AnnouncedOnce`, which `ListService` implies in the run.

Only model-checked: the liveness properties and the fairness of the refinements, which
the provers cannot do. The halves that need no fairness are proved: `QueriesScheduled` and
`TriesOnlyRunOut` of `RefreshEnds`, `MastersAreTracked` and `EndIsAhead` of
`ButtonComesBack`, `WorkGoesOn` and `EndIsNoticed` of `SeekEnds` and `AbortEnds`, and those
of `LoginEnds` and `LoaderEnds` named above. For `RoundEnds` it is `RoundsTimeOut`: a
registered master client can still time out or is in the loop over its cache
(`TimerIsLeft`), so no round waits for an answer of the master.

## What does not hold

Five runs find behaviour that the repository's own words contradict.

- `refresher_banned` (`refresher.cpp:442`): a master that answers BANNED or OLD is
  unregistered, and nobody asks whether it was the last thing to do. The engine stays
  awake and "Get Servers" disabled until something else is refreshed.
- `zandronum_many_parts` (`zandronummasterclient.cpp:168`): the bit mask has 32 bits
  and the part's number eight.
- `wadseeker_pending` (`wadseeker.cpp:806`): a queued `pendingUrls()` that is delivered
  after a link has come is taken for `finished()`, and all searches stop, also for the
  files that have no link yet.
- `server_counts_lost` (`serverlist.cpp:413`): a LAN server at the address of a
  configured one is merged into its entry and not counted, but is subtracted when its
  broadcasts cease. The status bar shows a server too few until the program ends.
- `irc_bans` (`ircdelayedoperationban.cpp:66`): a ban waits for the user's host name,
  and any answer to any WHOIS will do. Two bans, or a `/whois` typed in between, ban the
  host of somebody else; so does a second answer read before the ban is deleted.

Other behaviour that the models have, and the properties allow for by name:

- Query engine. Both the last turn of the chain and the last master conclude the round
  (`refresher.cpp:372`), so `sleepingModeEnter()` may come twice. A server registered
  between the last answer and the turn that would end the chain starts a second one
  (`refresher.cpp:308`), at twice the configured pace: `serverTicks` is then 2. A round
  that starts nothing, because all servers left were refreshed too recently, never ends
  either, and the automatic refresh stays stopped (`mainwindow.cpp:761`).
- Numbers by kind. They are off by one for good as soon as a server's custom flag changes
  while it is listed (`serverlistcontextmenu.cpp:76`, `serverlist.cpp:397`), which
  `KindsFollow` allows by `FlagChanges`, as it does the loss of an unlisted LAN server. A
  LAN server that was pinned leaves the list when the custom servers are read again, and
  is subtracted once more when its broadcasts cease: `LosesUnlisted`, too.
- Wadseeker (`silent`). `startNextDownloads()` that drops the last URLs, all used
  before, announces nothing; and a critical installation error calls `abort()`, which
  does nothing when nothing else works. In both cases the seek stays open until it is
  destroyed. A `linkFound()` delivered after the seek meets a null pointer, as does
  `startSeek()` with an invalid idgames URL and nothing else to search.
- Remote console (`unanswered`). A datagram that comes between a password and its answer
  stops the timer, and if the answer is lost nobody tries again. A step delayed by the
  flood period logs in although the window was closed meanwhile.
- IP2C (`hung`, `unseen`, `Inner`). The loop that unpacks a download
  (`ip2cupdater.cpp:139`) ends when `gzread()` returns 0, and on corrupt data it returns -1
  every time (`../dependencies/zlib/gzread.c:388`): the GUI thread never leaves
  `downloadFinished()`, though `ip2cupdater.h:117` says that "in case of failure the
  downloadedData array will be empty". A loader may be deleted while its thread is about to start,
  which `ip2cparser.h:80` calls unsafe, and a failed thread's fallback is then not tried.
  A database downloaded while a thread exists is not parsed
  (`ip2cparser.cpp:116`). The search of `lookupIP()` never looks at the first and the
  last entry of a database with more than two: their countries are never found.
- Updates (`torn`). Killed while it removes or writes an update's files, the program may
  start the updater for what is left. Quitting during a new check leaves the flag set
  and no script; the updater is then not started, and the flag is gone.
- IRC. A user who takes a nickname whose window is open takes its key
  (`ircnetworkadapter.cpp:698`): the other window is `lost`. Its tab stays, disconnecting
  does not end it, closing it takes the key from the new one, and after the network is
  deleted it keeps a pointer to it. Lines that the timer reads after `disconnected()`
  open windows again (`ircclient.cpp:81`). A mode flag without a parameter takes the
  next name (`misread`, `ircresponseparser.cpp:643`), so that an operator who is named
  after it is not recognized.

Not covered by a property, beside the hazards that `PROJECT.json` lists with a note: the
socket pool returns null when no port is free (`udpsocketpool.cpp:112`), and concluding a
round deletes sockets of which one may be delivering (`refresher.cpp:176`); a new list
that never becomes complete has overwritten the complete one in the cache
(`masterclient.cpp:207`).

## What is not modelled

`PROJECT.json` lists every component, with the reason for those left out. In short:

- The socket pool, joining a game, the Wadseeker window and the master clients of the
  other engines add no control of their own to what is modelled: one socket more or
  less, one refresh, the buttons, a list in one packet.
- Of the IRC client: PING, CTCP, notices, topics and logs, which are displayed or
  answered and keep nothing; the ignored senders; user modes other than operator and
  prefixes other than `@`; typed commands that the server answers with the lines
  modelled; and the commands sent at once after the connection.
- Configuration, path finding, plugins, text helpers and the application frame are
  sequential.
- Widgets and dialogs that only show state, parsers and unpackers of a single file or
  datagram, the command lines of games and codecs are functions of their input, within
  reach of unit tests.
- The bundled libraries (zlib, bzip2, the LZMA SDK) and the stand-alone installer are
  not Doomseeker's code. They are most of the repository's lines, widgets and parsers
  most of the rest: what is modelled is the program's control, a small share of both.
