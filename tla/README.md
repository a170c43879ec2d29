# ttyloom: models and proofs

ttyloom is a terminal client for Telegram, Discord and IRC. This directory
holds TLA+ models of the parts of it whose correctness depends on the order of
things: goroutines, channels, callbacks, servers and files. TLC checks each
model on small instances; TLAPS proves the main invariants for all of them.

Every definition that stands for code carries, in `PROJECT.json` ("map"), the
lines it is translated from. Each property has a plausible bug of the code
(an operator commented "A mutated ..." or "Mutant", before the one it replaces) that breaks it.

## 1. The system

One goroutine, the UI, owns nearly all the state: windows, chats, histories,
settings. Everything else talks to it through two channels: `u.envs` (events
of the backends, one envelope per event, with the network and the session) and
`u.events` (what the UI's own goroutines post). Each backend has a goroutine of
`Run`, goroutines of its calls, and a forwarder that copies its raw channel to
`u.envs`.

| Component | State it keeps | Operations | Hard part | What makes it correct |
|---|---|---|---|---|
| Session lifecycle (`launch.go`, `host.go`, `hub.go`, `account.go`, `ui.go`) | live backends, cancel functions, contexts, account, connection flag, chats | login, logout, disconnect, add, remove, events | goroutines that outlive their session, full channels, a slow QUIT | one backend of a network at a time; none stranded; nothing of a dead session shows |
| Hooks (`hooks.go`, `internal/hook`) | table of hooks, counters, runs in flight | a message fires processes; results; reload; test | reload while processes run | the counters are the runs in flight; the two limits hold |
| IRC client (`protocols/irc`) | members, names being read, room list, calls that wait for an answer | JOIN, PART, NAMES, CYCLE, numerics, reconnection | two locks apart, answers late or never | each call answered once; member lists and room list as on the server |
| Windows and histories (`window.go`, `ui.go`) | items, hole markers, load in flight, jump | pages, live messages, edits, receipts, jumps | pages that arrive out of order, overlaps, drops of the gateway | no double, sorted, holes told, no change lost, no load stuck |
| Cache and synchronisation (`cache.go`, `internal/cache`) | dirty chats, chain of writes, sync queue | flush, merge, drop of an account, sync | writes in the background, a crash between two | a file never shrinks, nothing of another account comes back |
| Authentication prompts (`auth.go`, `qr.go`) | the prompt shown, those that wait, the draft | ask, answer, network stops | two networks ask at once | each prompt is shown; the draft comes back |
| Lookups (`query.go`, `resolve.go`, `search.go`, `newchat.go`, `gifs.go`) | requests, networks each waits for, the query a box shows | ask several networks, gather, type on | an answer late, or a network that stops | each lookup ends, an answer acts on the last question taken |
| IRC commands, pacer, DCC (`cmd.go`, `pace.go`, `dcc.go`) | windows that asked, tokens, request slots, transfer state | ban, lists, modes, WHOIS; send, receive, acknowledge | numerics that name no request, timeouts, a cut socket | an answer goes where it was asked, bursts bounded, a file whole when it is said so |
| Telegram client (`protocols/tgc`) | breaker, peers seen, tasks that read again, slots of transfers, QR | calls, updates, uploads, downloads, login | reads that cross updates, FLOOD_WAIT, a login scanned late | calls end, the screen follows the server, nothing of a login is left |
| Discord client (`protocols/dsc`) | store of messages, list of guilds, emojis, sweep of a search, slots, token | gateway events, calls, searches, transfers, login | a store with a cap, outages, an index being built | a page is held, guilds keep their chats, no false "no result" |
| Input line (`ui.go`, `window.go`, `select.go`, `paste.go`, `clip.go`, `editor.go`, `complete.go`, `popbox.go`, `spellui.go`) | the editor, the draft of each window, the mode, the boxes that help to type | keys, window changes, results of searches, images and edits | events move the shown window or the text under a mode, a prompt, a box | no text goes where it was not typed; no draft lost; a box stands on its word |
| Media (`media.go`, `viewer.go`, `grid.go`, `mediabox.go`) | state of each media, decodings, plays, the preview, the budget of frames | download, open, play, stop, scroll | downloads and decodings that end after their line or their network | nothing loads for ever, no stump plays, frames bounded |
| Side panel (`sidebar.go`, `sidefind.go`) | sort, filter, folds, pins, tab, cursor, windows | keys, clicks, new messages, windows closed | each step works on rows another has just changed | no chat hidden, the line shown is in the frame, the window is of the tab |
| Terminal (`internal/term`) | bytes not decoded, paste, probe, who holds the tty | read, silence, Hand, back | bytes cut anywhere, late answers, a player that takes the terminal | the keys are what the user did |
| Keys of chats that change, members, other boxes | UI maps | handlers of the UI goroutine | - | see "Not modelled" |
| Drawing, images, small libraries, settings | functions of the state, files | - | - | layout and parsing: their own tests judge them |

`PROJECT.json` lists all of them with their sources and their status.

## 2. Modules

| Module | Models | Extended, or instanced, by |
|---|---|---|
| `NetLifecycle` | what the life of a network promises: off, starting, ready, closing | instanced by `NetSession` |
| `NetSession` | the goroutines and channels that implement it | `MCNetSession`, `MCNetRooms`, `NetSessionProofs` |
| `IrcRooms` | the rooms of one IRC connection, its server and its callers | `MCIrcRooms`, `MCClients`, `MCNetRooms`, `IrcRoomsProofs` |
| `IrcCommands` | the commands answered by numerics, the WHOIS, the pacer | `MCClients`, `IrcCommandsProofs` |
| `DccTransfer` | the two ends of a DCC SEND | `MCClients` |
| `TelegramClient` | the Telegram backend | `RecordClients` |
| `DiscordClient` | the Discord backend | `RecordClients` |
| `RecordClients` | those two side by side, each with its record | `MCClients`, `RecordClientsProofs` |
| `ChatWindow` | the window of one chat, its pages and its live events | `MCChatWindow`, `ChatWindowProofs` |
| `CacheStore` | the disk cache of one network: marks, chain of writes, files, sync queue | `MCCacheStore`, `CacheStoreProofs` |
| `InputLine` | the input line: drafts, modes, login prompts, late results | `MCInputLine`, `MCInputs` |
| `Typing` | Tab, the box of the @, the spelling box | `MCInputs` |
| `Terminal` | the decoder of the keys and the loop that reads the terminal | `MCInputs` |
| `HookRuns` | runs, counters and limits of the hooks | `MCHookRuns`, `MCInterface`, `HookRunsProofs` |
| `Sidebar` | the side panel, its filter and tabs, the list of windows | `MCInterface` |
| `Media` | downloads, decodings, plays, previews, memory of the frames | `MCInterface` |
| `Lookups` | what the UI asks the networks while the user goes on | `MCInterface` |

The `MC...` modules give constants their small values; each `...Proofs` module
holds the theorems of its component. `NetSessionProofs` also extends `MCNetRooms`,
and `ClientsProofs` extends `MCClients`: the constants of these two are left open
(the `.cfg` gives them their values), so that what is proved of a part is proved
of the whole that the run checks. `MCNetRooms`, `MCClients`, `MCInputs` and
`MCInterface` check several components in one run. Those share no state, so
their product would show nothing more: `part` says which one a behaviour is
about, the others stay where they start, and each part has its own actions and
fairness. The components that do interact are composed inside the modules: the
IRC client with its server and the saved configuration, a window with its
network and the sync, the cache with accounts and quits, prompts with drafts,
transfers with slots and the screen. The newer modules keep their state in one
record and translate a function of the code into an operator from a state to a
state, so that a handler composes them in the order of the code.

### NetSession

State: `netList` is the configured networks; `netCtx` stands for the three maps
`u.nets`, `u.netCancel`, `u.netCtx`, always changed together; a session is one
context of `startNet`. `run`, `raw` and `envs` are the goroutine of `Run`, the
raw channel of a backend and the channel of the UI. `self`, `conn`, `chats`,
`hubReturn` are the traces a session leaves. An event the forwarder holds
counts as the head of `raw`. The starts of `newUI` are `Login` steps.

One action per step: `Login` (`startNet`), `Disconnect`, `Logout`, `AddNetwork`,
`RemoveNetwork`, the posts of a backend, the return of `Run`, the deferred
`EvStopped`, the forwarder, and `Dispatch`, which drops an envelope of a session
that is not current. `Abstract` refines `NetLifecycle`: the four phases are
read off `netCtx`, the cancelled contexts and `self`.

Left out: a launch that fails (it leaves no trace) and `/quit` (it ends every
goroutine).

### HookRuns

`Files` is what `hooks.toml` may say. A run is `started`, a process, then a
result on its way to the UI. `running` and `sends` are `hookStat`. Time is a
number of ticks in a minute. A reload keeps the counters of the names that
stay. The sends of a hook stand in the order of time, so that those of more than
a minute are a prefix (`Younger`; the `CHOOSE` would fail on any other list).
A file that cannot be read changes nothing. Draft replies and the
filters are left out: a message fires whatever hook it may.

### IrcRooms

Calls (`Resolve`, `Leave`, `Cycle`, `Participants`) are identifiers that run
through the positions `unused`, `called`, `sending`, `ended`, because each of
them unlocks `c.mu` before it writes its line. The link is up, broken (the
writes still succeed, nobody reads) or down. The server treats the commands in
order, forwards a room to another (470), ignores a JOIN of a room we are in,
answers NAMES in one block. The rejoin of a new connection writes a copy of
the list one JOIN at a time. `saving` is a queued write, which reads the list
when it runs. `wants` records the last word of the user on a room.

Left out: room keys, private chats, changes of nick.

### ChatWindow

One chat of a network whose server keeps the history. `items` is `w.Items`:
messages and hole markers. A request is asked, reads the server later, and its
page is posted later still, behind the live events. `LiveAt` and `Started` are
compared only with each other, so an item keeps the requests that were in
flight at its last live change. (Telegram stamps `Started` inside the
goroutine: its pages are then younger than the model says, never older.)
An edit, a deletion or a reaction is one version of a message. Live events of
the time when the gateway is down are lost.

A merge is stated as the set of the places of its outcome, put in order by
`Arrange`: `<<i, 0>>` is the item `i` that was there, `<<i, m>>` a message of the
page right behind it. At the head are the older ones, at the tail the newer ones,
and each other one at its rank (`Slot`), as the appends and inserts of `Merge` and
`MergeAround` leave them. The receipt is the one of the last send made.

What a behaviour may do is a *plan*: the start of the chat, the cache, the cap
of the window and how often each deed is done. A run takes a set of plans, and
a property that needs a plan of some kind says so.

### CacheStore

`file` and `dialogs` are on the disk and survive the end of the process;
`window`, `dirty`, the chain `jobs` and the sync (`queue`, `cur`) do not. A
handler that waits for the chain (`bgWait`) is an action taken when `jobs` is
empty; a flush appends snapshots to it, and `JobDone` writes the first. A file
is written whole or not at all (`WriteAtomic`), so `kill` loses only what was
not renamed. `Merge` and `Kept` are the merges of a snapshot into the file,
with the cap of `cache_messages`. A copy of a message has the version it was
read at and the account that read it. Networks differ by `Kind`: with a history
on the server or not (then the file is the only copy), with a sync or not, with
messages before `EvReady` or not. Behaviours are plans, as in `ChatWindow`.

Left out: the format of the files and its versions, aliases, `last.toml`.

### InputLine

`ui` is what the UI goroutine keeps for the input, one record: windows in order
(`ws.List`, `ws.Cur`), drafts, the editor (`ed`; `kept` is what a browse of the
history keeps), the mode fields (`edit`, `reply`, `sendAsk`, `pasteAsk`,
`pasteIns`, `multi`) and the login prompts (`prompt`, `authPending`, `authDraft`,
`authWindow`). A function of the code that changes it is an operator from a
state to a state (`GoTo`, `CancelMode`, `Landed`, `AuthStart`, `AuthDone`...),
so that an action composes them in the order of the code. A text is the set of
the places its pieces were typed in, a place being what the prompt of the line
named (`drawInput`): what a property asks of a text is where it came from.
`late` holds the answers of searches, the clipboard image and the failed edits.
`strayed` is not in the code: it remembers that the shown window changed without
a swap of the drafts. Erasing is of the whole line; lines were sent before the
behaviour starts, so the history is never empty.

Left out: confirmations and the local search (they only take keys), commands
put back in the input, explicit query targets, completion, the full screen
viewer.

### Typing

`e.buf` is the input, `e.cur` the cursor, `e.pop` the box of the @ or of the
emojis (`u.pop`), `e.fix` the box of the spelling (`u.spellFix`), `e.tab` what
the last Tab put. A key goes to the box that is open first, as in `ui.key`, and
is followed by `popScan`. The text also changes with no key: the clipboard lands,
a chat goes, the window changes.

### Terminal

`t.tty` holds the bytes of the terminal, as atoms; a script of gestures says
what the user does, and `Sends` what the terminal makes of each. `Feed` is the
decoder, called with what one read gave and with `final` after a silence; `pc`
is the goroutine of `Start`, `hand` the loan of the terminal to mpv.

### IrcCommands

A command is a goroutine: `new`, then a token of the pacer, then its note under
`c.mu`, then its line. `asked` is the window each kind of command was given in,
`bans` the queue of masks, `whois` the slots of requests. The wire is a FIFO of
answers, lost with the connection. Time is the ticks of the pacer.

### DccTransfer

The offer goes through the server as a line, the file over a socket in blocks;
`acks` are counters of `Width` values. Deadlines of the listener and of the
socket (`TxGivesUp`, `RxGivesUp`), a cut, a reset that drops what was queued, a
name taken meanwhile.

### TelegramClient

Scenes, one per behaviour: calls behind the breaker (`until`, `warns`), peers,
updates with their tasks (a quote, a pin or my reactions read again), transfers
(`dlSem`, `ulSem`, a part file renamed), the QR login with its steps.

### DiscordClient

Scenes again: the live events with the store of arikawa (a sequence, newest
first, with a cap), pages that seed it, reactions; guilds, their list, outages
and emojis; calls; a search and its sweep; transfers; the login, the token and
its revocation. A page read goes into the store message by message, as the loop of the
code does (`dsc/ops.go:518`); the gateway treats its events between two of them (`set` counts
those that are in). Two fields say what happened, for the properties: `still`, that no message
came or went since the page was read, and `raced`, the messages of which an event crossed it.

### Sidebar

`u` is the panel: the list, what it is sorted, folded and filtered by, its
scroll, cursor and tab, and the windows with the current one. Each key, click or
event is one action; the rows are recomputed from the state as `sideRowList` does.

### Media

`s.m` maps a media to its state (`MediaNone`, loading, ready, failed), its jobs,
its decoding and frames. A job ends when it likes. `s.lru` is the order of use,
`s.asked` what was asked to open. Frames have one size: what counts is how
many fit the budget.

### Lookups

`l.calls` is what was asked and not answered; a network that stops takes its
calls away. Scenes: the names of `/query`, of the member box and of a file send;
the boxes that search as one types (`netQuery`); the pages of the media browser.
`ResolversFor` follows the choice of the networks (that of the window, of the filter when
it is up, those that claim the name, all) and `Refused` the returns of `query` that cancel
nothing. The window that `setQuery` opens beside its target is left out, and so is `UI.bind`
(`commands.go:433`), which only its test calls.

## 3. Runs

`CHECK_DEADLOCK FALSE` stands where every user, server and process may stop.

| Run | Bounds | Shows |
|---|---|---|
| `net` | 1 network, 2 launches, 2 accounts, channels of 1 (256 in the code), every kind of event but EvDisconnected; 2 rooms, one /join, one /part, one NAMES of the saved room, one lost connection, forwards | one backend at a time, none stranded, no trace of a dead session, chats of the account; member lists and saved list agree with the server when all is quiet |
| `net_live` | the sessions of `net` with one account, every kind of event | every stop ends, refinement of `NetLifecycle` |
| `clients` | 1 room, 2 /join, /cycle, NAMES, 1 loss, kicks; 5 plans of 2 or 3 IRC commands, a burst of 1; files of 1 to 5 blocks with counters of 4 values; Telegram: 2 calls, 2 ticks, 1 slot; Discord: 3 messages, a store of 3, pages of 2, 4 deeds | every call is answered, once; member lists and saved list of the rooms (`RoomsRight`); the other properties of the clients, below |
| `window` | 8 plans: chats of 3 to 8 messages, pages of 2, at most 2 requests in flight, 1 or 2 of each deed | the window properties, below |
| `cache` | 5 plans, 2 chats, 2 accounts, 2 messages, files of 2, chains of 3 writes | the cache properties, below |
| `input` | 10 plans over 2 chats of 2 networks, 2 windows each, with no bound on the keys; texts of 4 runes and 4 keys; 6 scripts of the terminal, cut anywhere | the input properties, below |
| `interface` | 2 hooks, 3 processes, 2 at once and 1 send in a minute of 1 tick; a panel of 3 lines, 4 chats, 5 windows, 2 steps from every start; 4 media, 7 steps; 2 networks, 2 windows, 2 names (claimed by one network, by both; of no chat or of a chat on each), 3 steps | counters exact and limits held; nothing hidden, nothing stuck, late answers harmless |
| `irc_left` | 1 room, one /part | violation: a room left comes back |
| `cache_clear` | 1 start, 1 message, 1 `/clear` | violation: the only copy is lost by `/clear` |
| `input_drafts` | window changes and login prompts | violation: a login loses the draft of window 0 |
| `discord_outage` | 1 guild, 4 deeds | violation: an outage drops the chats of a guild |
| `cache_account` | 1 chat, 2 accounts, 3 logins, 1 message | violation: the messages of another account are shown |

Why the bounds are enough. Two launches suffice for everything that opposes a
session to the next one; capacity 1 makes a channel full at the first event,
the only case in which a poster waits. The hooks need one more process than
the limit. A forward needs two rooms; a race of a call with the reader needs
one call of each kind. A page of two messages can overlap the window by one,
touch it, leave a hole, or be short, which are the cases `Merge` and
`MergeAround` tell apart. For the cache, two snapshots of a chat in the chain
are enough to be written in the wrong order, and a second account needs a
second login. The input line is finite by itself: what its plans bound is which
deeds meet in one behaviour, each pair of deeds that touch the same field
meeting in one of them. In the clients a second request of each kind is what
overtakes the first, a slot of 1 makes the second transfer wait, a store of
three messages evicts at the second page, and a file longer than the counter
makes it wrap. The panel is started in every state two steps could need (sorts,
folds, pins, filters, tabs), the media in none: seven steps are a download, its
decoding, a play, a stop and a stop of the network in any order. Liveness is
stated as "infinitely often at rest" (`[]<>`): requests are finitely many and a
request that is over does not begin again, so this says that each of them ends.

### Window properties and their limits

`ItemsRight` is the conjunction of the first four, `WaitsEnd` of the last two.
`NoDoubles` and `LoadingEnds` hold for every plan. Others hold under a condition
stated in the property, because without it the code does otherwise, as TLC shows
when the condition is removed:

- `InOrder` without sends: a receipt stamps a pending line where it stands,
  and a page merged meanwhile was put below it.
- `HolesOfOneJumpMarked`: `Merge` marks no hole between a cache (or what a
  window had before a drop) and a recent page of newer messages; and
  `dropFilledGaps` drops a marker when a second jump fills a part of its hole.
- `NoStalePage` without the sync: its page may be older than the one shown.
- `JumpEnds` unless the network stops: the appointment then waits for the next
  page of the chat.

Other limits met while modelling, which no run states: the page of the sync
clears `Loading` while a scroll is in flight, so that two loads of a window are
(`loadHistory` says that `Loading` stops any overlap); a page that ends at the
id just below the window gets a marker of an empty hole; a live edit of a
message not in the window yet is dropped, and its page may show the old text;
a reconnection while a page is loading does not read the recent page again;
`AddNetwork` of a network whose former backend still stops starts nothing; the
counters of a hook taken out of the file and put back start anew; a `/join`
between the lock and the line of `/part` waits until the connection ends.

### Cache properties and their limits

`HistoryRight` holds `OwnHistory` and `GoneStaysGone`.
`GoneStaysGone` (a chat dropped where the server keeps the history) and
`SyncEnds` hold for every plan. The others state what they need:

- `OwnHistory`: no kill and no failed write, no message before `EvReady` (those
  are written in the files of the account that was there before), and no session
  that stopped before its list of chats (`unlisted`; `cache_account` is what
  happens then: `Archive` keeps a `dialogs.gob` that stands alone, so the files
  of the next account keep the name of the former one).
- `NothingUnsaved` and `QuitSaves` without the sync: its page may be older than
  what the window got meanwhile. And where messages have versions, without a
  window that was closed: bound again while a write of it waits in the chain, it
  plays the file without that write, and saves the older version over it.
- `OnlyCopy` without `/clear` (`cache_clear`), kills and failed writes.

### Input properties and their limits

`AnswersRight` holds `SecretsStay`, `AnswersTyped` and `PromptsInOrder`;
`TextRight` holds `OwnText`, `EditsTyped` and `FixFits` (the spelling box);
`TextKept` holds `DraftsKept` and `TabKeeps`; `KeysRight` is of the terminal, and
`InputEnds` says that prompts and the loan of the terminal come to their end.
`SecretsStay` and `PromptsInOrder` hold for every plan. The others leave out
what TLC shows the code to do otherwise:

- `strayed` states: `goTo` during a mode swaps no draft, so the draft of the
  window reached stays hidden and the next change overwrites it, and the input a
  caption had broken off comes back in the other window; `pruneChats`,
  `RemoveNetwork` and `dropCache` drop the shown window without `landed`, so its
  text stays in window 0, or window 0 shows an empty input over its draft; a
  prompt that ends when its window is gone gives the text of that window to
  window 0.
- `AnswersTyped` without failed edits and chats that go: `edited` looks at the
  mode and at the input, not at the prompt; and `landed` loads the draft of the
  window it lands on when a chat goes behind a prompt.
- `OwnText`: in the aggregate a multi-line paste sent as the reply ends the
  reply and leaves its text; an image during an edit gives the text of the edit
  back as a message.
- `EditsTyped` without images (Enter takes the caption for the edit) and
  without a paste that waits while an edit fails.
- `DraftsKept` is about windows that are not shown: `input_drafts` is the case
  of the shown one. A hook's draft set for the window a prompt interrupted is
  overwritten when the prompt ends.

- The box of the @ may stand over another text, which its Tab then replaces:
  `popScan` runs after a key and when members arrive, never when a chat that
  goes, an image or a prompt changes the input (`popbox.go:178`).
- `KeysRight` counts a paste over the limit as lost, and one within five bytes
  of it as lost or not, as its closing marker is cut. A sequence of the terminal
  comes without a silence of 30 ms in it, the text of a paste apart: a silence in
  the opening marker of a paste, or in an answer to the probe that comes late,
  would be read as keys. `BackReads` does not
  hold: what was typed while the terminal comes back may be read by nobody
  (`term.go:138-144`).

### Client and interface properties and their limits

- `CommandsRight`: `AnswersAsked` (an answer in a window that gave a command of
  its kind, or in window 0), `WhoisOnce`, `BanOnce`, `FloodRate`. `GivenUpIsAsked`
  does not hold: a 302 with no host gives up the request at the head of the queue
  (`cmd.go:256-262`), and two bans may write their lines in the other order than
  they queued.
- `FilesWhole`: of DCC, Telegram and Discord. `SentAnySize` does not hold: the
  count of a DCC peer wraps at 4 GiB.
- `UpdatesRight`: its exceptions are in `sure` (Telegram: the answer of my own
  reaction came after a newer update) and `raced` (Discord: a message still to be announced
  when the page that holds it was read, or whose reactions changed while that page was going into
  the store or before the store held it). `BannerFollows` does not hold: the answer of the
  one read of the pins of a chat (`tgc/pin.go:36-54`) replaces the banner whole
  (`internal/ui/pin.go:23`), that of a pin that came live in between too.
- `PageHeld`: of a page apart from what the store held, with room for it. A message that
  comes between two of a page is newer than the rest of it, and the store, which only
  adds at its two ends, refuses that rest: what the comment at `dsc/ops.go:513` says of the order
  is right while nothing comes in (`still`).
- `GuildsKept`: unless the list of chats was read during an outage; that is
  `discord_outage`.
- `RoomsAnswered` is checked without a /part: a /join between the lock and the
  line of /part waits until the connection ends.
- `MediaRight`: `LoadingRuns`, `NoStump`, `OpensAsked`, `FramesBounded`.
  `WaitedForComes` does not hold: `clearNetWork` (`account.go:29`) resets only the
  media of messages, so a larger variant whose download died with its network
  stays "already running" (`media.go:842`).
- `AnswersHonest`: "no result" means a whole answer of every place, but for a sweep whose
  15 seconds end between two requests: the loop breaks with no error
  (`dsc/search.go:202-208`), and "no result" then speaks of the places asked only. The
  comment at line 142 says it ("ends the sweep with what it has"); the user is not told. A
  budget spent within a request is an error.
- `LookupsRight`: `AnswersComing`, `OnePending`, `AnswersLast`, `MediaInOrder`. A `/query` that
  is refused (several chats of that name, `query.go:60`; a `/join` that several networks
  claim, line 68) does not cancel the one before, whose answer still sets the target: the
  target is that of the last `/query` that was not refused. `HitsOfEach` does
  not hold: a global search closed and opened again with the same text takes the
  answers of both (`search.go:477`).
- `RemovedHasNoChat` does not hold: `RemoveNetwork` drops the chats at once
  (`host.go:95`), and an event still queued brings one back, though its doc says
  "the network stops, its chats and windows go, and the list forgets it".

### Fairness

Users, servers' initiatives, losses and kicks are free everywhere.

- `net_live`: the UI drains its channel; `Run` returns once its context is cancelled
  (IRC closes its socket after two seconds, Discord waits on the context); a
  goroutine blocked on a channel is served in turn, so the post of `EvStopped`
  is strongly fair.
- `clients`: goroutines run, callbacks run, servers answer the commands they got,
  timers and deadlines fall (the ticks of the WHOIS, the deadlines of DCC
  sockets, the stall of a download).
- `window`: requests are answered, with a page or an error; the UI drains.
- `cache`: the writes of the chain end, the steps of the sync are answered (its
  timeout is an error) and its tick comes.
- `input`: the user answers the login that is asked; the goroutine of the
  terminal goes on, bytes sent arrive, and the owner of a lent terminal takes it.
- `interface`: the timeout ends each hook and the UI drains; answers come and the
  timer of a search box falls.

## 4. Proofs

All proofs are checked by tlapm for every value of the constants.

| Theorem | Says | Along |
|---|---|---|
| `NetSessionProofs!TypeCorrect`, `OneBackendAlways`, `NeverStrandedAlways`, `DeadIsDeadAlways` | invariants of run `net` | `IInv`: every launch is followed to its `EvStopped` |
| `NetSessionProofs!ChatsOfAccountAlways` | the chats are of the account that is known | `AccountInv`: `EvReady` is ahead of what is said as an account |
| `NetSessionProofs!LifecycleImplemented` | the goroutines implement the safety part of `NetLifecycle` | each step is a step of the phases or leaves them |
| `HookRunsProofs!RunsCountedAlways`, `AtMostMaxRunsAlways` | counters exact, limit of the processes | the counter is the number of runs in flight, whatever the file |
| `HookRunsProofs!SendRateAlways` | limit of the sends in a minute | `SendInv`: the history of a hook is its list without the old prefix |
| `IrcRoomsProofs!RoomsTyped`, `AnsweredOnceAlways` | types, and an answer at most | a call waits in the list of its own room or was answered, never both |
| `IrcRoomsProofs!RoomsRightAlways` | member lists and saved list are right when all is quiet | `ListInv`: the lists are the server's, less what the wire still tells |
| `IrcCommandsProofs!CommandsTyped`, `FloodRateAlways`, `OutcomesOnceAlways`, `AnswersAskedAlways` | the four parts of `CommandsRight` | `FloodInv`, `OutcomeInv`, `AskedInv` |
| `NetSessionProofs!RoomListsAlways` | the rooms, set beside the sessions | `RoomsRightAlways`, the step of a part being a step of its module |
| `ClientsProofs!CommandsRightAlways` | the commands, set beside the other clients | the four theorems above |
| `ClientsProofs!DccFilesWhole`, `ClientFilesWhole` | a file is whole where a transfer says so | `DccInv`: a counter on its way back is one of received blocks; `FilesInv`: the temporary files are those of the running downloads |
| `ClientsProofs!LoginsRightAlways` | nothing of a login is left | `TgLoginInv`, `DsLoginInv` |
| `ClientsProofs!GuildsKeptAlways` | a guild keeps its chats and emojis | `DsGuildInv`: what each list under way will say |
| `ClientsProofs!AnswersHonestAlways` | one answer a call, no false "no result" | `DsCallsInv`, `DsSearchInv`: whole answers and errors add up to what was asked, place after place |
| `ClientsProofs!UpdatesRightAlways` | the screen shows the server when all is quiet | `TgUpdatesInv`, `DsLiveInv`: what the updates still tell, and who holds a copy |
| `ClientsProofs!PageHeldAlways` | a page goes whole into the store | `Seeding`: what is in is an end of the store |
| `ClientsProofs!BreakerHoldsAlways` | the breaker of Telegram and its peers | `TgBreakerInv`, step by step |
| `ChatWindowProofs!NoDoublesAlways`, `NoStalePageAlways` | a message shows once; no page takes a live change back | `WindowInv`: versions between the window, the pages and the channel |
| `ChatWindowProofs!InOrderAlways` | without sends, the order of the ids | `OrderInv`: a live message is above all that is before it |
| `CacheStoreProofs!CacheTyped`, `HistoryRightAlways` | types; history of the account alone; what is gone stays gone | `GoneInv`, `OwnInv` |
| `CacheStoreProofs!NothingUnsavedAlways`, `QuitSavesAlways`, `OnlyCopyAlways` | no change lost between window and file | `SavedInv`; the two others are properties of steps |

**Sessions.** `OneBackend` is not inductive: a second backend could start beside
one that still runs but is no longer in `netCtx`. The invariant adds that a
session alive is the one in `netCtx` of its network, which needs in turn that an
`EvStopped` in the channel is the only one of its session and that its `Run`
is over; `NeverStranded` is the converse. `ChatsOfAccount` depends on the order of
two channels: for a current session whose account the UI has not heard yet, every
event that makes a chat comes behind the `EvReady`, in `raw` and then in `envs`
(`ReadyFirst`), and a session that was not launched says nothing (`Unheard`). Events
of older sessions are dropped by `Dispatch`.

**Hooks.** A run in flight has a name whose counter counts it unless it is a test
or was started before its table left the file. For the sends, the list of a hook
is in the order of time, and the sends the model remembers (`sent`) are that list
without its old prefix, whether `hookSend` has cut it yet or not; so the length the
code compares is the number of sends in the last minute.

**Rooms.** Positions of calls and the lists of `joining` are tied room by room.
`ListInv` reads the wire: while the link is up the last JOIN, PART or KICK of a room
on its way to the client tells whether the server has us in it (`TurnsRight`), a
line about others with none of those behind it says that we are (`MovesRight`), and the
last line that settles whether a person is there is right (`TellsRight`); where the
wire says nothing, the lists of the client already say it (`HeldRight`), unless a
/part dropped the room and its PART is not treated (`Leaving`). A line treated takes one of these facts from the
wire to the list, one the server writes makes the last of them. The end of a
connection empties the wire and `resetConn` the lists.

**Commands.** `FloodRate` counts lines: a token below zero has its caller, which
took it and still waits (`Owing`, `due`), so that the lines let out are the tokens
taken less those owed; that count is an injection from the tokens to the callers. A WHOIS or a ban has one outcome because the slot or
the place in the queue that lets it end is taken away in the same locked section
(`SlotInv`, `QueueInv`). An answer goes to a window that some command, written on the
same connection, was given in (`Backed`). All have the hypothesis `PlansAssumption`
(a plan is a finite list of commands of known kinds).

**DCC.** Each counter on its way back is the number, modulo the width, of bytes
received at some moment, so that with a file below the width the last one expected
says the file is whole. Hypothesis: `SizesAssumption`. This one and `PlansAssumption`,
on modules that are instanced, are the `ASSUME` of `MCClients`.

**Telegram and Discord.** Their state is one record, which a handler passes through
operators. The lemmas on records come first: what `With` puts in a field is read back,
and `Only(fields, p, q)` says that `q` differs from `p` in those fields at most, so that
an action is followed by the fields it touches and each part of the invariant is kept
by all the actions that do not touch its fields. `RecordsInv` (`RecordClientsProofs`) has these
parts. `FilesInv`, of both clients, counts: the temporary files are as many as the
running downloads that wrote one, each transfer has its own number, and a
pasted image that is gone is the one of an upload that ended "sent"; without the
count, "no temporary file is left" is not inductive. `TgLoginInv` follows the QR goroutine
beside the login: past the QR it has been told to stop, so a token that comes late draws
nothing. `DsLoginInv` ties the reason of the end of a run to the token file. `DsGuildInv`
says of each list of chats under way that it names the guild, does not wipe what it
did not name, or was told too little (`missed`, an incomplete READY), and that the emojis it
built are those of the guild but for a change since (`crossed`). `DsSearchInv` says that
the whole answers and the errors add up to the places asked, so that "none" (no error)
is all of them, and that these are the places up to the present one (`QCounted`): a sweep ends
at its last place, or on a spent budget. `DsCallsInv` counts the answers.

`UpdatesRight` speaks of quiet moments only; its invariant says at all moments what is still
to come. Of Telegram (`TgUpdatesInv`): the last update on its way about a version, or about
the reactions, says what the server holds (`LastSays`), and where none is on its way the screen shows it
already (`ShownRight`). The reads of a quote are numbered; a read of the newest number that
found its quote has shown it or is about to (`FillRight`), and only that one may post, which needs
that no two reads have one number. Of Discord (`DsLiveInv`): each copy of a message, in the
store, in a page on its way or on the screen, has the reactions of the server but for the
events still to be treated about it, person by person (`EndsRight`, `ListFine`); a message whose
creation is still to be treated is neither in the store nor in a page, unless that page was read first
(`raced`). With nothing on its way, each copy is that of the server. `PageHeld` needs what the loop
knows at each turn (`Seeding`): the messages already in are held, those left are all beyond the
end of the store where they go, and there is room for them.

`ClientsProofs` brings these to the
run: a step of the whole is a step, or a stutter, of each part (`PartsStep`). Hypotheses:
a wait and the sizes of the store and of a page are naturals, and `None` is none of the
states named in the code (`RecordClientsAssumption`).

**Windows.** The lemmas on `Arrange` say what a set of places becomes, once: the k-th
place exists for each k, what it holds was there or is of the page, and it is in order
when the places are. From these come the facts about `Merge` and `MergeAround`: one item
a message, nothing that neither the window nor the page had, and an ordered window
stays so. `NoStalePage` is about versions, which only grow on the server: no item and
no page is ahead of it (`PastRight`), and an edit in the channel is not older than an
item, an edit or a page before it (`EditsLater`). Without the sync one page at a time
is on its way (`OneLoad`, which `Loading` gives), and an item that this page would take
back remembers its request in `newer` (`Guarded`): the live edit stamped it while the
request was in flight. With the sync two pages can cross, and the code
lets the older one win. For `InOrder`, a live message in the channel is above all that the window
holds and all that the events before it bring (`Order`), so appending it is right;
the pages behind it find their rank themselves.

**Cache.** The same induction is used three times, as one lemma over a set `Q` of
copies (`Contents(Q)`: all the copies in the windows, the files and the writes are
of `Q`): for all copies (types), for those of one account (`OwnHistory`), for those of
the first version (a network without versions). `OwnInv` says, at each moment,
whose the files are (`Whose`): the account of the session, or the one known last,
or the one the files were read as; and that the account is named in `dialogs`, or in
a write that waits, where the next start looks for it (`Named`). `Alone` are the conditions of
the property. `GoneInv` says what could still write a chat that is gone: nothing.
`NothingUnsaved` is not inductive, since a write may be followed in the chain by an
older one: `SavedInv` asks for a write that only newer or equal ones follow
(`Coming`), up to the file. `QuitSaves` is that invariant where the chain is empty and
nothing is marked. `OnlyCopy` is proved step by step: each says which messages
stay known (`StaysKnown`), a write moving them from the chain to the file.

The assumptions of the proofs are those of the modules (`...Assumption`):
nonempty capacities, disjoint kinds of calls, `None` outside the sets.

Model-checked only: liveness (`StopEnds`, `RoomsAnswered`, `CallsEnd`, `WaitsEnd`,
`SyncEnds`, `InputEnds`: outside the prover's reach); of `ChatWindow`, the tags of the
requests in `TypeOK` and `HolesOfOneJumpMarked`; the properties of `InputLine`, `Typing`
and `Terminal`, which rest on folds, recursive functions or `SelectSeq`, whose facts need
induction over data; and those of `Sidebar`, `Media` and `Lookups`.

## 5. Not modelled, and the plan

Next are proofs about `Media` and `Lookups`, whose states are records of sets and
functions, as those of the clients.

Not modelled: chats that change their key (`rekey.go`: one handler that moves the
entries of each map, and merges two chats whose titles come to fold to one key; read
while modelling, and not checked: a duplicate window goes by `ws.CloseAt` alone, so
that, unlike a window closed by `closeWindow` and `landed`, its draft or the input
being typed in it is not put away with it), the fetch of member lists and who is present (`parts.go`,
`who.go`), read marks, the aggregate window, forms, menus, help, pager, settings
and the small files they write on the UI goroutine, the emoji picker. Layout,
text, colours, images, formatting of messages, markdown, spell checking by itself
and release scripts are functions of their input, with tests of their own. The
Telegram and Discord libraries are seen only as the code uses them.
