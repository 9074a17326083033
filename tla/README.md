# TheNews in TLA+

TheNews is an iOS application that lists the stories of RSS feeds. The repository holds the
application itself (`src/TheNews/TheNews`, about 1,200 lines of Swift) and, vendored under
`src/TheNews/Pods`, the Realm database it links: the object store (C++), its Objective-C and
Swift bindings, and the headers of the binary storage engine.

This directory specifies the application completely and, of Realm, the parts that are concurrent or
intricate by nature: the delivery of change notifications from the commit to the callback, the sync
sessions with the threads that open, close and lose them, and the index sets and change builders
that say what changed. TLC checks every module on small instances; TLAPS proves the main properties
of the application, of the notifiers and of the sync sessions for every value of the constants.

## 1. Inventory

### The application

| Component | State | Operations | Talks to |
|---|---|---|---|
| News list (`NewsFeedViewController`, `NewsFeedViewModel`) | `viewModel.newsItem`, `viewModel.currentSource`, `refreshControl`, the rows of the table | `viewDidLoad`, `viewWillAppear`, `updateTableView`, `refresh`, `didSelectRowAt`, `updateSource`, the closure of a load | starts a `NewsParser` per load; is called back through `OperationQueue.main`; pushes the news page |
| Feed parser (`NewsParser`) | `rssItems`, `currentElement`, the three fields of the item, the completion handler | `parseFeed`, the closure of the data task, the `XMLParserDelegate` handlers | `URLSession`, `XMLParser`; the news list's closure |
| Read marks (`RealmManager`, `NewsModel`) | `isReading` of an entry | `makeItRead` (the others have no caller) | Realm, for its write transaction only: no object is ever added |
| Source list (`SourceViewController`, `SourceViewModel`, the alert) | `sources`, `currentSource`, the rows, the label, the texts in the alert, `delegate` | `viewDidLoad`, `viewWillAppear`, add, edit, save, cancel, delete, select | `UserDefaultManager`; the news list through `SourceDelegate` |
| Source store (`UserDefaultManager`) | two arrays in `UserDefaults` | `saveSources`, `getSources...`, `clearUserData` | outlives the process |
| Application shell (`SceneDelegate`, `MainTabBarController`) | the two tabs | start of the process, change of tab | builds both screens |
| News page, cells, formatters, layout | none that matters | | |

What is hard here:

* **A load crosses three queues.** `updateTableView` starts it on the main thread, the request is
  answered and parsed in the background, the closure runs later in the main queue. In between the
  user taps, pulls and changes tabs. Nothing but the spinner (`UIRefreshControl` sends no event
  while it refreshes) keeps a second load from starting.
* **A load may end in silence**: no data, a document that is not well-formed, an empty feed.
* **The table is a copy.** It shows the rows it read when it was last reloaded, and its row numbers
  index the list as it is now.
* **The process ends at any time.** The list and the read marks live in memory, the sources in
  `UserDefaults`, written in one handler and cleared in another.
* **The SAX interface** cuts text anywhere and reports white space between elements while
  `currentElement` still names the last one.

What makes the components correct:

* News list: loads never overlap; a row is the entry with the same index; entries never move and
  never become unread; a load that is answered stops the spinner.
* Feed parser: the items are the document's, word by word, each in its own field; the handler is
  called once and for whole documents.
* Source list and store: what is stored is what is on screen, through restarts; one current source;
  rows index the list; only validated texts are listed.
* Shell: a source that is selected is loaded (the code does not do this: only the default one ever is); neither
  screen disturbs the other.

### Realm (vendored)

| Component | State | Operations | Talks to |
|---|---|---|---|
| `CollectionNotifier` | `m_callbacks`, `m_callback_index`, `m_callback_count`, accumulated changes and changes to deliver per callback | `add_callback`, `remove_callback`, `suppress_next_notification`, `add_changes`, `package_for_delivery`, `before_advance`, `after_advance`, `deliver_error` | user code; the coordinator |
| `RealmCoordinator`, `NotifierPackage`, `transact_log_handler` | notifiers old and new, the worker's read transactions, the version to skip | `register_notifier`, `commit_write`, `run_async_notifiers`, `advance_to_ready`, `advance_to_latest`, `promote_to_write`, `process_available_async` | notifiers, Realms, the commit helper |
| `IndexSet`, `ChunkedRangeVector` | ranges in chunks, each chunk with its begin, end and count | `add`, `add_shifted`, `add_shifted_by`, `insert_at`, `shift_for_insert_at`, `erase_at`, `erase_or_unshift`, `remove`, queries | the change builder, `Results`, notifiers |
| `CollectionChangeBuilder` | deletions, insertions, modifications, moves, the map of moved rows | the log handlers (`insert`, `erase`, `clear`, `move`, `move_over`, `swap`, `parse_complete`), `merge`, `calculate`, `finalize` | `transact_log_handler`, the coordinator, `ResultsNotifier` |
| `Realm` (`shared_realm.cpp`), `Results`, `List`, `Object` | the read or write transaction | begin, commit, cancel, refresh, notify | the coordinator |
| `SyncSession` | `m_state` (waiting, active, dying, inactive), `m_session`, callbacks waiting for completion, number of deaths, deferred commit and close | `revive_if_needed`, `close`, `log_out`, `handle_error`, `refresh_access_token`, `wait_for_*`, `nonsync_transact_notify`, `unregister` | the sync client (binary) and its event loop, the user, the manager |
| `SyncManager`, `SyncUser`, the token handle of the binding | the table of sessions by path; log in, the sessions that run and that wait for a log in; the handle of the path | `get_session`, `unregister_session`; `log_in`, `log_out`, `invalidate`, `register_session`; the answers of the server | the sessions; each has a mutex of its own |
| `AsyncOpenTask`, partial sync, `WorkQueue` | a queue of functions and a thread that comes and goes | `enqueue`, the destructor | subscriptions |
| Schema, migration | table layout | compare, create, migrate | storage engine |
| Files, metadata, key chain, reachability | operating system | | |

What is hard here:

* **Notifications.** User code runs in the middle of a loop over the callbacks and may change them;
  the worker merges new changes while older ones are delivered; a version may have to be skipped for
  one callback and not for another; errors take the place of deliveries; a write waits for the worker
  while it holds the write lock; another process commits first and tells of it later.
* **Sync sessions.** Every transition runs under `m_state_mutex`, but what it decides is done after the
  mutex is released: the token is asked for, the session is taken out of the manager's table (by path,
  not by object), the callbacks are called. `handle_error` looks at the state in one section and
  acts in another. Five different events answer the callbacks that wait. A session that dies may be
  revived and die again before the handler of the first death runs. `log_out` of the user takes
  the user's mutex and then the manager's, `get_session` the other way round.
* **Index sets.** A chunk splits when it is full, and what is cached of both halves is computed by hand;
  operations on two sets walk both at once and shift one by what has been taken of the other.
* **Change builder.** Deletions are positions in the old rows, the rest are positions in the new ones, and
  every operation keeps all of them; two transactions are merged by shifting each set by sets of
  the other, in an order that matters.

What makes the components correct:

* Notifications: a callback hears of every change once, and of none before the Realm shows it;
  the loop over the callbacks reaches each packaged one that is still there (the code loses some, see `CallbackCount`); the worker's read
  transactions are held exactly as long as somebody needs them and never go backwards; nobody waits
  for ever.
* Sync sessions: a completion callback is called once at most; one that waits in a running session has an
  operation at the client that will answer it; a running session has a client session and an inactive one
  none; a session that the application holds is the one the manager gives out; a session that dies uploads
  everything it knew first; no assertion fails.
* Index sets: an index set is a set, with the order and the bounds of its ranges and chunks as they should be.
* Change builder: the changes, merged or not, turn the old rows into the new ones; a move is the move of
  a row; the modifications are exactly the rows that were set.

## 2. Modules

| Module | Models | Against |
|---|---|---|
| `NewsFeed` | the list screen and its loads | `NewsFeedViewController.swift`, `NewsFeedViewModel.swift`, `RealmManager.makeItRead` |
| `Sources` | the source screen, its alert, the store | `SourceViewController.swift`, `SourceViewModel.swift`, `UserDefaultManager.swift`, `UIAlertController.swift` |
| `TheNews` | both screens in one process | `MainTabBarController.swift`, `SceneDelegate.swift` |
| `NewsParse` | one load inside: the parser and the document | `NewsParse.swift` |
| `NotifierCallbacks` | the callbacks of one notifier | `collection_notifier.cpp`, `collection_notifier.hpp` |
| `NotifierPipeline` | a commit on its way to the callbacks: coordinator, worker, Realms | `realm_coordinator.cpp`, `shared_realm.cpp`, `transact_log_handler.cpp`, `collection_notifier.cpp`, `results_notifier.cpp` |
| `SyncSession` | the sync sessions of one file and one user, the table, the log in, the token handle | `sync_session.cpp`, `sync_manager.cpp`, `sync_user.cpp`, `RLMSyncSessionRefreshHandle.mm` |
| `IndexSets` | what the operations of `IndexSet` promise, on plain sets | `index_set.cpp`, `index_set.hpp` |
| `AbstractIndexSet` | the specification of an index set: a set, and the calls on it | same |
| `IndexSet` | ranges in chunks with cached bounds and counts | `index_set.cpp`, `index_set.hpp` |
| `ChangeBuilder` | what changed in a collection | `collection_change_builder.cpp`, `transact_log_handler.cpp`, `realm_coordinator.cpp`, `results_notifier.cpp` |
| `MCTheNews`, `MCNewsParse`, `MCNotifierPipeline`, `MCSyncSession`, `MCIndexSet`, `MCChangeBuilder` | constants for TLC | |
| `SeqLemmas` and the modules `..._proofs` | proofs | |

How the modules compose: `TheNews` extends `NewsFeed` and `Sources`, joins their tab, their starts and their urls, and says
which of their actions happen together (`AppSpec`), so that its run checks both screens in one process.
`NewsParse` opens up what `NewsFeed` calls `Answer` (the document arrives
whole) and `Fail` (it ends in silence). `NotifierPipeline` treats the changes as sets of versions and a
notifier as one callback; `ChangeBuilder` and `NotifierCallbacks` open those two up. `IndexSet` implements
`AbstractIndexSet`, which is made of the operators of `IndexSets`; `ChangeBuilder` computes with the same
operators. What it shows holds of the chunks as long as their counts are right, which a rebuild by
`add_shifted_by` may end (`IndexSetVerify`).

### NewsFeed

The state is that of the view controller plus the two places a load can be in: `loads` (data tasks)
and `mainQueue` (closures posted with `OperationQueue.main.addOperation`). `feedTable` is what the
table read the last time. Each handler is an action: `PullToRefresh` (`refresh`), `LoadCompleted` (the
closure of lines 66-76, in its order: reload, then append, then stop the spinner if there was an
item), `OpenRow` (`didSelectRowAt` with `makeItRead` and `reloadData`), `Back` and `SwitchTab`
(`viewWillAppear`), `Relaunch` (a new process). `Answer`, `Fail` and `Publish` are the world outside.
A story is a source and a date; a feed is its stories, newest first.

### Sources

`saved` is the dictionary in `UserDefaults`: nothing, or the two arrays. The texts are opaque;
`isValidTitle` and `isValidURL` are sets of accepted texts. `Save` is the handler of the alert's
action with everything it calls, `Delete` and `Select` are the table's. `Restart` drops everything but
`saved`; `Appear` is `viewDidLoad` (once per process) and `viewWillAppear`. `SourcesSpec` is the screen alone; TLC
checks it as part of `TheNews`.

### TheNews

The handlers of the two screens interleave in one process: a load may be answered while the user types a
source, the process may end anywhere. The screens are meant to interact at one place: `SaveSource` and `SelectSource`
tell the delegate, and `TellDelegate` is what `delegate?.updateSource(source:)` does, for a delegate or none.
The only assignment of the delegate is in `prepare(for:sender:)`, which UIKit calls for storyboard segues, and the
screens are built in code. `OnlyDefaultIsLoaded` says what this comes to: README:16 of the repository promises that a
source can be selected, and nothing the user does has another source than the default loaded.

### NewsParse

The parser is modelled with a generator of documents: an RSS channel with leaves and items, text in
pieces, white space between elements. The properties compare what the handlers collect with the
document itself (`inItems`), which is kept beside it.

### NotifierCallbacks

One notifier, its thread, the worker and any other thread that removes callbacks. `held` says whether
the loop has `m_callback_mutex`; all other operations need it free, so they interleave with the loop
exactly where the code unlocks. `size_t` is modelled by integers of which the negative ones stand for
their value modulo 2^64 (`npos`, here `noIndex`, is -1). Change sets are sets of version numbers, so that a loss or a
double delivery shows.

Any callback may be removed at any time, also one that was added after the package was made. `remove_callback` then
decrements `m_callback_count`, in which that callback never was. The history variables say what follows: `uncounted`
is how many such callbacks were removed in this delivery, and the count is too low by just that
(`CountLacksUncounted`). The loop ends that many callbacks early at most (`missed`, `MissedForRemoved`), and what
these were to hear is overwritten by the next package; everything else arrives once (`NoChangeIsLost`). If more of
them are removed than packaged ones are left the count wraps (`Wrapped`), and only then does the loop run past the
packaged callbacks or the end of `m_callbacks` (`CalledOnce`, `LoopStaysInside`), where the model stops. The
header's own words about the count are the property of the run `CallbackCount`, which fails.

### NotifierPipeline

`NotifierCallbacks` looks into one notifier; `NotifierPipeline` looks at the notifiers of a file and the
threads around them.

* *The file.* `latest` is its latest version, `writer` the Realm that holds the write lock. Every commit
  changes the table of every Results, and a change set is the set of the versions whose changes it
  holds, so that a lost, doubled or early change shows as a wrong set.
* *The worker* (`on_change`). One action per stretch between two operations on `m_notifier_mutex`:
  `StartRun` (choose the version, take the version to skip, move the new notifiers over), `RunToSkip`
  and `HandoverSkipped` if there is a version to skip, `RunToVersion`, `Handover`, `SignalRealms`.
  `work` holds its local variables, `helper` and `advancer` the versions its two read transactions hold.
* *The thread of a Realm.* `at` says where it is. `Notify` is a turn of the run loop (`Realm::notify`
  with `advance_to_ready` or `process_available_async` up to the package), `StartRefresh` and `BeginWrite`
  are the beginnings of `Realm::refresh` and `begin_transaction`, both of which then wait in
  `package_and_wait` until `EndWait`; `Deliver` and `Promote` advance the Realm and call the callbacks.
  A write ends with `CancelTransaction` or, after an optional `SuppressNext`, with `CommitWrite` (to the
  end of the lock) and `NotifyOthers` (what wakes the worker), between which the other threads run.
* *Another process* commits (`OtherCommits`) and writes to the pipe some time later (`OtherNotifies`).
* *Any thread* may remove a callback or let go of a Results (`RemoveCallback`, `Unregister`).

What it leaves out: a notifier has at most one callback (several are the subject of
`NotifierCallbacks`); a Results is used between deliveries, so that `wants_background_updates` is true
and its query runs also without a callback; user code does not write in callbacks; the helper files
open, so there is no `m_async_error`. A package that is too old is dropped by the code with a
comment that this happens only if the version was changed by other means, and it does not happen here.

`Observed` names the notifiers that may have a callback. A callback may be added at any time, also to a notifier that has been
running without one. `told`, `suppressed` and `missed` are history variables; `missed` holds the versions a
callback does not hear of though it was not to skip them, of which there are two kinds:

* those between the version of the notifier and that of its last run, when the callback is added: the worker reads
  `have_callbacks()` without the lock and computes no changes for a notifier that has none;
* those from the version to skip that was overwritten up to that of the commit that overwrote it (`Overwrites`): the
  worker runs past the first in one step, and the callback skips the whole of it.

`HearsAll` says that nothing else is lost.

### SyncSession

One file, one user, any number of `SyncSession` objects for the path one after the other (a new one is made
when the old one has gone out of the table while somebody still holds it).

* *Sections.* What a thread does under a session's `m_state_mutex` is one action, an operation on
  `ses[s]`: state, client session, callbacks that wait per direction, deaths, what is deferred. What it does after releasing the
  mutex is in `todo[t]`, a sequence of steps the other threads interleave with: `unregister`, `bind` (ask
  for a token), the end of `log_out`, and so on. `Section` puts both together.
* *States.* `AdvanceInactive`, `AdvanceDying`, `AdvanceActive`, `AdvanceWaiting` are the `enter_state` functions,
  `Close` and `CloseNow` the `close` of each state, `Revive`, `LogOutSession`, `Configure`, `Reconnect`,
  `WaitFor` and `Commit` the calls of the application.
* *Manager and user.* `registered` is the entry of the manager's table, `managerLock` and `userLock` the
  holders of the two mutexes, which are held over several sections. `GetSession`, `Reference`,
  `DropReference`, `Unregister`, `Register`, `LogOut`, `EndLogOut`, `LogIn`, `Invalidate` are their operations.
  `Live` says when a `shared_ptr` keeps an object, and thus what a `weak_ptr` finds.
* *Token handle.* `Bind` is `bind_session` calling the binding; `TokenArrives` and `TokenFails` are the
  answers of the server. The handle owns its session until the first answer, then holds it weakly.
* *Sync client.* `Loop` is the thread of its event loop: `Upload`, `CompleteWait` (a wait operation of the
  bag `ops` ends and its handler runs, unless the object has gone), `ReceiveError` with the first section of
  `handle_error`, `HandleError` with the second. The errors are those the code tells apart: closing the file,
  other fatal ones, authentication, token expired, non-fatal.
* *Assertions.* `aborted` is set where an assertion of the code fails; nothing happens afterwards.

Bounds: `MaxSessions` objects, `MaxCalls` calls and events from outside, `MaxVersion` local commits.

What one sees while reading the code this closely, without calling it an error: `register_session` revives a
session after the user has logged out if the two meet; `get_session` revives before it makes the
reference; a wait is given to the client only if no callback waits yet in its direction, so that a later
upload wait is answered by an earlier one that may end before the later commits; and the handler of an old
client session may answer callbacks registered with the new one. The model has all of these.

### IndexSets, AbstractIndexSet, IndexSet

`IndexSets` defines each operation by its result on a plain set of natural numbers; `AbstractIndexSet` has a set and
the last call with its result. `IndexSet` has the chunks, one action per operation, each the loop the
code runs, written with the iterators of `ChunkedRangeVector` (`PushBack`, `Insert`, `Erase`, and `Adjust`,
`SetRange`, `ShiftFrom` for what an iterator writes through). The refinement `Implements` maps the set to the indices
of the ranges; `Verified` is the code's own `verify()`, which a release build does not call;
`QueriesAreExact` compares `contains`, `count`, `shift` and `unshift` with the set.

A rebuild (`add_shifted_by` and the operations on two sets) sets chunks aside by the number of ranges there were. When there are more
ranges than fit, a further chunk is appended with the count 1, whatever its range holds (`index_set.cpp:244`). Only
`add_shifted_by` copies ranges of several indices, so only it gets a count wrong, and two calls do. `outgrown` records that
it has; `Verified`, the code's `verify()`, then fails (run `IndexSetVerify`), and `VerifiedUntilOutgrown` says that
this is the only way and that ranges and bounds are right even so. `contains` and `shift` still answer as the set does;
what uses counts (`count`, `unshift`) is compared with it while they are right. One bound goes with
this: the instance makes no call that changes chunks in place on a set with a wrong count, only rebuilds (a debug
build stops there, in `verify()`). What such calls make of a wrong count in a release build is not checked.

`count(start, end)` from the middle of a chunk leaves out its part of the next chunk's first range if that reaches to the
end asked for or past it (lines 299-302); `QueriesAreExact` allows that shortfall and no other (`CountsOrFallsShort`). It is
called only to break ties between equally long matches.

### ChangeBuilder

`rows` are the rows of a collection now, `mid` those at the end of the last transaction, `base` those at the
beginning; `builder` is what the log of the current transaction has given so far, `total` what the earlier
ones have been merged to. `kind` says which handlers are used: a list, a table whose moves are tracked, one whose
rows are swapped too, a table that is only linked to (`m_need_move_info` false), or sorted query
results, for which `calculate` is called with the rows before and after. `Complete` is `parse_complete`
and `merge`. The properties apply the changes to the old rows and compare them with the new ones. The rows are distinct: the sorted
results of a list that has a row twice, for which `find_longest_match` has a loop of its own
(`collection_change_builder.cpp:635-651`), are left out.

`QueryChangesApply` is about a query in table order: its old rows are taken through the table's moves with a
binary search, the new rows are those it finds, and `calculate` reports the difference, guessing from the
moves which rows may have moved. The property is stated for one parsed log of a table, which is
what such a notifier is given: `run_async_notifiers` hands the changes that were merged only to new notifiers, which have no old rows
yet and skip `calculate`. It holds and is proved. It would not hold for merged logs: their moves are not sorted by where
they come from, so that the search may miss one (six rows, row 0 deleted in one log, rows 1 and 2 in the next). Nor
would it with swapped rows, where the comparison in table order can report changes that do not give the new rows (five rows
reversed by two swaps; the comment in `calculate_moves_unsorted` says "in the absence of `swap()`"). `swap_rows` of a whole table is called by nobody
here; the rows that `List::swap` exchanges are those of a subtable, where a swap is reported as moves.

Two things the model shows in passing: clearing a table deletes up to the largest `size_t`, and a later merge loops over all
of these when it has moves; and the search for the longest match compares `end2` where only `begin2` can have moved.

## 3. Runs

| Run | Question | Bounds |
|---|---|---|
| `NewsRefreshStuck` | Can the list be refreshed again and again? (No.) | one source, 3 stories, refresh up to 4 rows, 2 starts |
| `TheNews` | Do loads stay apart, do rows index the lists, do entries stay where they are, is what is stored what is shown and valid, is only the default source loaded, does a load that is answered stop the spinner? | 2 titles, 2 urls and the empty text; a source is added to fewer than 2, the list refreshed from at most 2 rows; 1 story of each source, 2 starts |
| `NewsParse` | Are the items those of the document? | 2 items, 3 leaves, 3 pieces of text |
| `NotifierCallbacks` | Does the loop survive what user code does? | 3 callbacks, 2 versions |
| `CallbackCount` | Is the count that of the packaged callbacks still there? (No.) | same |
| `NotifierPipeline` | Does every change reach its callback once, do the worker's transactions go forward and end, does every wait end? | 1 Realm, 2 notifiers, 1 of them observed, 3 versions (two commits) |
| `SyncSession` | Are callbacks answered once and never forgotten, do the table, the references and the client sessions agree, is everything uploaded before a session dies? | 2 threads and the event loop, 1 callback, 2 session objects, 6 calls, 1 commit |
| `SyncAborts` | Does an assertion fail? (It does.) | same |
| `IndexSet` | Does every operation on chunks do what it does to a set? | chunks of 4 ranges, indices up to 9 |
| `IndexSetVerify` | Does `verify()` hold? (No.) | same |
| `ChangeBuilder` | Do changes, merged or not, say what happened? | 4 rows of a table at first, 3 of other collections, 2 of a linked table, 4 at most; 4 operations on lists and tables, 3 with swaps and on linked tables, 2 reruns of a sorted query |
| `LinkedChanges` | Are merged modifications of a linked table where the modified rows are? (No.) | 2 rows, 3 operations |

Why the bounds are enough. *Stories and rows*: one story of a source, published before or
after the first load, and a refresh from at most two rows allow loads of an empty feed, of a new story and of one that is
in the list already, three of them in a row; with 3 stories and refreshes up to 4 rows (the bounds of
`NewsRefreshStuck`) `NewsFeed` alone shows nothing more. *Starts*: two are enough to lose what is not persisted and to read again what was stored. *Sources*: the two
defaults may both be deleted and added again, so a list with the same source twice is reached, and one with a source
that was not there at first. That neither number matters is what the theorems say. *Parser*: two
items and three leaves reach an item with a repeated leaf, an item with none and a channel leaf on
either side of an item; three pieces cut one text twice. *Notifier*: two callbacks packaged and one
added during delivery reach every relative position of the index, the count and a removed callback; one packaged
and two added ones wrap the count.
*Pipeline*: two commits are one to skip and one to follow it, or two that the worker takes in one step;
they may be this Realm's, the other process's or one of each, before, during and after a run of
the worker. The second notifier is old when the first is new and the reverse, dies while the other
lives, and shares its package. One Realm does not show what two do to each other: with a
second Realm that has a notifier there are more than 15 million states, too many for a run, and a version to skip
is never overwritten with one. `HearsAll` is proved for any number of Realms.
*Sync sessions*: six calls open a session, give it a token, let it commit and wait, close it and revive it
or replace it by a second object; with two threads any two of the application's calls overlap, and with the
event loop any of them and an error or an answer. The two threads are interchangeable, so that the run uses
symmetry; no liveness is checked in it. *Index sets*: indices up to 9 hold five ranges that do not
touch, one more than a chunk takes, so that chunks split, shrink and vanish; every set that fits is
reached (2,807 arrangements of chunks), and from each every operation with every argument. The view leaves out the last call,
which no operation reads. *Change builder*: four operations are two transactions of two or any other split
of them, and with three rows the moves pass each other, meet and lead back.

`CHECK_DEADLOCK FALSE` stands where the system or the instance really stops: `NewsParse` at the end of the
document; `NotifierCallbacks`, `ChangeBuilder` and `LinkedChanges` when the bounded calls are used up;
`SyncSession` and `SyncAborts` for the same reason, after an abort, and because `log_out` and `get_session`
can wait for each other's mutex for ever (the hazard listed at `sync_user.cpp:163`).

Runs that are expected to fail show a disagreement of the code with the repository's own words; each is a
finding in `PROJECT.json`:

* `NewsRefreshStuck`: after one failed load, or an empty feed, the list can never be refreshed again.
* `SyncAborts`: the user logs out between the two sections of `handle_error`, and the second asserts that
  the session is not inactive.
* `CallbackCount`: `m_callback_count` is decremented for a callback that it never counted; the loop then misses packaged
  callbacks, whose changes are lost, or runs past the end.
* `IndexSetVerify`: `add_shifted_by` leaves a chunk with a count at which `verify()` would stop.
* `LinkedChanges`: the modifications of a table that is only linked to are not shifted when changes of several
  versions are combined, so that they name other rows than were modified.

Four more findings belong to runs that pass, since the property says what the code does where the words say more:

* `TheNews`, `OnlyDefaultIsLoaded`: no selected source is ever loaded.
* `NotifierPipeline`, `HearsAll` (two): the versions lost to a callback added late, and those skipped with a version to
  skip that another Realm's commit overwrote.
* `IndexSet`, `QueriesAreExact`: `count(start, end)` falls short.

Other behaviours the models have, without a property against them: `LoadCompleted` reloads the section before it
appends the items, so that what a load brings is not shown until something else reloads the table; deleting
one source clears the store, and the added sources are gone after the next start; read marks are set on objects that were never
added to the Realm and end with the process; a run of the worker at the version already reached clears
`skip_next` before the suppressed commit is run, so that the callback hears of what it was to skip: `HearsOnce`
says that a change is not heard twice, and does not ask that a suppressed one is not heard.

### Fairness

`AppFairSpec` of `TheNews` and `FairSpec` of `NewsFeed`: `Network` (a data task ends, because `URLSession` has a
timeout; it may end with a failure) and `LoadCompleted` (the main queue runs what it is given), in `TheNews` as
`LoadAnswered` and `LoadFinished`. Nothing
obliges the user or a publisher to do anything.

`Spec` of `NotifierPipeline`: the worker goes on (`Worker`; a thread that sleeps only until it is woken), a
signalled run loop turns (`Notify`), a wait whose condition holds ends (`EndWait`; every handover calls
`notify_all`), a thread in the middle of a delivery finishes it (`Deliver`, `Promote`), a write ends by
commit or cancel, since user code does not keep the write lock for ever, and a process that
committed writes to the pipe (`OtherNotifies`). Weak fairness suffices: none of these is disabled again by
others while it waits. Nobody is obliged to refresh, to begin a write, to add or to remove a callback.
The other runs check safety only and assume none.

## 4. Proofs

All theorems are for every value of the constants that satisfies the assumption of the module, which says no more than
what sets and numbers the constants are (and, in `TheNews`, that the two screens have the same urls, starts and
default source).

| Theorem | Says | How |
|---|---|---|
| `FeedTypes`, `FeedTypeAndRows` | `[]TypeOK`, `[](TypeOK /\ RowsAreEntries)` | inductive as a conjunction: an index of the table must be one of the list for `OpenRow` to keep the type |
| `FeedOneLoad` | `[]OneLoadAtATime` | inductive with `TypeOK`; the bound on `Len(loads) + Len(mainQueue)` alone is not, it needs that the spinner is on during a load |
| `FeedEntriesAreStable` | `EntriesAreStable` | every step, from `TypeOK /\ RowsAreEntries` before it |
| `SourcesTypes`, `SourcesStored`, `SourcesOneCurrent`, `SourcesRows` | `SourcesSpec => []` of `SourcesTypeOK`, `StoredIsShown`, `AtMostOneCurrent`, `RowsAreSources` | one inductive invariant (`SourcesInvariant`), their conjunction: none is inductive alone, since deleting and selecting index the list with a row of the table, and a start reads the list from the store |
| `SourcesAreValid` | `SourcesSpec => []ListedIsValid` | a second invariant on top: an enabled alert holds valid texts, the list and the store hold allowed pairs; none is inductive without the others, since a restart takes the store to the list and a save the alert to both |
| `AppOneLoad`, `AppStored` | `AppSpec => []` of `OneLoadAtATime`, `RowsAreEntries`, of `StoredIsShown`, `ListedIsValid` | the steps of the application are steps of each screen (`FeedSteps`, `SourceSteps`, the former as the delegate stays nil), so that the invariants of the screens hold in it |
| `AppOnlyDefault` | `AppSpec => []OnlyDefaultIsLoaded` | `DelegateStaysNil`, and that everything on its way from a request to the list carries the source it was asked for; with the types of the list screen |
| `CallbacksBase`, `CallbacksHaveIsExact` | `[]HaveIsExact` for any clients | with the types and with `IndexInv` (the index is below the number of callbacks), without which removing one during the loop leaves the types |
| `CallbacksLoop`, `CallbacksCount`, `CallbacksLoopStaysInside`, `CallbacksCalledOnce`, `CallbacksNoChangeIsLost`, `CallbacksMissedForRemoved` | `[]` of the properties of the loop, and `MissedForRemoved`, for any clients | `LoopInv`: tokens ascend and are not reused; the packaged callbacks stand before those added since, and the count is their number less `uncounted`; the loop stops outside only with a count below zero; what is behind the index is behind those that were called; each change of a callback is in one place unless the callback was missed; a callback the pass has done with has nothing left to deliver (so that packaging overwrites nothing else) |
| `PipelineInvariant`, `PipelineHelpersHoldVersions`, `PipelineNeverBackwards`, `PipelineOneVersion` | `[]` of the three properties of the worker | `IInv`: each thread goes to a version that exists and holds the write lock when it should (`ThreadInv`); the run works on the notifiers in the main list towards a version that no later one to skip is before (`WorkInv`, `VersionInv`): that is what makes the helper go forward at the next run |
| `PipelineChanges`, `PipelineHearsOnce`, `PipelineHearsAll` | `[]` of `HearsOnce` and `HearsAll`, for any Realms, notifiers and late callbacks | `ChangesInv` follows each version through the threads. A notifier is at one `Position` for its callback: what it was told of, or the version of the package it is in. What is accumulated lies behind that position and not past the version of the notifier (`TrackedInv`), what is to be delivered between what was told and the goal of the Realm (`DeliverInv`); nothing in between is missing but for what is excused (`Excused`: suppressed or missed), at each of the places a version can be on its way (`AllInv`); and for a callback that is to skip the worker is going to stop at the very next version, or at one that has overwritten it, with all up to there excused (`SkipInv`). `RunInv`, `ListInv` and `PackageInv` say who is in the run and in the packages meanwhile |
| `ParserFollows`, `ParserItemsFollow`, `ParserWholeText`, `ParserDelivers` | `[]` of the three properties of the parser | `ParserInv`: the element names the leaf that is open in an item; inside an item every field has the words of its text, nothing if no piece came, the trimmed text if one came (`FieldFollows`); the same of every item that is closed. The lemmas about `WordsOf` and `Trim` are by induction on the text: `WordsConcat`, `WordsOfTrim` (trimming takes no word away), `TrimBlanks` (blanks after a trimmed text are trimmed again) |
| `BuilderMovesAreTrue`, `BuilderChangesApply`, `BuilderModificationsAreExact`, `BuilderFinalizedAgree` | `[]` of `MovesAreTrue`, `ChangesApply`, `ModificationsAreExact` and `FinalizedAgree` for every kind of collection | `IInv`: the rows that stay are paired, the k-th index outside the insertions with the k-th outside the deletions (`Pairs`); every move and every entry of the mapping joins a deletion and an insertion of one row; no two moves start at one index; the modifications mark the rows set. A table's deletions and insertions are the same indices as far as the rows go (`Tables`), so that its mapping may lead a row back to where it was: `parse_complete` drops those entries, and what it leaves is what a list's builder is at any time (`Good`). `clean_up_stale_moves` and `merge` keep `Good`, shown for their loops by induction on the moves they have gone through (`Cleaned`, `Followed`). For sorted results `calculate` gives `Good` changes (`CalculatedGood`): whatever match the search returns is a run of rows in sequence within its window (`LongestMatchIs`, by induction on the rows), the matches of the windows before and after it lie on both sides of it (`LongestMatchesAre`, by induction on the size of the window), so the matched rows are in one order in both lists (`Matching`), and any rows left by a `Matching` are paired (`SortedAligned`). That the matches are longest is not needed |
| `BuilderQueryChangesApply` | `[]QueryChangesApply` | `IInv` and `LInv`: without swaps, a log moves the rows of a table to lower indices only. A row whose index the parsed log does not list as an insertion is where it was (`ParsedInPlace`), so of the rows found before and after, none overtakes such a row (`TakenInLine`). `calculate` goes through the rows found both times in the order of the new results, with the old index of each less the deletions before it. By induction on these rows (`MoveSolution`), those it does not report as moved are in their old order (`MovedSo`): a row in place is never overtaken, and one that may have moved is left unreported only where its count says that no row before it is missing. The rows that stay are then paired (`ReportedApplies`). That the binary search finds every move is not needed: a row whose move it misses is reported as deleted and inserted |
| `SessionInvariant`, `SessionAnsweredOnce`, `SessionRunningHasClient`, `SessionReferencedIsRegistered` | `[]` of the three properties | `IInv`: a callback that waits has not been called and waits in one place (`WaitInv`); the client session of each state (`ClientInv`); the thread that has yet to reference a session holds the manager's mutex and the session is the registered one (`LockInv`), so that no other thread unregisters it between the lookup and the reference |
| `SessionWaitIsRegistered`, `SessionDyingUploadsAll` | `[]WaitIsRegistered`, `DyingUploadsAll` | `OpsInv`, with `IInv`: the operation of a death knows that death or an earlier one, and while the session dies of the one it knows, client and target are the session's (`DeathInv`); no step brings back a session that nothing kept (`LiveKept`), for otherwise one whose operations ended unheard could wait again |

`SeqLemmas` has what `RemoveAt` and friends do to length and elements, and induction over the natural numbers in a form the
provers can use: the library's induction theorems take an operator as a parameter, which none of them can instantiate, but
that every set of naturals has a least element (`LeastNat`) follows from the well-foundedness of finite sets under
inclusion, and gives induction up to a bound (`UpTo`) and a greatest element (`GreatestNat`). A recursive function is then
what its equation says, up to every index (`WordsSolution`, `CleanSolution`, `FollowSolution`, `MoveSolution`). `SeqLemmas` also
has the algebra of index sets: `Shift` and `Unshift` are inverse to each other outside the set, what each operation of
`IndexSets` does to membership and to `Unshift` (`UnshiftInsert`, `UnshiftErase`, `UnshiftAdd`, `UnshiftBoth`), and which of
them keep rows paired (`Pairs`). Each proof module has the lemmas
about the operators of its component before the steps, one lemma or step per action. Every property proved
is also checked by TLC on the instance of its run.

Only model-checked:

* `RefreshEnds` and `ToldInTheEnd`: liveness under fairness is out of the prover's reach.
* `IndexSet`: it uses `RECURSIVE` operators, for which the provers lose their SMT backend. Written as
  recursive functions they could be proved about by the induction above; this has not been done.

## 5. Not modelled, and why

* Layout, fonts, colours, HTML removal, date formats: no state, no property depends on them.
* `RealmManager`'s operations without a caller, `isFavourite`.
* The bodies of UIKit, Foundation, the sync client and the storage engine: they are not in the repository; what the
  code relies on is stated in the modules that use it. The headers of the storage engine are by far the
  most lines of the repository; they are templates, accessors and inline wrappers of that library, and what of
  them matters here is transactions, versions and row operations, which `NotifierPipeline` and
  `ChangeBuilder` have from the side of their callers.
* Of the sync sessions: client resync in another mode than Manual (the binding sets no other), the connection state,
  the progress notifier, `override_server`, the refresh of the user's own session, `AsyncOpenTask`.
* Partial sync and `WorkQueue`: unused by the application; subscriptions are rows a server fills in.
* Of the change sets: rows that a sorted query of a list finds twice (`collection_change_builder.cpp:635-651`), the sets per column, which follow the modifications step for step, `subsume` and
  `merge` of rows of subtables, `ListNotifier`, `ObjectNotifier` and `DeepChangeChecker`, which read tables and keep
  no state between runs.
* Of the coordinator: the cache of Realms and of the schema, errors while the helpers open.
* Schema and migration code, key chain, reachability, Objective-C and Swift bindings of Realm: thin or
  sequential wrappers of the operating system and of the binary engine.

## 6. What is left

1. `NotifierPipeline`: a run with two Realms in one process (on an instance cut down elsewhere; the theorems
   cover them), writes in callbacks and errors of the helpers.
2. Proofs about `IndexSet`, that each operation on chunks does what it does to a set, once its operators are recursive
   functions; what in-place calls make of a wrong count.
3. `SyncSession`: seven calls, which reach two sync client
   sessions bound for one path, and the lock order of user and manager as a property.
4. `WorkQueue`: order, nothing dropped unless the queue is destroyed, one thread at a time.
