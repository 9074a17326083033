------------------------------- MODULE NewsFeed -------------------------------
(***************************************************************************)
(* The list screen of the application: NewsFeedViewController, its view    *)
(* model and the loads it starts (Controllers/NewsFeed, Service/NewsParse, *)
(* Realm/RealmManager).                                                    *)
(*                                                                         *)
(* Everything but the network and the parsing runs on the main thread, so  *)
(* each handler is one action.  A load is a closure chain: a request in    *)
(* flight (loads), then an operation that waits in OperationQueue.main     *)
(* (mainQueue), then the handler LoadCompleted.  UIKit is external: a      *)
(* UITableView shows the rows it read the last time it was told to read    *)
(* them (feedTable), and a UIRefreshControl does not send valueChanged     *)
(* while it is refreshing.                                                 *)
(***************************************************************************)
EXTENDS Naturals, Sequences, SequencesExt

CONSTANTS
    SourceId,       \* the sources the application may load, each with its url
    DefaultSource,  \* CurrentURL.getBankiURlString(), NewsFeedViewModel.swift:22
    MaxStories,     \* bound: stories a source publishes
    MaxRows,        \* bound: no refresh is started with more rows than this
    MaxLaunches     \* bound: starts of the process

ASSUME FeedAssumption ==
    /\ DefaultSource \in SourceId
    /\ MaxStories \in Nat /\ MaxRows \in Nat /\ MaxLaunches \in Nat

VARIABLES
    newsItem,       \* viewModel.newsItem: the entries, oldest load first
    currentSource,  \* viewModel.currentSource
    refreshing,     \* refreshControl.isRefreshing
    loads,          \* sources of the data tasks in flight, in order of issue
    mainQueue,      \* results whose closure waits in OperationQueue.main
    feedTable,      \* the rows the table view shows
    tab,            \* the selected tab of MainTabBarController
    pushed,         \* whether a NewsViewController covers the list
    published,      \* external: how many stories each source has published
    launches        \* how many times the process was started

feedVars == <<newsItem, currentSource, refreshing, loads, mainQueue,
              feedTable, tab, pushed, published, launches>>

Tab   == {"feed", "sources"}
Story == [source : SourceId, date : Nat]
Entry == [story : Story, isReading : BOOLEAN]

(* What a source answers: its stories, newest first.                       *)
Feed(s) == [k \in 1 .. published[s] |->
                [source |-> s, date |-> published[s] + 1 - k]]

(* NewsModel(title:date:desc:isReading: false, ...) of every parsed item.  *)
Unread(stories) ==
    [k \in 1 .. Len(stories) |-> [story |-> stories[k], isReading |-> FALSE]]

(* viewModel.newsItem.append(NewsModel(...)) for every parsed item.        *)
LoadedRaw(items, stories) == items \o stories      \* a bug: no NewsModel
LoadedNew(items, stories) == Unread(stories)       \* a bug: the list is replaced
Loaded(items, stories)    == items \o Unread(stories)

ToggleRead(items, i) ==     \* a bug: a second tap takes the mark away
    [items EXCEPT ![i].isReading = ~@]
MarkRead(items, i) == [items EXCEPT ![i].isReading = TRUE]

-----------------------------------------------------------------------------
(* The screen after viewDidLoad and viewWillAppear, on a view model created *)
(* there: an empty list, the spinner on and the first load on its way.     *)
Init ==
    /\ newsItem = <<>> /\ feedTable = <<>>
    /\ currentSource = DefaultSource
    /\ refreshing = TRUE
    /\ loads = <<DefaultSource>> /\ mainQueue = <<>>
    /\ tab = "feed" /\ pushed = FALSE
    /\ published \in [SourceId -> 0 .. MaxStories]
    /\ launches = 1

(* The process is killed and started again: neither the list nor the read  *)
(* marks are persisted (saveObject and saveAll have no caller).            *)
Relaunch ==
    /\ launches < MaxLaunches
    /\ launches' = launches + 1
    /\ newsItem' = <<>> /\ feedTable' = <<>>
    /\ currentSource' = DefaultSource
    /\ refreshing' = TRUE
    /\ loads' = <<DefaultSource>> /\ mainQueue' = <<>>
    /\ tab' = "feed" /\ pushed' = FALSE
    /\ UNCHANGED published

(* updateTableView: the spinner starts, a new parser asks for source s.    *)
UpdateQuietly(s) ==         \* a bug: beginRefreshing is left out
    /\ UNCHANGED refreshing
    /\ loads' = Append(loads, s)
UpdateTableView(s) ==
    /\ refreshing' = TRUE
    /\ loads' = Append(loads, s)

ReloadData == feedTable' = newsItem

(* refreshControl.endRefreshing(), in the body of the loop over the items. *)
KeepRefreshing(stories) == UNCHANGED refreshing     \* a bug: it is left out
EndRefreshing(stories)  == refreshing' = (refreshing /\ stories = <<>>)

(* The user pulls the list down; refresh(_:) calls updateTableView.        *)
PullToRefresh ==
    /\ tab = "feed" /\ ~pushed
    /\ ~refreshing
    /\ Len(newsItem) <= MaxRows
    /\ UpdateTableView(currentSource)
    /\ UNCHANGED <<newsItem, currentSource, mainQueue, feedTable, tab, pushed,
                   published, launches>>

(* SourceDelegate.updateSource: the composition TheNews says who calls it. *)
UpdateSource(s) ==
    /\ currentSource' = s
    /\ UpdateTableView(s)
    /\ UNCHANGED <<newsItem, mainQueue, feedTable, tab, pushed, published,
                   launches>>

(* A request is answered and parsed on a background queue; the completion  *)
(* handler posts its closure to the main queue.                            *)
Answer(i) ==
    /\ mainQueue' = Append(mainQueue, Feed(loads[i]))
    /\ loads' = RemoveAt(loads, i)
    /\ UNCHANGED <<newsItem, currentSource, refreshing, feedTable, tab, pushed,
                   published, launches>>

(* No data, or a document the parser gives up on: the closure of the data  *)
(* task returns and nobody is told.                                        *)
Fail(i) ==
    /\ loads' = RemoveAt(loads, i)
    /\ UNCHANGED <<newsItem, currentSource, refreshing, mainQueue, feedTable,
                   tab, pushed, published, launches>>

(* The closure on the main thread: the section is reloaded first, then the *)
(* items are appended; the spinner is stopped by the loop's body.          *)
LoadCompleted ==
    /\ mainQueue # <<>>
    /\ ReloadData
    /\ newsItem' = Loaded(newsItem, Head(mainQueue))
    /\ EndRefreshing(Head(mainQueue))
    /\ mainQueue' = Tail(mainQueue)
    /\ UNCHANGED <<currentSource, loads, tab, pushed, published, launches>>

(* didSelectRowAt: the entry at the tapped row is marked, the table        *)
(* reloaded and the story pushed.                                          *)
OpenRow(i) ==
    /\ tab = "feed" /\ ~pushed
    /\ newsItem' = MarkRead(newsItem, i)
    /\ feedTable' = newsItem'
    /\ pushed' = TRUE
    /\ UNCHANGED <<currentSource, refreshing, loads, mainQueue, tab, published,
                   launches>>

(* Back from the story: viewWillAppear reloads the table.                  *)
Back ==
    /\ tab = "feed" /\ pushed
    /\ pushed' = FALSE
    /\ ReloadData
    /\ UNCHANGED <<newsItem, currentSource, refreshing, loads, mainQueue, tab,
                   published, launches>>

(* The tab bar: the list's viewWillAppear runs only when it is on top.     *)
SwitchTab ==
    /\ tab' \in Tab \ {tab}
    /\ IF tab' = "feed" /\ ~pushed THEN ReloadData ELSE UNCHANGED feedTable
    /\ UNCHANGED <<newsItem, currentSource, refreshing, loads, mainQueue,
                   pushed, published, launches>>

Publish(s) ==
    /\ published[s] < MaxStories
    /\ published' = [published EXCEPT ![s] = @ + 1]
    /\ UNCHANGED <<newsItem, currentSource, refreshing, loads, mainQueue,
                   feedTable, tab, pushed, launches>>

Network == \E i \in DOMAIN loads : Answer(i) \/ Fail(i)

User == PullToRefresh \/ Back \/ SwitchTab \/ \E i \in DOMAIN feedTable : OpenRow(i)

Next ==
    \/ User
    \/ Network
    \/ LoadCompleted
    \/ Relaunch
    \/ \E s \in SourceId : Publish(s)

Spec == Init /\ [][Next]_feedVars

(* URLSession ends every task within its timeout, and the main queue runs  *)
(* the operations it is given.  Nothing obliges the user or a publisher.   *)
FairSpec ==
    /\ Spec
    /\ WF_feedVars(Network)
    /\ WF_feedVars(LoadCompleted)

-----------------------------------------------------------------------------
TypeOK ==
    /\ newsItem \in Seq(Entry)
    /\ feedTable \in Seq(Entry)
    /\ currentSource \in SourceId
    /\ refreshing \in BOOLEAN
    /\ loads \in Seq(SourceId)
    /\ mainQueue \in Seq(Seq(Story))
    /\ tab \in Tab
    /\ pushed \in BOOLEAN
    /\ published \in [SourceId -> Nat]
    /\ launches \in Nat

(* The spinner is the only thing that keeps loads apart: each load has a   *)
(* parser of its own and appends whatever it brings.  At most one load is  *)
(* anywhere between updateTableView and its closure, and it has the        *)
(* spinner on, so a pull cannot start a second one.                        *)
OneLoadAtATime ==
    /\ Len(loads) + Len(mainQueue) <= 1
    /\ loads # <<>> \/ mainQueue # <<>> => refreshing

(* didSelectRowAt and cellForRowAt index newsItem with a row of the table, *)
(* although the list may have changed since the table last read it: every  *)
(* row on screen exists in the list, shows the same story, and shows it as *)
(* read exactly when it is.                                                *)
RowsAreEntries ==
    /\ Len(feedTable) <= Len(newsItem)
    /\ \A i \in DOMAIN feedTable : feedTable[i] = newsItem[i]

(* A step that keeps every entry at its index, and the read ones read.     *)
EntriesKept ==
    /\ Len(newsItem) <= Len(newsItem')
    /\ \A i \in 1 .. Len(newsItem) :
          /\ newsItem'[i].story = newsItem[i].story
          /\ newsItem[i].isReading => newsItem'[i].isReading

(* As long as the process lives, no load, tap or reload drops or reorders  *)
(* an entry the list already has, and none makes a read entry unread.      *)
EntriesAreStable == [][Relaunch \/ EntriesKept]_feedVars

(* A load of a feed that has stories comes to an end: it stops the spinner *)
(* or it has failed, and then it has added nothing (or the process ended). *)
RefreshEnds ==
    \A n \in 1 .. MaxLaunches, k \in 0 .. MaxRows + MaxStories :
        LET loading == /\ launches = n /\ Len(newsItem) = k
                       /\ loads # <<>> /\ published[loads[1]] > 0
            failed  == /\ Len(newsItem) = k
                       /\ loads = <<>> /\ mainQueue = <<>>
        IN  loading ~> (~refreshing \/ failed \/ launches # n)

-----------------------------------------------------------------------------
(* Statements of the README the code does not keep.                        *)

(* "One can update by pull to refresh": the list can be pulled again and   *)
(* again, so the spinner does not stay on for ever.                        *)
CanRefreshAgain == []<>(~refreshing)
=============================================================================
