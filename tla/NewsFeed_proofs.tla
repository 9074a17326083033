---------------------------- MODULE NewsFeed_proofs ----------------------------
(***************************************************************************)
(* Proofs about the list screen, for any sources and bounds.               *)
(***************************************************************************)
EXTENDS NewsFeed, SeqLemmas

(* What a source answers is a sequence of stories.                         *)
LEMMA FeedType ==
    ASSUME NEW s \in SourceId, published \in [SourceId -> Nat]
    PROVE  Feed(s) \in Seq(Story)
<1> DEFINE n == published[s]
<1>1. n \in Nat
  OBVIOUS
<1>2. \A k \in 1 .. n : [source |-> s, date |-> n + 1 - k] \in Story
  BY <1>1 DEF Story
<1>3. Feed(s) \in [1 .. n -> Story]
  BY <1>2 DEF Feed
<1> QED  BY <1>1, <1>3, SeqDef

(* A batch of new entries: as many as there are stories, all unread.       *)
LEMMA UnreadType ==
    ASSUME NEW stories \in Seq(Story)
    PROVE  Unread(stories) \in Seq(Entry)
<1>1. \A k \in 1 .. Len(stories) :
          [story |-> stories[k], isReading |-> FALSE] \in Entry
  BY DEF Entry
<1> QED  BY <1>1 DEF Unread

(* Marking an entry keeps the list a list of entries.                      *)
LEMMA MarkReadType ==
    ASSUME NEW items \in Seq(Entry), NEW i \in DOMAIN items
    PROVE  /\ MarkRead(items, i) \in Seq(Entry)
           /\ Len(MarkRead(items, i)) = Len(items)
<1>1. items[i] \in Entry /\ DOMAIN items = 1 .. Len(items)
  BY LenProperties, ElementOfSeq
<1>a. [items[i] EXCEPT !.isReading = TRUE] \in Entry
  BY <1>1 DEF Entry
<1>2. MarkRead(items, i) = [items EXCEPT ![i] = [items[i] EXCEPT !.isReading = TRUE]]
  BY DEF MarkRead
<1> QED  BY <1>1, <1>a, <1>2, ExceptSeq

-----------------------------------------------------------------------------
(* Type correctness holds initially ...                                    *)
LEMMA TypeInit == Init => TypeOK
<1> SUFFICES ASSUME Init PROVE TypeOK
  OBVIOUS
<1> USE FeedAssumption
<1>1. published \in [SourceId -> Nat]
  BY DEF Init
<1>2. newsItem \in Seq(Entry) /\ feedTable \in Seq(Entry)
  BY DEF Init
<1>3. loads \in Seq(SourceId) /\ mainQueue \in Seq(Seq(Story))
  BY DEF Init
<1> QED  BY <1>1, <1>2, <1>3 DEF Init, TypeOK, Tab

(* ... and every step keeps it.                                            *)
LEMMA TypeStep == TypeOK /\ RowsAreEntries /\ [Next]_feedVars => TypeOK'
<1> SUFFICES ASSUME TypeOK, RowsAreEntries, [Next]_feedVars
             PROVE  TypeOK'
  OBVIOUS
<1> USE FeedAssumption DEF TypeOK
<1>1. CASE PullToRefresh
  BY <1>1 DEF PullToRefresh, UpdateTableView
<1>2. CASE Back
  BY <1>2 DEF Back, ReloadData
<1>3. CASE SwitchTab
  BY <1>3 DEF SwitchTab, ReloadData
<1>4. ASSUME NEW i \in DOMAIN feedTable, OpenRow(i)
      PROVE  TypeOK'
  <2>1. i \in DOMAIN newsItem
    BY DEF RowsAreEntries
  <2>2. newsItem' \in Seq(Entry) /\ feedTable' \in Seq(Entry)
    BY <1>4, <2>1, MarkReadType DEF OpenRow
  <2>3. UNCHANGED <<currentSource, refreshing, loads, mainQueue, tab, published,
                    launches>> /\ pushed' = TRUE
    BY <1>4 DEF OpenRow
  <2> QED  BY <2>2, <2>3
<1>5. ASSUME NEW i \in DOMAIN loads, Answer(i) \/ Fail(i)
      PROVE  TypeOK'
  <2>1. loads[i] \in SourceId /\ loads' \in Seq(SourceId)
    <3>1. loads \in Seq(SourceId)
      OBVIOUS
    <3>2. RemoveAt(loads, i) \in Seq(SourceId)
      BY <3>1, RemoveAtSeq
    <3> QED  BY <1>5, <3>1, <3>2 DEF Answer, Fail
  <2>2. mainQueue' \in Seq(Seq(Story))
    <3>1. Feed(loads[i]) \in Seq(Story)
      BY <2>1, FeedType
    <3>2. Append(mainQueue, Feed(loads[i])) \in Seq(Seq(Story))
      BY <3>1, AppendProperties
    <3> QED  BY <1>5, <3>2 DEF Answer, Fail
  <2> QED  BY <1>5, <2>1, <2>2 DEF Answer, Fail
<1>6. CASE LoadCompleted
  <2>1. /\ Head(mainQueue) \in Seq(Story)
        /\ Tail(mainQueue) \in Seq(Seq(Story))
    BY <1>6 DEF LoadCompleted, Loaded, EndRefreshing
  <2>2. Unread(Head(mainQueue)) \in Seq(Entry)
    BY <2>1, UnreadType
  <2>3. newsItem' \in Seq(Entry) /\ feedTable' \in Seq(Entry)
    BY <1>6, <2>2 DEF LoadCompleted, Loaded, EndRefreshing, ReloadData
  <2>4. refreshing' \in BOOLEAN /\ mainQueue' \in Seq(Seq(Story))
    BY <1>6, <2>1 DEF LoadCompleted, Loaded, EndRefreshing
  <2>5. UNCHANGED <<currentSource, loads, tab, pushed, published, launches>>
    BY <1>6 DEF LoadCompleted, Loaded, EndRefreshing
  <2> QED  BY <2>3, <2>4, <2>5, SMTT(30)
<1>7. CASE Relaunch
  <2>1. newsItem' \in Seq(Entry) /\ feedTable' \in Seq(Entry)
    BY <1>7 DEF Relaunch
  <2>2. loads' \in Seq(SourceId) /\ mainQueue' \in Seq(Seq(Story))
    BY <1>7 DEF Relaunch
  <2>3. /\ currentSource' \in SourceId /\ refreshing' \in BOOLEAN
        /\ tab' \in Tab /\ pushed' \in BOOLEAN
        /\ UNCHANGED published
    BY <1>7 DEF Relaunch, Tab
  <2>4. launches' \in Nat
    BY <1>7 DEF Relaunch
  <2> QED  BY <2>1, <2>2, <2>3, <2>4
<1>8. ASSUME NEW s \in SourceId, Publish(s)
      PROVE  TypeOK'
  BY <1>8 DEF Publish
<1>9. CASE UNCHANGED feedVars
  BY <1>9 DEF feedVars
<1> QED  BY <1>1, <1>2, <1>3, <1>4, <1>5, <1>6, <1>7, <1>8, <1>9
         DEF Next, User, Network

(* The rows on screen stay entries of the list: the list only grows at its *)
(* end, and whoever changes an entry reloads the table.                    *)
LEMMA RowsStep == TypeOK /\ RowsAreEntries /\ [Next]_feedVars => RowsAreEntries'
<1> SUFFICES ASSUME TypeOK, RowsAreEntries, [Next]_feedVars
             PROVE  RowsAreEntries'
  OBVIOUS
<1> USE DEF TypeOK
<1>1. CASE UNCHANGED <<newsItem, feedTable>>
  BY <1>1 DEF RowsAreEntries
<1>2. CASE newsItem' \in Seq(Entry) /\ feedTable' = newsItem'
  BY <1>2 DEF RowsAreEntries
<1>3. CASE LoadCompleted
  <2>1. Unread(Head(mainQueue)) \in Seq(Entry)
    BY <1>3, UnreadType DEF LoadCompleted, Loaded, EndRefreshing
  <2>2. newsItem' = newsItem \o Unread(Head(mainQueue)) /\ feedTable' = newsItem
    BY <1>3 DEF LoadCompleted, Loaded, EndRefreshing, ReloadData
  <2> QED  BY <2>1, <2>2 DEF RowsAreEntries
<1>4. ASSUME NEW i \in DOMAIN feedTable, OpenRow(i)
      PROVE  RowsAreEntries'
  <2>1. i \in DOMAIN newsItem
    BY DEF RowsAreEntries
  <2> QED  BY <1>2, <1>4, <2>1, MarkReadType DEF OpenRow
<1>5. CASE Back \/ SwitchTab
  <2>1. newsItem' = newsItem /\ (feedTable' = newsItem \/ feedTable' = feedTable)
    BY <1>5 DEF Back, SwitchTab, ReloadData
  <2> QED  BY <1>1, <1>2, <2>1
<1>6. CASE Relaunch
  BY <1>6 DEF Relaunch, RowsAreEntries
<1>7. CASE PullToRefresh \/ Network \/ \E s \in SourceId : Publish(s)
  BY <1>1, <1>7 DEF PullToRefresh, Network, Answer, Fail, Publish
<1>8. CASE UNCHANGED feedVars
  BY <1>1, <1>8 DEF feedVars
<1> QED  BY <1>3, <1>4, <1>5, <1>6, <1>7, <1>8 DEF Next, User

(* Type correctness of the list screen, and with it that every index path  *)
(* taken from the table is a valid index of the list and shows its entry.  *)
THEOREM FeedTypeAndRows == Spec => [](TypeOK /\ RowsAreEntries)
<1>1. Init => TypeOK /\ RowsAreEntries
  BY TypeInit DEF Init, RowsAreEntries
<1>2. TypeOK /\ RowsAreEntries /\ [Next]_feedVars => (TypeOK /\ RowsAreEntries)'
  BY TypeStep, RowsStep
<1> QED  BY <1>1, <1>2, PTL DEF Spec

(* Every variable of the list screen keeps its type, with TypeOK alone not *)
(* inductive: OpenRow indexes the list with a row of the table.            *)
THEOREM FeedTypes == Spec => []TypeOK
BY FeedTypeAndRows, PTL

-----------------------------------------------------------------------------
(* A load is started only while the spinner is off, which is only when no  *)
(* load is on its way, and it turns the spinner on.                        *)
LEMMA LoadStep == TypeOK /\ OneLoadAtATime /\ [Next]_feedVars => OneLoadAtATime'
<1> SUFFICES ASSUME TypeOK, OneLoadAtATime, [Next]_feedVars
             PROVE  OneLoadAtATime'
  OBVIOUS
<1> USE DEF TypeOK, OneLoadAtATime
<1>1. CASE PullToRefresh
  <2>1. loads = <<>> /\ mainQueue = <<>>
    BY <1>1 DEF PullToRefresh
  <2> QED  BY <1>1, <2>1 DEF PullToRefresh, UpdateTableView
<1>2. ASSUME NEW i \in DOMAIN loads, Answer(i)
      PROVE  OneLoadAtATime'
  <2>0. /\ Len(loads) \in Nat /\ DOMAIN loads = 1 .. Len(loads)
        /\ Len(mainQueue) \in Nat /\ (mainQueue = <<>> <=> Len(mainQueue) = 0)
    BY SeqLen
  <2>1. Len(loads) = 1 /\ mainQueue = <<>> /\ refreshing
    BY <2>0
  <2>2. /\ RemoveAt(loads, i) \in Seq(SourceId)
        /\ Len(RemoveAt(loads, i)) = Len(loads) - 1
    <3>1. loads \in Seq(SourceId)
      OBVIOUS
    <3> QED  BY <3>1, RemoveAtSeq
  <2>3. mainQueue' = <<Feed(loads[i])>>
    BY <1>2, <2>1 DEF Answer
  <2> QED  BY <1>2, <2>1, <2>2, <2>3 DEF Answer
<1>3. ASSUME NEW i \in DOMAIN loads, Fail(i)
      PROVE  OneLoadAtATime'
  BY <1>3, RemoveAtSeq DEF Fail
<1>4. CASE LoadCompleted
  <2>0. /\ Len(loads) \in Nat /\ (loads = <<>> <=> Len(loads) = 0)
        /\ Len(mainQueue) \in Nat /\ (mainQueue = <<>> <=> Len(mainQueue) = 0)
    BY SeqLen
  <2>1. mainQueue # <<>> /\ Len(mainQueue) = 1 /\ loads = <<>>
    <3>1. mainQueue # <<>>
      BY <1>4 DEF LoadCompleted, Loaded, EndRefreshing
    <3>2. Len(mainQueue) # 0
      BY <2>0, <3>1
    <3>3. Len(mainQueue) = 1 /\ Len(loads) = 0
      <4> DEFINE a == Len(loads)  b == Len(mainQueue)
      <4>1. a + b <= 1
        OBVIOUS
      <4>2. a \in Nat /\ b \in Nat /\ b # 0
        BY <2>0, <3>2
      <4> HIDE DEF a, b
      <4>3. a = 0 /\ b = 1
        BY <4>1, <4>2
      <4> QED  BY <4>3 DEF a, b
    <3> QED  BY <2>0, <3>1, <3>3
  <2>2. Tail(mainQueue) \in Seq(Seq(Story)) /\ Len(Tail(mainQueue)) = 0
    BY <2>1, HeadTailProperties
  <2>3. Tail(mainQueue) = <<>>
    BY <2>2, SeqLen
  <2>4. loads' = <<>> /\ mainQueue' = <<>>
    BY <1>4, <2>1, <2>3 DEF LoadCompleted, Loaded, EndRefreshing
  <2> QED  BY <2>4
<1>5. CASE Relaunch
  BY <1>5 DEF Relaunch
<1>6. CASE UNCHANGED <<loads, mainQueue, refreshing>>
  BY <1>6
<1>7. CASE Back \/ SwitchTab \/ (\E i \in DOMAIN feedTable : OpenRow(i))
           \/ (\E s \in SourceId : Publish(s)) \/ UNCHANGED feedVars
  BY <1>6, <1>7 DEF Back, SwitchTab, OpenRow, Publish, feedVars
<1> QED  BY <1>1, <1>2, <1>3, <1>4, <1>5, <1>7 DEF Next, User, Network

(* However the user, the network and the main queue interleave, at most    *)
(* one load is under way, and its spinner is on.                           *)
THEOREM FeedOneLoad == Spec => []OneLoadAtATime
<1>1. Init => OneLoadAtATime
  BY DEF Init, OneLoadAtATime
<1>2. TypeOK /\ OneLoadAtATime /\ [Next]_feedVars => OneLoadAtATime'
  BY LoadStep
<1> QED  BY <1>1, <1>2, FeedTypeAndRows, PTL DEF Spec
-----------------------------------------------------------------------------
(* Entries are appended by the closure of a load and marked by a tap; no   *)
(* other handler of a living process touches them.                         *)
LEMMA EntriesStep ==
    TypeOK /\ RowsAreEntries /\ [Next]_feedVars
        => [Relaunch \/ EntriesKept]_feedVars
<1> SUFFICES ASSUME TypeOK, RowsAreEntries, Next
             PROVE  Relaunch \/ EntriesKept
  OBVIOUS
<1>0. newsItem \in Seq(Entry) /\ DOMAIN newsItem = 1 .. Len(newsItem)
  BY SeqLen DEF TypeOK
<1>1. CASE UNCHANGED newsItem
  BY <1>0, <1>1, SeqLen DEF EntriesKept
<1>2. CASE LoadCompleted
  <2>1. Unread(Head(mainQueue)) \in Seq(Entry)
    BY <1>2, UnreadType DEF LoadCompleted, Loaded, EndRefreshing, TypeOK
  <2>2. newsItem' = newsItem \o Unread(Head(mainQueue))
    BY <1>2 DEF LoadCompleted, Loaded, EndRefreshing
  <2>3. /\ Len(newsItem') = Len(newsItem) + Len(Unread(Head(mainQueue)))
        /\ \A i \in 1 .. Len(newsItem) : newsItem'[i] = newsItem[i]
    BY <1>0, <2>1, <2>2, ConcatProperties
  <2> QED  BY <1>0, <2>1, <2>3, SeqLen DEF EntriesKept
<1>3. ASSUME NEW i \in DOMAIN feedTable, OpenRow(i)
      PROVE  EntriesKept
  <2>1. i \in DOMAIN newsItem
    BY DEF RowsAreEntries, TypeOK
  <2>2. newsItem' = [newsItem EXCEPT ![i] = [newsItem[i] EXCEPT !.isReading = TRUE]]
    BY <1>3 DEF OpenRow, MarkRead
  <2>3. newsItem' \in Seq(Entry) /\ Len(newsItem') = Len(newsItem)
    BY <1>0, <1>3, <2>1, MarkReadType DEF OpenRow
  <2>4. ASSUME NEW j \in 1 .. Len(newsItem)
        PROVE  /\ newsItem'[j].story = newsItem[j].story
               /\ newsItem[j].isReading => newsItem'[j].isReading
    <3>1. newsItem[j] \in Entry
      BY <1>0, ElementOfSeq
    <3> QED  BY <1>0, <2>2, <3>1 DEF Entry
  <2> QED  BY <1>0, <2>3, <2>4, SeqLen DEF EntriesKept
<1>4. CASE PullToRefresh \/ Network \/ Back \/ SwitchTab
           \/ \E s \in SourceId : Publish(s)
  BY <1>1, <1>4 DEF PullToRefresh, Network, Answer, Fail, Back, SwitchTab, Publish
<1> QED  BY <1>2, <1>3, <1>4 DEF Next, User

(* While the process lives the list is append-only and read marks stay.    *)
THEOREM FeedEntriesAreStable == Spec => EntriesAreStable
<1>1. TypeOK /\ RowsAreEntries /\ [Next]_feedVars
          => [Relaunch \/ EntriesKept]_feedVars
  BY EntriesStep
<1> QED  BY <1>1, FeedTypeAndRows, PTL DEF Spec, EntriesAreStable
=============================================================================
