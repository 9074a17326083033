---------------------------- MODULE TheNews_proofs ----------------------------
(***************************************************************************)
(* The source screen and the store keep their invariants, for any texts,   *)
(* defaults and bounds.  In the application as it is built the two screens *)
(* keep out of each other's way, so their invariants hold there too; and   *)
(* no source but the default one is ever loaded.                           *)
(***************************************************************************)
EXTENDS TheNews, NewsFeed_proofs

(* Setting the mark of a source changes nothing else.                      *)
LEMMA MarkedSource ==
    ASSUME NEW s \in Source, NEW b \in BOOLEAN
    PROVE  /\ [s EXCEPT !.isCurrent = b] \in Source
           /\ [s EXCEPT !.isCurrent = b] =
                  [title |-> s.title, url |-> s.url, isCurrent |-> b]
           /\ s = [title |-> s.title, url |-> s.url, isCurrent |-> s.isCurrent]
BY DEF Source

(* Clearing the marks leaves every title and url, and no mark.             *)
LEMMA RefreshFacts ==
    ASSUME NEW list \in Seq(Source)
    PROVE  /\ RefreshIsCurrent(list) \in Seq(Source)
           /\ Len(RefreshIsCurrent(list)) = Len(list)
           /\ \A i \in 1 .. Len(list) :
                 RefreshIsCurrent(list)[i] =
                     [title |-> list[i].title, url |-> list[i].url,
                      isCurrent |-> FALSE]
<1> DEFINE r == RefreshIsCurrent(list)
<1>1. ASSUME NEW i \in 1 .. Len(list)
      PROVE  /\ [list[i] EXCEPT !.isCurrent = FALSE] =
                    [title |-> list[i].title, url |-> list[i].url,
                     isCurrent |-> FALSE]
             /\ [list[i] EXCEPT !.isCurrent = FALSE] \in Source
  <2>1. list[i] \in Source
    BY ElementOfSeq
  <2> QED  BY <2>1, MarkedSource
<1>2. r \in [1 .. Len(list) -> Source]
  BY <1>1 DEF RefreshIsCurrent
<1>3. r \in Seq(Source) /\ Len(r) = Len(list)
  BY <1>2, SeqLen, FunctionIsSeq
<1> QED  BY <1>1, <1>3 DEF RefreshIsCurrent

(* The list loadSources builds: the stored texts, and no mark.             *)
LEMMA LoadFacts ==
    ASSUME SourcesTypeOK, saved # <<>> => Len(saved[1]) = Len(saved[2])
    PROVE  /\ LoadSources \in Seq(Source)
           /\ Len(LoadSources) = Len(SourcesTitle)
           /\ SourcesTitle \in Seq(Title) /\ SourcesURL \in Seq(Url)
           /\ Len(SourcesURL) = Len(SourcesTitle)
           /\ \A i \in 1 .. Len(SourcesTitle) :
                 LoadSources[i] = [title |-> SourcesTitle[i],
                                   url |-> SourcesURL[i], isCurrent |-> FALSE]
<1>1. /\ SourcesTitle \in Seq(Title) /\ SourcesURL \in Seq(Url)
      /\ Len(SourcesURL) = Len(SourcesTitle)
  <2>1. CASE saved = <<>>
    BY <2>1, SourcesAssumption DEF SourcesTitle, SourcesURL
  <2>2. CASE saved # <<>>
    <3>1. saved \in Seq(Title) \X Seq(Url)
      BY <2>2 DEF SourcesTypeOK
    <3> QED  BY <2>2, <3>1 DEF SourcesTitle, SourcesURL
  <2> QED  BY <2>1, <2>2
<1> DEFINE t == SourcesTitle
           u == SourcesURL
           l == [i \in 1 .. Len(t) |->
                    [title |-> t[i], url |-> u[i], isCurrent |-> FALSE]]
<1>2. LoadSources = l
  BY DEF LoadSources
<1> HIDE DEF t, u
<1>3. l \in [1 .. Len(t) -> Source]
  <2>1. \A i \in 1 .. Len(t) : t[i] \in Title /\ u[i] \in Url
    BY <1>1, ElementOfSeq DEF t, u
  <2> QED  BY <2>1 DEF Source
<1>4. l \in Seq(Source) /\ Len(l) = Len(t)
  BY <1>1, <1>3, SeqLen, FunctionIsSeq DEF t
<1> QED  BY <1>1, <1>2, <1>4 DEF t, u

(* Marking one element changes no title, no url and no other mark.         *)
LEMMA MarkFacts ==
    ASSUME NEW list \in Seq(Source), NEW i \in DOMAIN list
    PROVE  /\ MarkCurrent(list, i) \in Seq(Source)
           /\ Len(MarkCurrent(list, i)) = Len(list)
           /\ \A j \in 1 .. Len(list) :
                 /\ MarkCurrent(list, i)[j].title = list[j].title
                 /\ MarkCurrent(list, i)[j].url = list[j].url
                 /\ j # i => MarkCurrent(list, i)[j].isCurrent = list[j].isCurrent
<1> DEFINE e == [title |-> list[i].title, url |-> list[i].url, isCurrent |-> TRUE]
           f == [list EXCEPT ![i] = e]
<1>1. DOMAIN list = 1 .. Len(list) /\ \A j \in 1 .. Len(list) : list[j] \in Source
  BY SeqLen, ElementOfSeq
<1>2. e \in Source /\ [list[i] EXCEPT !.isCurrent = TRUE] = e
  <2>1. list[i] \in Source
    BY <1>1
  <2>2. /\ [list[i] EXCEPT !.isCurrent = TRUE] \in Source
        /\ [list[i] EXCEPT !.isCurrent = TRUE] = e
    BY <2>1, MarkedSource
  <2> QED  BY <2>2
<1>3. MarkCurrent(list, i) = f
  BY <1>1, <1>2 DEF MarkCurrent
<1>4. e.title = list[i].title /\ e.url = list[i].url
  OBVIOUS
<1> HIDE DEF e
<1>5. /\ f \in Seq(Source) /\ Len(f) = Len(list)
      /\ \A j \in 1 .. Len(list) : f[j] = IF j = i THEN e ELSE list[j]
  BY <1>2, ReplaceAtSeq
<1> HIDE DEF f
<1>6. ASSUME NEW j \in 1 .. Len(list)
      PROVE  /\ f[j].title = list[j].title /\ f[j].url = list[j].url
             /\ j # i => f[j].isCurrent = list[j].isCurrent
  BY <1>4, <1>5
<1> QED  BY <1>3, <1>5, <1>6

(* setIsCurrent marks the first source and changes nothing else.           *)
LEMMA SetFacts ==
    ASSUME NEW list \in Seq(Source)
    PROVE  /\ SetIsCurrent(list) \in Seq(Source)
           /\ Len(SetIsCurrent(list)) = Len(list)
           /\ \A j \in 1 .. Len(list) :
                 /\ SetIsCurrent(list)[j].title = list[j].title
                 /\ SetIsCurrent(list)[j].url = list[j].url
                 /\ j # 1 => SetIsCurrent(list)[j].isCurrent = list[j].isCurrent
<1>1. CASE list = <<>>
  BY <1>1, SeqLen DEF SetIsCurrent
<1>2. CASE list # <<>>
  <2>1. 1 \in DOMAIN list
    BY <1>2, SeqLen
  <2>2. SetIsCurrent(list) = MarkCurrent(list, 1)
    BY <1>2 DEF SetIsCurrent
  <2> QED  BY <2>1, <2>2, MarkFacts
<1> QED  BY <1>1, <1>2

(* The two arrays that are stored.                                         *)
LEMMA StoredFacts ==
    ASSUME NEW list \in Seq(Source)
    PROVE  /\ Titles(list) \in Seq(Title) /\ Len(Titles(list)) = Len(list)
           /\ Urls(list) \in Seq(Url) /\ Len(Urls(list)) = Len(list)
           /\ \A j \in 1 .. Len(list) :
                 Titles(list)[j] = list[j].title /\ Urls(list)[j] = list[j].url
<1>1. Len(list) \in Nat /\ \A j \in 1 .. Len(list) : list[j] \in Source
  BY SeqLen, ElementOfSeq
<1>2. /\ Titles(list) \in [1 .. Len(list) -> Title]
      /\ Urls(list) \in [1 .. Len(list) -> Url]
  BY <1>1 DEF Titles, Urls, Source
<1>3. /\ Titles(list) \in Seq(Title) /\ Len(Titles(list)) = Len(list)
      /\ Urls(list) \in Seq(Url) /\ Len(Urls(list)) = Len(list)
  BY <1>1, <1>2, FunctionIsSeq
<1> QED  BY <1>3 DEF Titles, Urls

-----------------------------------------------------------------------------
(* The order of the rows and of the arrays is that of the list, the marks  *)
(* are kept apart from them.                                               *)
IInv == SourcesTypeOK /\ StoredIsShown /\ AtMostOneCurrent /\ RowsAreSources

LEMMA IInvInit == SourcesInit => IInv
<1> SUFFICES ASSUME SourcesInit PROVE IInv
  OBVIOUS
<1>1. sources \in Seq(Source) /\ sourceTable \in Seq(Source)
  BY DEF SourcesInit
<1>2. SourcesTypeOK
  BY <1>1 DEF SourcesInit, SourcesTypeOK
<1>3. AtMostOneCurrent
  <2>1. DOMAIN sources = {}
    BY DEF SourcesInit
  <2> QED  BY <2>1 DEF AtMostOneCurrent
<1> QED  BY <1>2, <1>3 DEF SourcesInit, IInv, StoredIsShown, RowsAreSources

(* A step that leaves the list, the store and the table alone.             *)
LEMMA QuietStep ==
    ASSUME IInv,
           UNCHANGED <<sources, loaded, saved, sourceTable, warning>>,
           SourcesTypeOK'
    PROVE  IInv'
BY DEF IInv, StoredIsShown, AtMostOneCurrent, RowsAreSources

(* Loading shows the stored list.                                          *)
LEMMA AppearStep == IInv /\ Appear => IInv'
<1> SUFFICES ASSUME IInv, Appear PROVE IInv'
  OBVIOUS
<1> DEFINE l == LoadSources
           m == SetIsCurrent(LoadSources)
<1>0. SourcesTypeOK /\ (saved # <<>> => Len(saved[1]) = Len(saved[2]))
  BY DEF IInv, StoredIsShown
<1>1. /\ l \in Seq(Source) /\ Len(l) = Len(SourcesTitle)
      /\ SourcesTitle \in Seq(Title) /\ SourcesURL \in Seq(Url)
      /\ Len(SourcesURL) = Len(SourcesTitle)
      /\ \A i \in 1 .. Len(SourcesTitle) :
            l[i] = [title |-> SourcesTitle[i], url |-> SourcesURL[i],
                    isCurrent |-> FALSE]
  BY <1>0, LoadFacts
<1>2. /\ m \in Seq(Source) /\ Len(m) = Len(l)
      /\ \A j \in 1 .. Len(l) :
            /\ m[j].title = l[j].title /\ m[j].url = l[j].url
            /\ j # 1 => m[j].isCurrent = l[j].isCurrent
  BY <1>1, SetFacts
<1> HIDE DEF l, m
<1>3. sources' = IF loaded THEN sources ELSE m
  BY DEF Appear, m
<1>4. sources' \in Seq(Source)
  BY <1>0, <1>2, <1>3 DEF SourcesTypeOK
<1>5. SourcesTypeOK'
  BY <1>0, <1>4 DEF Appear, ReloadSources, SourcesTypeOK
<1>6. StoredIsShown'
  <2>1. CASE loaded
    BY <1>3, <2>1 DEF IInv, StoredIsShown, Appear
  <2>2. CASE ~loaded
    <3>1. ASSUME saved # <<>>
          PROVE  Titles(m) = SourcesTitle /\ Urls(m) = SourcesURL
      <4>1. /\ Titles(m) \in Seq(Title) /\ Len(Titles(m)) = Len(m)
            /\ Urls(m) \in Seq(Url) /\ Len(Urls(m)) = Len(m)
            /\ \A j \in 1 .. Len(m) :
                  Titles(m)[j] = m[j].title /\ Urls(m)[j] = m[j].url
        BY <1>2, StoredFacts
      <4>2. ASSUME NEW j \in 1 .. Len(m)
            PROVE  m[j].title = SourcesTitle[j] /\ m[j].url = SourcesURL[j]
        <5>1. j \in 1 .. Len(l) /\ j \in 1 .. Len(SourcesTitle)
          BY <1>1, <1>2
        <5>2. l[j] = [title |-> SourcesTitle[j], url |-> SourcesURL[j],
                      isCurrent |-> FALSE]
          BY <1>1, <5>1
        <5> QED  BY <1>2, <5>1, <5>2
      <4> QED  BY <1>1, <1>2, <4>1, <4>2, SeqEqual
    <3>2. ASSUME saved # <<>>
          PROVE  saved = << SourcesTitle, SourcesURL >>
      <4>1. saved \in Seq(Title) \X Seq(Url)
        BY <1>0, <3>2 DEF SourcesTypeOK
      <4> QED  BY <3>2, <4>1 DEF SourcesTitle, SourcesURL
    <3>3. sources' = m /\ saved' = saved
      BY <1>3, <2>2 DEF Appear
    <3> QED  BY <1>0, <3>1, <3>2, <3>3 DEF StoredIsShown
  <2> QED  BY <2>1, <2>2
<1>7. AtMostOneCurrent'
  <2>1. CASE loaded
    BY <1>3, <2>1 DEF IInv, AtMostOneCurrent
  <2>2. CASE ~loaded
    <3>1. ASSUME NEW j \in 1 .. Len(m), j # 1
          PROVE  m[j].isCurrent = FALSE
      <4>1. j \in 1 .. Len(l) /\ j \in 1 .. Len(SourcesTitle)
        BY <1>1, <1>2
      <4>2. l[j] = [title |-> SourcesTitle[j], url |-> SourcesURL[j],
                    isCurrent |-> FALSE]
        BY <1>1, <4>1
      <4> QED  BY <1>2, <3>1, <4>1, <4>2
    <3>2. DOMAIN m = 1 .. Len(m)
      BY <1>2, SeqLen
    <3> QED  BY <1>3, <2>2, <3>1, <3>2 DEF AtMostOneCurrent
  <2> QED  BY <2>1, <2>2
<1>8. RowsAreSources'
  BY DEF Appear, ReloadSources, RowsAreSources
<1> QED  BY <1>5, <1>6, <1>7, <1>8 DEF IInv

(* Saving a new source: the one mark is on it, the whole list is stored.   *)
LEMMA SaveStep == IInv /\ Save => IInv'
<1> SUFFICES ASSUME IInv, Save PROVE IInv'
  OBVIOUS
<1> DEFINE r == RefreshIsCurrent(sources)
           new == [title |-> alert[1].title, url |-> alert[1].url,
                   isCurrent |-> TRUE]
<1>0. SourcesTypeOK /\ sources \in Seq(Source)
  BY DEF IInv, SourcesTypeOK
<1>1. alert[1].title \in Title /\ alert[1].url \in Url
  BY <1>0 DEF SourcesTypeOK, Save
<1>2. new \in Source
  BY <1>1 DEF Source
<1>3. /\ r \in Seq(Source) /\ Len(r) = Len(sources)
      /\ \A i \in 1 .. Len(sources) :
            r[i] = [title |-> sources[i].title, url |-> sources[i].url,
                    isCurrent |-> FALSE]
  BY <1>0, RefreshFacts
<1>4. sources' = Append(r, new)
  BY DEF Save
<1> HIDE DEF r, new
<1>5. /\ sources' \in Seq(Source) /\ sources' # <<>>
      /\ Len(sources') = Len(r) + 1
      /\ \A i \in 1 .. Len(r) : sources'[i] = r[i]
  BY <1>2, <1>3, <1>4, AppendProperties
<1>6. /\ saved' = << Titles(sources'), Urls(sources') >>
      /\ alert' = <<>> /\ UNCHANGED <<selected, loaded, starts>>
      /\ sourceTable' = sources' /\ warning' = (sources' = <<>>)
  BY DEF Save, SaveSourcesInUserDefaults, SaveSources, ReloadSources
<1>7. /\ Titles(sources') \in Seq(Title) /\ Urls(sources') \in Seq(Url)
      /\ Len(Titles(sources')) = Len(Urls(sources'))
  BY <1>5, StoredFacts
<1>8. SourcesTypeOK'
  BY <1>0, <1>2, <1>4, <1>5, <1>6, <1>7 DEF SourcesTypeOK
<1>9. StoredIsShown'
  BY <1>6, <1>7 DEF StoredIsShown
<1>10. AtMostOneCurrent'
  <2>1. ASSUME NEW i \in 1 .. Len(r)
        PROVE  sources'[i].isCurrent = FALSE
    <3>1. r[i] = [title |-> sources[i].title, url |-> sources[i].url,
                  isCurrent |-> FALSE]
      BY <1>3
    <3> QED  BY <1>5, <3>1
  <2>2. DOMAIN sources' = 1 .. Len(r) + 1 /\ Len(r) \in Nat
    BY <1>3, <1>5, SeqLen
  <2>3. ASSUME NEW i \in DOMAIN sources', sources'[i].isCurrent
        PROVE  i = Len(r) + 1
    <3>1. i \notin 1 .. Len(r)
      BY <2>1, <2>3
    <3> QED  BY <2>2, <3>1
  <2> QED  BY <2>3 DEF AtMostOneCurrent
<1>11. RowsAreSources'
  BY <1>6 DEF RowsAreSources
<1> QED  BY <1>8, <1>9, <1>10, <1>11 DEF IInv

(* Deleting a row clears the store, so it has nothing left to agree with.  *)
LEMMA DeleteStep ==
    ASSUME IInv, NEW i \in DOMAIN sourceTable, Delete(i)
    PROVE  IInv'
<1>0. SourcesTypeOK /\ sources \in Seq(Source) /\ sourceTable = sources
  BY DEF IInv, SourcesTypeOK, RowsAreSources
<1>1. /\ sources' = RemoveAt(sources, i) /\ sourceTable' = sources'
      /\ saved' = <<>> /\ warning' = (sources' = <<>>)
      /\ UNCHANGED <<selected, loaded, alert, starts>>
  BY <1>0 DEF Delete, ClearUserData
<1>2. /\ sources' \in Seq(Source) /\ Len(sources') = Len(sources) - 1
      /\ \A j \in 1 .. Len(sources) - 1 :
            sources'[j] = IF j < i THEN sources[j] ELSE sources[j + 1]
  BY <1>0, <1>1, RemoveAtSeq
<1>3. SourcesTypeOK'
  BY <1>0, <1>1, <1>2 DEF SourcesTypeOK
<1>4. AtMostOneCurrent'
  <2>0. /\ DOMAIN sources = 1 .. Len(sources) /\ Len(sources) \in Nat
        /\ DOMAIN sources' = 1 .. Len(sources) - 1 /\ i \in 1 .. Len(sources)
    BY <1>0, <1>2, SeqLen
  <2> DEFINE old(j) == IF j < i THEN j ELSE j + 1
  <2>1. ASSUME NEW j \in DOMAIN sources'
        PROVE  old(j) \in DOMAIN sources /\ sources'[j] = sources[old(j)]
    BY <1>2, <2>0
  <2>2. ASSUME NEW j \in DOMAIN sources', NEW k \in DOMAIN sources',
               sources'[j].isCurrent, sources'[k].isCurrent
        PROVE  j = k
    <3>1. old(j) = old(k)
      <4> HIDE DEF old
      <4> QED  BY <2>1, <2>2 DEF IInv, AtMostOneCurrent
    <3> QED  BY <2>0, <3>1
  <2> QED  BY <2>2 DEF AtMostOneCurrent
<1>5. StoredIsShown' /\ RowsAreSources'
  BY <1>1 DEF StoredIsShown, RowsAreSources
<1> QED  BY <1>3, <1>4, <1>5 DEF IInv

(* Selecting a row moves the mark, and leaves what is stored correct.      *)
LEMMA SelectStep ==
    ASSUME IInv, NEW i \in DOMAIN sourceTable, Select(i)
    PROVE  IInv'
<1> DEFINE r == RefreshIsCurrent(sources)
           m == MarkCurrent(r, i)
<1>0. SourcesTypeOK /\ sources \in Seq(Source) /\ i \in DOMAIN sources
  BY DEF IInv, SourcesTypeOK, RowsAreSources
<1>1. /\ r \in Seq(Source) /\ Len(r) = Len(sources)
      /\ \A j \in 1 .. Len(sources) :
            r[j] = [title |-> sources[j].title, url |-> sources[j].url,
                    isCurrent |-> FALSE]
  BY <1>0, RefreshFacts
<1>2. i \in DOMAIN r /\ r[i] \in Source
  BY <1>0, <1>1, SeqLen, ElementOfSeq
<1>3. /\ sources' = m /\ selected' = << r[i] >>
      /\ sourceTable' = sources' /\ warning' = (sources' = <<>>)
      /\ UNCHANGED <<loaded, saved, alert, starts>>
  BY DEF Select, ReloadSources
<1> HIDE DEF r
<1>4. /\ m \in Seq(Source) /\ Len(m) = Len(r)
      /\ \A j \in 1 .. Len(r) :
            /\ m[j].title = r[j].title /\ m[j].url = r[j].url
            /\ j # i => m[j].isCurrent = r[j].isCurrent
  BY <1>1, <1>2, MarkFacts
<1> HIDE DEF m
<1>5. ASSUME NEW j \in 1 .. Len(sources)
      PROVE  /\ m[j].title = sources[j].title /\ m[j].url = sources[j].url
             /\ j # i => m[j].isCurrent = FALSE
  <2>1. r[j] = [title |-> sources[j].title, url |-> sources[j].url,
                isCurrent |-> FALSE]
    BY <1>1
  <2> QED  BY <1>1, <1>4, <2>1
<1>6. SourcesTypeOK'
  BY <1>0, <1>2, <1>3, <1>4 DEF SourcesTypeOK
<1>7. Titles(m) = Titles(sources) /\ Urls(m) = Urls(sources)
  BY <1>1, <1>4, <1>5 DEF Titles, Urls
<1>8. StoredIsShown'
  BY <1>3, <1>7 DEF IInv, StoredIsShown
<1>9. AtMostOneCurrent'
  <2>1. DOMAIN m = 1 .. Len(sources)
    BY <1>1, <1>4, SeqLen
  <2> QED  BY <1>3, <1>5, <2>1 DEF AtMostOneCurrent
<1>10. RowsAreSources'
  BY <1>3 DEF RowsAreSources
<1> QED  BY <1>6, <1>8, <1>9, <1>10 DEF IInv

(* A new process knows the store and nothing else.                         *)
LEMMA RestartStep == IInv /\ Restart => IInv'
<1> SUFFICES ASSUME IInv, Restart PROVE IInv'
  OBVIOUS
<1>1. sources' \in Seq(Source) /\ sourceTable' \in Seq(Source)
  BY DEF Restart
<1>2. SourcesTypeOK'
  <2>1. starts' \in Nat
    BY DEF IInv, SourcesTypeOK, Restart
  <2> QED  BY <1>1, <2>1 DEF IInv, SourcesTypeOK, Restart
<1>3. AtMostOneCurrent'
  <2>1. DOMAIN sources' = {}
    BY DEF Restart
  <2> QED  BY <2>1 DEF AtMostOneCurrent
<1>4. StoredIsShown' /\ RowsAreSources'
  BY DEF IInv, Restart, StoredIsShown, RowsAreSources
<1> QED  BY <1>2, <1>3, <1>4 DEF IInv

(* Typing into the alert, opening and closing it.                          *)
LEMMA AlertStep == IInv /\ (CreateAlert \/ EditAlert \/ Cancel) => IInv'
<1> SUFFICES ASSUME IInv, CreateAlert \/ EditAlert \/ Cancel PROVE IInv'
  OBVIOUS
<1>1. alert' \in {<<>>} \cup
                  {<<a>> : a \in [title : Title, url : Url, enabled : BOOLEAN]}
  <2>1. CASE CreateAlert
    BY <2>1, SourcesAssumption DEF CreateAlert
  <2>2. CASE EditAlert
    <3>1. ASSUME NEW t \in Title, NEW u \in Url, TextDidChange(t, u)
          PROVE  alert' \in {<<a>> : a \in [title : Title, url : Url, enabled : BOOLEAN]}
      BY <3>1 DEF TextDidChange
    <3>2. alert[1].title \in Title /\ alert[1].url \in Url
      BY <2>2 DEF EditAlert, IInv, SourcesTypeOK
    <3> QED  BY <2>2, <3>1, <3>2 DEF EditAlert
  <2>3. CASE Cancel
    BY <2>3 DEF Cancel
  <2> QED  BY <2>1, <2>2, <2>3
<1>2. UNCHANGED <<sources, selected, loaded, saved, sourceTable, warning,
                  starts>>
  BY DEF CreateAlert, EditAlert, TextDidChange, Cancel
<1>3. SourcesTypeOK'
  BY <1>1, <1>2 DEF IInv, SourcesTypeOK
<1> QED  BY <1>2, <1>3, QuietStep

LEMMA IInvStep == IInv /\ [SourcesNext]_sourceVars => IInv'
<1> SUFFICES ASSUME IInv, [SourcesNext]_sourceVars PROVE IInv'
  OBVIOUS
<1>1. CASE UNCHANGED sourceVars
  <2>1. SourcesTypeOK'
    BY <1>1 DEF IInv, SourcesTypeOK, sourceVars
  <2> QED  BY <1>1, <2>1, QuietStep DEF sourceVars
<1> QED  BY <1>1, RestartStep, AppearStep, AlertStep, SaveStep, DeleteStep,
            SelectStep DEF SourcesNext

(* The source list is well typed and its rows are its sources; what is     *)
(* stored is nothing or what is shown; and at most one source is current.  *)
THEOREM SourcesInvariant ==
    SourcesSpec => [](SourcesTypeOK /\ StoredIsShown /\ AtMostOneCurrent /\ RowsAreSources)
<1>1. IInv => SourcesTypeOK /\ StoredIsShown /\ AtMostOneCurrent /\ RowsAreSources
  BY DEF IInv
<1> QED  BY <1>1, IInvInit, IInvStep, PTL DEF SourcesSpec

(* Every variable of the source screen keeps its type.                     *)
THEOREM SourcesTypes == SourcesSpec => []SourcesTypeOK
BY SourcesInvariant, PTL

(* What UserDefaults holds is nothing or the list on screen.               *)
THEOREM SourcesStored == SourcesSpec => []StoredIsShown
BY SourcesInvariant, PTL

(* At most one source carries the check mark.                              *)
THEOREM SourcesOneCurrent == SourcesSpec => []AtMostOneCurrent
BY SourcesInvariant, PTL

(* An index path of the table is an index of the list.                     *)
THEOREM SourcesRows == SourcesSpec => []RowsAreSources
BY SourcesInvariant, PTL

-----------------------------------------------------------------------------
(* Validation: what an enabled Save button would add has passed it, and so *)
(* has, or is a default, what is listed and what is stored.                *)
Allowed == (ValidTitle \X ValidUrl) \cup
           {<<DefaultTitles[i], DefaultUrls[i]>> : i \in DOMAIN DefaultTitles}
AlertIsValid ==
    alert # <<>> /\ alert[1].enabled =>
        alert[1].title \in ValidTitle /\ alert[1].url \in ValidUrl
ListIsAllowed  == \A i \in DOMAIN sources : Named(sources[i]) \in Allowed
StoreIsAllowed == saved # <<>> =>
    \A i \in DOMAIN saved[1] : <<saved[1][i], saved[2][i]>> \in Allowed
VInv == AlertIsValid /\ ListIsAllowed /\ StoreIsAllowed

(* A list with the titles and urls of an allowed one is allowed.           *)
LEMMA SameNames ==
    ASSUME ListIsAllowed, IInv, NEW list \in Seq(Source), sources' = list,
           Len(list) = Len(sources),
           \A j \in 1 .. Len(list) :
               list[j].title = sources[j].title /\ list[j].url = sources[j].url
    PROVE  ListIsAllowed'
<1>1. DOMAIN list = 1 .. Len(list) /\ DOMAIN sources = 1 .. Len(list)
  BY SeqLen DEF IInv, SourcesTypeOK
<1>2. ASSUME NEW j \in DOMAIN list PROVE Named(list[j]) \in Allowed
  BY <1>1 DEF Named, ListIsAllowed
<1> HIDE DEF Allowed
<1> QED  BY <1>2 DEF ListIsAllowed, Allowed

(* Loading lists what is stored, or the defaults.                          *)
LEMMA AppearValid == IInv /\ VInv /\ Appear => VInv'
<1> SUFFICES ASSUME IInv, VInv, Appear PROVE VInv'
  OBVIOUS
<1>0. SourcesTypeOK /\ (saved # <<>> => Len(saved[1]) = Len(saved[2]))
  BY DEF IInv, StoredIsShown
<1>1. saved' = saved /\ alert' = alert
  BY DEF Appear
<1>2. AlertIsValid' /\ StoreIsAllowed'
  BY <1>1 DEF VInv, AlertIsValid, StoreIsAllowed, Allowed
<1>3. ListIsAllowed'
  <2>1. CASE loaded
    BY <2>1 DEF Appear, VInv, ListIsAllowed, Allowed
  <2>2. CASE ~loaded
    <3> DEFINE l == LoadSources
               m == SetIsCurrent(LoadSources)
    <3>1. /\ l \in Seq(Source) /\ Len(l) = Len(SourcesTitle)
          /\ SourcesTitle \in Seq(Title)
          /\ \A i \in 1 .. Len(SourcesTitle) :
                l[i] = [title |-> SourcesTitle[i], url |-> SourcesURL[i],
                        isCurrent |-> FALSE]
      BY <1>0, LoadFacts
    <3>2. /\ m \in Seq(Source) /\ Len(m) = Len(l)
          /\ \A j \in 1 .. Len(l) :
                m[j].title = l[j].title /\ m[j].url = l[j].url
      BY <3>1, SetFacts
    <3>3. sources' = m
      BY <2>2 DEF Appear
    <3> HIDE DEF l, m
    <3>4. ASSUME NEW j \in 1 .. Len(SourcesTitle)
          PROVE  <<SourcesTitle[j], SourcesURL[j]>> \in Allowed
      <4>1. CASE saved = <<>>
        <5>1. j \in DOMAIN DefaultTitles
          BY <4>1, SourcesAssumption, SeqLen DEF SourcesTitle
        <5> QED  BY <4>1, <5>1 DEF Allowed, SourcesTitle, SourcesURL
      <4>2. CASE saved # <<>>
        <5>1. saved \in Seq(Title) \X Seq(Url)
          BY <4>2, <1>0 DEF SourcesTypeOK
        <5>2. j \in DOMAIN saved[1]
          BY <4>2, <5>1, SeqLen DEF SourcesTitle
        <5> QED  BY <4>2, <5>2 DEF VInv, StoreIsAllowed, SourcesTitle, SourcesURL
      <4> QED  BY <4>1, <4>2
    <3>5. ASSUME NEW j \in DOMAIN m PROVE Named(m[j]) \in Allowed
      <4>1. j \in 1 .. Len(m) /\ j \in 1 .. Len(SourcesTitle)
        BY <3>1, <3>2, SeqLen
      <4>2. l[j] = [title |-> SourcesTitle[j], url |-> SourcesURL[j],
                    isCurrent |-> FALSE]
        BY <3>1, <4>1
      <4>3. m[j].title = SourcesTitle[j] /\ m[j].url = SourcesURL[j]
        BY <3>1, <3>2, <4>1, <4>2
      <4> QED  BY <3>4, <4>1, <4>3 DEF Named
    <3> HIDE DEF Allowed
    <3> QED  BY <3>3, <3>5 DEF ListIsAllowed, Allowed
  <2> QED  BY <2>1, <2>2
<1> QED  BY <1>2, <1>3 DEF VInv

(* The texts of an enabled alert join the list, and all of it is stored.   *)
LEMMA SaveValid == IInv /\ VInv /\ Save => VInv'
<1> SUFFICES ASSUME IInv, VInv, Save PROVE VInv'
  OBVIOUS
<1> DEFINE r == RefreshIsCurrent(sources)
           new == [title |-> alert[1].title, url |-> alert[1].url,
                   isCurrent |-> TRUE]
           s == Append(r, new)
<1>0. SourcesTypeOK /\ sources \in Seq(Source)
  BY DEF IInv, SourcesTypeOK
<1>1. /\ new \in Source
      /\ Named(new) \in Allowed
  <2>1. alert[1].title \in Title /\ alert[1].url \in Url
    BY <1>0 DEF SourcesTypeOK, Save
  <2>2. alert[1].title \in ValidTitle /\ alert[1].url \in ValidUrl
    BY DEF VInv, AlertIsValid, Save
  <2>3. new.title = alert[1].title /\ new.url = alert[1].url
    OBVIOUS
  <2> QED  BY <2>1, <2>2, <2>3 DEF Source, Named, Allowed
<1>2. /\ r \in Seq(Source) /\ Len(r) = Len(sources)
      /\ \A i \in 1 .. Len(sources) :
            r[i] = [title |-> sources[i].title, url |-> sources[i].url,
                    isCurrent |-> FALSE]
  BY <1>0, RefreshFacts
<1>3. sources' = s /\ saved' = << Titles(s), Urls(s) >> /\ alert' = <<>>
  BY DEF Save, SaveSourcesInUserDefaults, SaveSources
<1> HIDE DEF r, new
<1>4. /\ s \in Seq(Source) /\ Len(s) = Len(r) + 1 /\ s[Len(r) + 1] = new
      /\ \A i \in 1 .. Len(r) : s[i] = r[i]
  BY <1>1, <1>2, AppendProperties
<1> HIDE DEF s
<1>5. DOMAIN s = 1 .. Len(r) + 1 /\ DOMAIN sources = 1 .. Len(r) /\ Len(r) \in Nat
  BY <1>0, <1>2, <1>4, SeqLen
<1>6. ASSUME NEW j \in DOMAIN s PROVE Named(s[j]) \in Allowed
  <2>1. CASE j \in 1 .. Len(r)
    <3>1. Named(sources[j]) \in Allowed
      BY <1>5, <2>1 DEF VInv, ListIsAllowed
    <3>2. s[j] = [title |-> sources[j].title, url |-> sources[j].url,
                  isCurrent |-> FALSE]
      BY <1>2, <1>4, <2>1
    <3> QED  BY <3>1, <3>2 DEF Named
  <2>2. CASE j \notin 1 .. Len(r)
    <3>1. j = Len(r) + 1
      BY <1>5, <2>2
    <3> QED  BY <1>1, <1>4, <3>1
  <2> QED  BY <2>1, <2>2
<1>7. ASSUME NEW j \in DOMAIN Titles(s)
      PROVE  <<Titles(s)[j], Urls(s)[j]>> \in Allowed
  <2>1. /\ Titles(s) \in Seq(Title) /\ Len(Titles(s)) = Len(s)
        /\ \A k \in 1 .. Len(s) :
              Titles(s)[k] = s[k].title /\ Urls(s)[k] = s[k].url
    BY <1>4, StoredFacts
  <2>2. j \in 1 .. Len(s) /\ j \in DOMAIN s
    BY <1>4, <1>5, <2>1, SeqLen
  <2> QED  BY <1>6, <2>1, <2>2 DEF Named
<1> HIDE DEF Allowed
<1>8. ListIsAllowed'
  BY <1>3, <1>6 DEF ListIsAllowed, Allowed
<1>9. StoreIsAllowed'
  <2>1. saved'[1] = Titles(s) /\ saved'[2] = Urls(s)
    BY <1>3
  <2> QED  BY <1>7, <2>1 DEF StoreIsAllowed, Allowed
<1>10. AlertIsValid'
  BY <1>3 DEF AlertIsValid
<1> QED  BY <1>8, <1>9, <1>10 DEF VInv

\* Clearing the store and reloading keeps what is listed valid.
LEMMA DeleteValid ==
    ASSUME IInv, VInv, NEW i \in DOMAIN sourceTable, Delete(i)
    PROVE  VInv'
<1>0. sources \in Seq(Source) /\ i \in DOMAIN sources
  BY DEF IInv, SourcesTypeOK, RowsAreSources
<1>1. sources' = RemoveAt(sources, i) /\ saved' = <<>> /\ alert' = alert
  BY DEF Delete, ClearUserData
<1>2. /\ sources' \in Seq(Source) /\ Len(sources') = Len(sources) - 1
      /\ \A j \in 1 .. Len(sources) - 1 :
            sources'[j] = IF j < i THEN sources[j] ELSE sources[j + 1]
  BY <1>0, <1>1, RemoveAtSeq
<1>3. /\ DOMAIN sources = 1 .. Len(sources) /\ Len(sources) \in Nat
      /\ DOMAIN sources' = 1 .. Len(sources) - 1
  BY <1>0, <1>2, SeqLen
<1>4. ASSUME NEW j \in DOMAIN sources' PROVE Named(sources'[j]) \in Allowed
  <2>1. \E k \in DOMAIN sources : sources'[j] = sources[k]
    BY <1>2, <1>3
  <2> HIDE DEF Allowed
  <2> QED  BY <2>1 DEF VInv, ListIsAllowed
<1> HIDE DEF Allowed
<1>5. ListIsAllowed'
  BY <1>4 DEF ListIsAllowed, Allowed
<1> QED  BY <1>1, <1>5 DEF VInv, StoreIsAllowed, AlertIsValid

\* So does moving the mark.
LEMMA SelectValid ==
    ASSUME IInv, VInv, NEW i \in DOMAIN sourceTable, Select(i)
    PROVE  VInv'
<1> DEFINE r == RefreshIsCurrent(sources)
           m == MarkCurrent(r, i)
<1>0. sources \in Seq(Source) /\ i \in DOMAIN sources
  BY DEF IInv, SourcesTypeOK, RowsAreSources
<1>1. /\ r \in Seq(Source) /\ Len(r) = Len(sources)
      /\ \A j \in 1 .. Len(sources) :
            r[j] = [title |-> sources[j].title, url |-> sources[j].url,
                    isCurrent |-> FALSE]
  BY <1>0, RefreshFacts
<1>2. i \in DOMAIN r
  BY <1>0, <1>1, SeqLen
<1>3. sources' = m /\ saved' = saved /\ alert' = alert
  BY DEF Select
<1> HIDE DEF r
<1>4. /\ m \in Seq(Source) /\ Len(m) = Len(r)
      /\ \A j \in 1 .. Len(r) : m[j].title = r[j].title /\ m[j].url = r[j].url
  BY <1>1, <1>2, MarkFacts
<1> HIDE DEF m
<1>5. ASSUME NEW j \in 1 .. Len(m)
      PROVE  m[j].title = sources[j].title /\ m[j].url = sources[j].url
  <2>1. r[j] = [title |-> sources[j].title, url |-> sources[j].url,
                isCurrent |-> FALSE]
    BY <1>1, <1>4
  <2> QED  BY <1>1, <1>4, <2>1
<1>6. ListIsAllowed'
  BY <1>1, <1>3, <1>4, <1>5, SameNames DEF VInv
<1> QED  BY <1>3, <1>6 DEF VInv, StoreIsAllowed, AlertIsValid, Allowed

\* So does opening or leaving the alert.
LEMMA AlertValid == VInv /\ (CreateAlert \/ EditAlert \/ Cancel) => VInv'
<1> SUFFICES ASSUME VInv, CreateAlert \/ EditAlert \/ Cancel PROVE VInv'
  OBVIOUS
<1>1. AlertIsValid'
  <2>1. CASE CreateAlert
    BY <2>1 DEF CreateAlert, AlertIsValid
  <2>2. CASE EditAlert
    <3>1. ASSUME NEW t, NEW u, TextDidChange(t, u)
          PROVE  AlertIsValid'
      BY <3>1 DEF TextDidChange, AlertIsValid
    <3> QED  BY <2>2, <3>1 DEF EditAlert
  <2>3. CASE Cancel
    BY <2>3 DEF Cancel, AlertIsValid
  <2> QED  BY <2>1, <2>2, <2>3
<1>2. UNCHANGED <<sources, saved>>
  BY DEF CreateAlert, EditAlert, TextDidChange, Cancel
<1> QED  BY <1>1, <1>2 DEF VInv, ListIsAllowed, StoreIsAllowed, Allowed

(* Whatever is listed or stored, in this process or a later one, is a      *)
(* default or has passed the validation of the alert.                      *)
THEOREM SourcesAreValid == SourcesSpec => []ListedIsValid
<1>1. SourcesInit => VInv
  BY DEF SourcesInit, VInv, AlertIsValid, ListIsAllowed, StoreIsAllowed
<1>2. IInv /\ VInv /\ [SourcesNext]_sourceVars => VInv'
  <2> SUFFICES ASSUME IInv, VInv, [SourcesNext]_sourceVars PROVE VInv'
    OBVIOUS
  <2>1. CASE UNCHANGED sourceVars
    BY <2>1 DEF sourceVars, VInv, AlertIsValid, ListIsAllowed, StoreIsAllowed, Allowed
  <2>2. CASE Restart
    BY <2>2 DEF Restart, VInv, AlertIsValid, ListIsAllowed, StoreIsAllowed, Allowed
  <2> QED  BY <2>1, <2>2, AppearValid, AlertValid, SaveValid, DeleteValid,
              SelectValid DEF SourcesNext
<1>3. VInv => ListedIsValid
  BY DEF VInv, ListIsAllowed, StoreIsAllowed, ListedIsValid, Allowed
<1> QED  BY <1>1, <1>2, <1>3, IInvInit, IInvStep, PTL DEF SourcesSpec

-----------------------------------------------------------------------------
(* The application                                                         *)

NoDelegate == delegate = "nil"

(* Every step of the application is a step of the list screen, or leaves   *)
(* it alone.                                                               *)
LEMMA FeedSteps == NoDelegate /\ [AppNext]_vars => [Next]_feedVars
<1> SUFFICES ASSUME NoDelegate, [AppNext]_vars
             PROVE  Next \/ UNCHANGED feedVars
  OBVIOUS
<1>1. CASE ListStep \/ LoadAnswered \/ LoadFinished
  BY <1>1 DEF ListStep, LoadAnswered, LoadFinished, Next, User
<1>2. CASE SourceStep
  BY <1>2 DEF SourceStep
<1>3. CASE SaveSource
  BY <1>3 DEF SaveSource, TellDelegate, NoDelegate
<1>4. ASSUME NEW i \in DOMAIN sourceTable, SelectSource(i)
      PROVE  UNCHANGED feedVars
  BY <1>4 DEF SelectSource, TellDelegate, NoDelegate
<1>5. CASE ShowTab
  BY <1>5 DEF ShowTab, Next, User
<1>6. CASE StartAgain
  BY <1>6 DEF StartAgain, Next
<1>7. CASE UNCHANGED vars
  BY <1>7 DEF vars
<1> QED
  BY <1>1, <1>2, <1>3, <1>4, <1>5, <1>6, <1>7 DEF AppNext

(* And the same of the source screen.                                      *)
LEMMA SourceSteps == [AppNext]_vars => [SourcesNext]_sourceVars
<1> SUFFICES ASSUME [AppNext]_vars
             PROVE  SourcesNext \/ UNCHANGED sourceVars
  OBVIOUS
<1>1. CASE ListStep \/ LoadAnswered \/ LoadFinished
  BY <1>1 DEF ListStep, LoadAnswered, LoadFinished
<1>2. CASE SourceStep
  BY <1>2 DEF SourceStep, SourcesNext
<1>3. CASE SaveSource
  BY <1>3 DEF SaveSource, SourcesNext
<1>4. ASSUME NEW i \in DOMAIN sourceTable, SelectSource(i)
      PROVE  SourcesNext
  BY <1>4 DEF SelectSource, SourcesNext
<1>5. CASE ShowTab
  BY <1>5 DEF ShowTab, SourcesNext
<1>6. CASE StartAgain
  BY <1>6 DEF StartAgain, SourcesNext
<1>7. CASE UNCHANGED vars
  BY <1>7 DEF vars
<1> QED
  BY <1>1, <1>2, <1>3, <1>4, <1>5, <1>6, <1>7 DEF AppNext

-----------------------------------------------------------------------------
(* Nothing in the application ever assigns the delegate: a start builds    *)
(* the source screen with none, and no handler of it gets one.             *)
LEMMA DelegateStaysNil == AppSpec => []NoDelegate
<1>1. AppInit => NoDelegate
  BY DEF AppInit, NoDelegate
<1>2. NoDelegate /\ [AppNext]_vars => NoDelegate'
  BY DEF NoDelegate, AppNext, ListStep, LoadAnswered, LoadFinished, SourceStep,
         SaveSource, SelectSource, ShowTab, StartAgain, vars
<1> QED
  BY <1>1, <1>2, PTL DEF AppSpec

LEMMA AppFollowsFeed == AppSpec => Spec
<1>1. AppInit => Init
  BY DEF AppInit
<1> QED
  BY <1>1, FeedSteps, DelegateStaysNil, PTL DEF AppSpec, Spec

LEMMA AppFollowsSources == AppSpec => SourcesSpec
<1>1. AppInit => SourcesInit
  BY DEF AppInit
<1> QED
  BY <1>1, SourceSteps, PTL DEF AppSpec, SourcesSpec

(* Whatever the user adds, selects and deletes on the source screen, the   *)
(* list screen never runs two loads at once, and its rows are entries.     *)
THEOREM AppOneLoad == AppSpec => [](OneLoadAtATime /\ RowsAreEntries)
BY AppFollowsFeed, FeedOneLoad, FeedTypeAndRows, PTL

(* And whatever happens on the list screen, what is stored is what the     *)
(* source screen shows, and what it lists is valid.                        *)
THEOREM AppStored == AppSpec => [](StoredIsShown /\ ListedIsValid)
BY AppFollowsSources, SourcesStored, SourcesAreValid, PTL

-----------------------------------------------------------------------------
(* Which source is loaded                                                  *)

(* Every handler of the list screen keeps to the source it has: a load     *)
(* asks for currentSource, brings its stories only, and appends them.      *)
LEMMA OnlyDefaultStep ==
    TypeOK /\ RowsAreEntries /\ OnlyDefaultIsLoaded /\ [Next]_feedVars
        => OnlyDefaultIsLoaded'
<1> SUFFICES ASSUME TypeOK, RowsAreEntries, OnlyDefaultIsLoaded, [Next]_feedVars
             PROVE  OnlyDefaultIsLoaded'
  OBVIOUS
<1>0. /\ newsItem \in Seq(Entry) /\ loads \in Seq(SourceId)
      /\ mainQueue \in Seq(Seq(Story))
  BY DEF TypeOK
<1>1. CASE UNCHANGED <<newsItem, currentSource, loads, mainQueue>>
  BY <1>1 DEF OnlyDefaultIsLoaded
<1>2. CASE PullToRefresh
  <2>1. /\ loads' = Append(loads, DefaultSource)
        /\ UNCHANGED <<newsItem, currentSource, mainQueue>>
    BY <1>2 DEF PullToRefresh, UpdateTableView, OnlyDefaultIsLoaded
  <2>2. \A i \in DOMAIN loads' : loads'[i] = DefaultSource
    BY <1>0, <2>1, FeedAssumption, AppendProperties, SeqLen DEF OnlyDefaultIsLoaded
  <2> QED  BY <2>1, <2>2 DEF OnlyDefaultIsLoaded
<1>3. ASSUME NEW i \in DOMAIN loads, Answer(i) \/ Fail(i)
      PROVE  OnlyDefaultIsLoaded'
  <2>1. loads' = RemoveAt(loads, i) /\ UNCHANGED <<newsItem, currentSource>>
    BY <1>3 DEF Answer, Fail
  <2>2. \A j \in DOMAIN loads' : loads'[j] = DefaultSource
    <3>1. /\ loads' \in Seq(SourceId) /\ Len(loads') = Len(loads) - 1
          /\ \A j \in 1 .. Len(loads) - 1 :
                loads'[j] = IF j < i THEN loads[j] ELSE loads[j + 1]
      BY <1>0, <2>1, RemoveAtSeq
    <3>2. /\ DOMAIN loads = 1 .. Len(loads) /\ Len(loads) \in Nat
          /\ DOMAIN loads' = 1 .. Len(loads) - 1
      BY <1>0, <3>1, SeqLen
    <3> QED  BY <3>1, <3>2 DEF OnlyDefaultIsLoaded
  <2>3. \A q \in DOMAIN mainQueue' : \A j \in DOMAIN mainQueue'[q] :
           mainQueue'[q][j].source = DefaultSource
    <3>1. CASE mainQueue' = mainQueue
      BY <3>1 DEF OnlyDefaultIsLoaded
    <3>2. CASE mainQueue' = Append(mainQueue, Feed(loads[i]))
      <4>1. loads[i] = DefaultSource /\ published \in [SourceId -> Nat]
        BY DEF OnlyDefaultIsLoaded, TypeOK
      <4>2. Feed(loads[i]) \in Seq(Story)
        BY <4>1, FeedAssumption, FeedType
      <4>3. \A j \in DOMAIN Feed(loads[i]) : Feed(loads[i])[j].source = DefaultSource
        BY <4>1 DEF Feed
      <4> DEFINE f == Feed(loads[i])
      <4> HIDE DEF f
      <4>4. /\ mainQueue' \in Seq(Seq(Story)) /\ Len(mainQueue') = Len(mainQueue) + 1
            /\ \A q \in 1 .. Len(mainQueue) : mainQueue'[q] = mainQueue[q]
            /\ mainQueue'[Len(mainQueue) + 1] = f
        BY <1>0, <3>2, <4>2, AppendProperties DEF f
      <4>5. /\ DOMAIN mainQueue = 1 .. Len(mainQueue) /\ Len(mainQueue) \in Nat
            /\ DOMAIN mainQueue' = 1 .. Len(mainQueue) + 1
        BY <1>0, <4>4, SeqLen
      <4> QED  BY <4>3, <4>4, <4>5 DEF OnlyDefaultIsLoaded, f
    <3> QED  BY <1>3, <3>1, <3>2 DEF Answer, Fail
  <2> QED  BY <2>1, <2>2, <2>3 DEF OnlyDefaultIsLoaded
<1>4. CASE LoadCompleted
  <2> DEFINE stories == Head(mainQueue)
             new == Unread(stories)
  <2>1. /\ mainQueue # <<>> /\ mainQueue' = Tail(mainQueue)
        /\ newsItem' = newsItem \o new /\ UNCHANGED <<currentSource, loads>>
    BY <1>4 DEF LoadCompleted, Loaded
  <2>2. /\ stories = mainQueue[1] /\ stories \in Seq(Story)
        /\ DOMAIN mainQueue = 1 .. Len(mainQueue) /\ Len(mainQueue) \in Nat
        /\ 1 \in DOMAIN mainQueue
        /\ mainQueue' \in Seq(Seq(Story)) /\ DOMAIN mainQueue' = 1 .. Len(mainQueue) - 1
        /\ \A q \in 1 .. Len(mainQueue) - 1 : mainQueue'[q] = mainQueue[q + 1]
    BY <1>0, <2>1, SeqLen, HeadTailProperties, ElementOfSeq
  <2>3. /\ new \in Seq(Entry) /\ DOMAIN new = 1 .. Len(stories) /\ Len(new) = Len(stories)
        /\ DOMAIN stories = 1 .. Len(stories) /\ Len(stories) \in Nat
        /\ \A j \in 1 .. Len(stories) : new[j].story = stories[j]
    <3>1. new \in Seq(Entry)
      BY <2>2, UnreadType
    <3>2. DOMAIN new = 1 .. Len(stories) /\ \A j \in 1 .. Len(stories) : new[j].story = stories[j]
      BY DEF Unread
    <3> QED  BY <2>2, <3>1, <3>2, SeqLen
  <2> HIDE DEF stories, new
  <2>4. \A q \in DOMAIN mainQueue' : \A j \in DOMAIN mainQueue'[q] :
           mainQueue'[q][j].source = DefaultSource
    <3>1. ASSUME NEW q \in DOMAIN mainQueue'
          PROVE  q + 1 \in DOMAIN mainQueue /\ mainQueue'[q] = mainQueue[q + 1]
      BY <2>2
    <3> QED  BY <3>1 DEF OnlyDefaultIsLoaded
  <2>5. \A j \in DOMAIN newsItem' : newsItem'[j].story.source = DefaultSource
    <3>1. /\ Len(newsItem \o new) = Len(newsItem) + Len(new)
          /\ newsItem \o new \in Seq(Entry)
          /\ \A j \in 1 .. Len(newsItem) + Len(new) : (newsItem \o new)[j] =
                IF j <= Len(newsItem) THEN newsItem[j] ELSE new[j - Len(newsItem)]
      BY <1>0, <2>3, ConcatProperties
    <3>2. /\ DOMAIN newsItem = 1 .. Len(newsItem) /\ Len(newsItem) \in Nat
          /\ DOMAIN newsItem' = 1 .. Len(newsItem) + Len(new) /\ Len(new) \in Nat
      BY <1>0, <2>1, <2>3, <3>1, SeqLen
    <3>3. \A j \in 1 .. Len(new) : new[j].story.source = DefaultSource
      <4>1. \A j \in DOMAIN mainQueue[1] : mainQueue[1][j].source = DefaultSource
        BY <2>2 DEF OnlyDefaultIsLoaded
      <4> QED  BY <2>2, <2>3, <4>1
    <3>4. ASSUME NEW j \in DOMAIN newsItem' PROVE newsItem'[j].story.source = DefaultSource
      <4>1. CASE j \in 1 .. Len(newsItem)
        BY <2>1, <3>1, <3>2, <4>1 DEF OnlyDefaultIsLoaded
      <4>2. CASE j \notin 1 .. Len(newsItem)
        <5>1. /\ j \in Len(newsItem) + 1 .. Len(newsItem) + Len(new)
              /\ j - Len(newsItem) \in 1 .. Len(new)
          BY <3>2, <4>2
        <5> QED  BY <2>1, <3>1, <3>2, <3>3, <5>1
      <4> QED  BY <4>1, <4>2
    <3> QED  BY <3>4
  <2> QED  BY <2>1, <2>4, <2>5 DEF OnlyDefaultIsLoaded
<1>5. ASSUME NEW i \in DOMAIN feedTable, OpenRow(i)
      PROVE  OnlyDefaultIsLoaded'
  <2>1. i \in DOMAIN newsItem
    BY DEF RowsAreEntries, TypeOK
  <2>2. /\ newsItem' = [newsItem EXCEPT ![i] = [newsItem[i] EXCEPT !.isReading = TRUE]]
        /\ UNCHANGED <<currentSource, loads, mainQueue>>
    BY <1>5 DEF OpenRow, MarkRead
  <2>3. \A j \in DOMAIN newsItem : newsItem[j] \in Entry
    BY <1>0, SeqLen, ElementOfSeq
  <2>4. DOMAIN newsItem' = DOMAIN newsItem
    BY <2>2
  <2>5. \A j \in DOMAIN newsItem : newsItem'[j].story = newsItem[j].story
    BY <2>1, <2>2, <2>3 DEF Entry
  <2> QED  BY <2>2, <2>4, <2>5 DEF OnlyDefaultIsLoaded
<1>6. CASE Relaunch
  BY <1>6 DEF Relaunch, OnlyDefaultIsLoaded
<1>7. CASE Back \/ SwitchTab \/ (\E s \in SourceId : Publish(s)) \/ UNCHANGED feedVars
  BY <1>1, <1>7 DEF Back, SwitchTab, Publish, feedVars
<1> QED
  BY <1>2, <1>3, <1>4, <1>5, <1>6, <1>7 DEF Next, User, Network

(* Adding and selecting sources has no effect on what is loaded: nobody    *)
(* assigns the delegate the list screen would hear of it from.             *)
THEOREM AppOnlyDefault == AppSpec => []OnlyDefaultIsLoaded
<1>1. Init => OnlyDefaultIsLoaded
  BY DEF Init, OnlyDefaultIsLoaded
<1>2. Spec => []OnlyDefaultIsLoaded
  BY <1>1, OnlyDefaultStep, FeedTypeAndRows, PTL DEF Spec
<1> QED
  BY <1>2, AppFollowsFeed, PTL
=============================================================================
