-------------------------------- MODULE Sources --------------------------------
(***************************************************************************)
(* The source list: SourceViewController, SourceViewModel and the two      *)
(* arrays UserDefaultManager keeps in UserDefaults (Controllers/Source,    *)
(* UserDefault/UserDefaultManager.swift, Extensions/UIAlertController).    *)
(*                                                                         *)
(* All handlers run on the main thread.  UserDefaults outlives the process *)
(* and the view controller does not: its viewDidLoad reads the list again. *)
(* Titles and urls are opaque texts, of which isValidTitle and isValidURL  *)
(* accept some.                                                            *)
(***************************************************************************)
EXTENDS Naturals, Sequences, SequencesExt

CONSTANTS
    Title, Url,                 \* what the user may type into the alert
    NoText,                     \* the text of an empty field
    ValidTitle, ValidUrl,       \* what isValidTitle and isValidURL accept
    DefaultTitles, DefaultUrls, \* the arrays UserDetails falls back to
    MaxSources,                 \* bound: rows at which no source is added
    MaxStarts                   \* bound: starts of the process

ASSUME SourcesAssumption ==
    /\ NoText \in Title \cap Url
    /\ ValidTitle \subseteq Title \ {NoText} /\ ValidUrl \subseteq Url \ {NoText}
    /\ DefaultTitles \in Seq(Title) /\ DefaultUrls \in Seq(Url)
    /\ Len(DefaultTitles) = Len(DefaultUrls)
    /\ MaxSources \in Nat /\ MaxStarts \in Nat

VARIABLES
    sources,        \* viewModel.sources
    selected,       \* viewModel.currentSource, <<>> for nil
    loaded,         \* whether viewDidLoad has run in this process
    saved,          \* UserDefaults: <<>> for no object, else <<titles, urls>>
    sourceTable,    \* the rows the table view shows
    warning,        \* whether the "no sources" label is visible
    alert,          \* <<>>, or the texts in the alert that is up
    starts          \* how many times the process was started

sourceVars == <<sources, selected, loaded, saved, sourceTable, warning, alert,
                starts>>

Source == [title : Title, url : Url, isCurrent : BOOLEAN]
Named(s) == <<s.title, s.url>>

Titles(list) == [i \in 1 .. Len(list) |-> list[i].title]
Urls(list)   == [i \in 1 .. Len(list) |-> list[i].url]

-----------------------------------------------------------------------------
(* UserDefaultManager                                                      *)

SaveSources(titles, urls) == saved' = << titles, urls >>
ForgetToClear             == UNCHANGED saved    \* a bug: nothing is cleared
ClearUserData             == saved' = <<>>
SourcesTitle == IF saved = <<>> THEN DefaultTitles ELSE saved[1]
SourcesURL   == IF saved = <<>> THEN DefaultUrls   ELSE saved[2]

(* SourceViewModel                                                         *)

(* loadSources: url is indexed with the positions of title.                *)
LoadSources ==
    [i \in 1 .. Len(SourcesTitle) |->
        [title |-> SourcesTitle[i], url |-> SourcesURL[i], isCurrent |-> FALSE]]

(* refreshIsCurrent, and the loop of didSelectRowAt that does the same.    *)
RefreshCopies(list) == list     \* a bug: the structs are copied, then reset
RefreshIsCurrent(list) ==
    [i \in 1 .. Len(list) |-> [list[i] EXCEPT !.isCurrent = FALSE]]

MarkCurrent(list, i) == [list EXCEPT ![i].isCurrent = TRUE]

(* setIsCurrent: the first source, if there is one.                        *)
SetIsCurrent(list) == IF list = <<>> THEN list ELSE MarkCurrent(list, 1)

SaveModels(list) == SaveSources(list, Urls(list))   \* a bug: not the titles
SaveSourcesInUserDefaults(list) == SaveSources(Titles(list), Urls(list))

-----------------------------------------------------------------------------
(* The table reads the number of its rows when it is reloaded, and         *)
(* numberOfRowsInSection shows or hides the label on the way.              *)
ReloadRows(list) ==             \* a bug: the label is not looked after
    /\ sourceTable' = list
    /\ UNCHANGED warning
ReloadSources(list) ==
    /\ sourceTable' = list
    /\ warning' = (list = <<>>)

(* The state of a process whose source screen has not been looked at.      *)
SourcesInit ==
    /\ sources = <<>> /\ selected = <<>> /\ loaded = FALSE
    /\ saved = <<>>
    /\ sourceTable = <<>> /\ warning = TRUE /\ alert = <<>>
    /\ starts = 1

Restart ==
    /\ starts < MaxStarts
    /\ starts' = starts + 1
    /\ sources' = <<>> /\ selected' = <<>> /\ loaded' = FALSE
    /\ sourceTable' = <<>> /\ warning' = TRUE /\ alert' = <<>>
    /\ UNCHANGED saved

(* The tab is shown: viewDidLoad the first time, viewWillAppear each time. *)
Appear ==
    /\ alert = <<>>
    /\ loaded' = TRUE
    /\ sources' = IF loaded THEN sources ELSE SetIsCurrent(LoadSources)
    /\ ReloadSources(sources')
    /\ UNCHANGED <<selected, saved, alert, starts>>

(* createAlert: two empty fields, and a Save button that is disabled.      *)
CreateAlert ==
    /\ loaded /\ alert = <<>>
    /\ Len(sources) < MaxSources
    /\ alert' = << [title |-> NoText, url |-> NoText, enabled |-> FALSE] >>
    /\ UNCHANGED <<sources, selected, loaded, saved, sourceTable, warning,
                   starts>>

(* textDidChangeAlert, on every change of either field.                    *)
TextDidChangeAny(title, url) ==     \* a bug: one valid field is enough
    /\ alert' = << [title |-> title, url |-> url,
                    enabled |-> url \in ValidUrl \/ title \in ValidTitle] >>
    /\ UNCHANGED <<sources, selected, loaded, saved, sourceTable, warning,
                   starts>>
TextDidChange(title, url) ==
    /\ alert' = << [title |-> title, url |-> url,
                    enabled |-> url \in ValidUrl /\ title \in ValidTitle] >>
    /\ UNCHANGED <<sources, selected, loaded, saved, sourceTable, warning,
                   starts>>

EditAlert ==
    /\ alert # <<>>
    /\ \/ \E t \in Title : TextDidChange(t, alert[1].url)
       \/ \E u \in Url : TextDidChange(alert[1].title, u)

Cancel ==
    /\ alert # <<>>
    /\ alert' = <<>>
    /\ UNCHANGED <<sources, selected, loaded, saved, sourceTable, warning,
                   starts>>

(* The handler of Save: the new source becomes the current one and the     *)
(* whole list is stored.                                                   *)
Save ==
    /\ alert # <<>> /\ alert[1].enabled
    /\ LET new == [title |-> alert[1].title, url |-> alert[1].url,
                   isCurrent |-> TRUE]
       IN  sources' = Append(RefreshIsCurrent(sources), new)
    /\ ReloadSources(sources')
    /\ SaveSourcesInUserDefaults(sources')
    /\ alert' = <<>>
    /\ UNCHANGED <<selected, loaded, starts>>

(* Swipe to delete: everything stored is cleared, the row is removed.      *)
Delete(i) ==
    /\ alert = <<>>
    /\ ClearUserData
    /\ sources' = RemoveAt(sources, i)
    /\ sourceTable' = RemoveAt(sourceTable, i)      \* deleteRows(at:)
    /\ warning' = (sources' = <<>>)
    /\ UNCHANGED <<selected, loaded, alert, starts>>

(* didSelectRowAt: the source is copied before its mark is set.            *)
Select(i) ==
    /\ alert = <<>>
    /\ LET unmarked == RefreshIsCurrent(sources)
       IN  /\ selected' = << unmarked[i] >>
           /\ sources' = MarkCurrent(unmarked, i)
    /\ ReloadSources(sources')
    /\ UNCHANGED <<loaded, saved, alert, starts>>

SourcesNext ==
    \/ Restart
    \/ Appear
    \/ CreateAlert
    \/ EditAlert
    \/ Cancel
    \/ Save
    \/ \E i \in DOMAIN sourceTable : Delete(i)
    \/ \E i \in DOMAIN sourceTable : Select(i)

SourcesSpec == SourcesInit /\ [][SourcesNext]_sourceVars

-----------------------------------------------------------------------------
SourcesTypeOK ==
    /\ sources \in Seq(Source) /\ sourceTable \in Seq(Source)
    /\ selected \in {<<>>} \cup {<<s>> : s \in Source}
    /\ loaded \in BOOLEAN /\ warning \in BOOLEAN
    /\ saved = <<>> \/ saved \in Seq(Title) \X Seq(Url)
    /\ alert \in {<<>>} \cup
                 {<<a>> : a \in [title : Title, url : Url, enabled : BOOLEAN]}
    /\ starts \in Nat

(* What UserDefaults holds is either nothing or exactly the list on the    *)
(* screen, in its order, both arrays of one length: loadSources indexes    *)
(* the urls with the positions of the titles, in a later process.          *)
StoredIsShown ==
    /\ saved # <<>> => Len(saved[1]) = Len(saved[2])
    /\ loaded /\ saved # <<>> =>
           saved = << Titles(sources), Urls(sources) >>

(* Through additions, selections, deletions and restarts, at most one      *)
(* source carries the check mark.                                          *)
AtMostOneCurrent ==
    \A i, j \in DOMAIN sources :
        sources[i].isCurrent /\ sources[j].isCurrent => i = j

(* The rows are the sources, so an index path taken from the table is an   *)
(* index of the list, and the label shows exactly for an empty list.       *)
RowsAreSources ==
    /\ sourceTable = sources
    /\ loaded => (warning <=> sources = <<>>)

(* Validation happens in the alert only, before the texts reach the list:  *)
(* whatever is listed or stored, in this process or a later one, is a      *)
(* default or has passed it.                                               *)
ListedIsValid ==
    LET allowed == (ValidTitle \X ValidUrl) \cup
                   {<<DefaultTitles[i], DefaultUrls[i]>> : i \in DOMAIN DefaultTitles}
    IN  /\ \A i \in DOMAIN sources : Named(sources[i]) \in allowed
        /\ saved # <<>> =>
              \A i \in DOMAIN saved[1] : <<saved[1][i], saved[2][i]>> \in allowed

=============================================================================
