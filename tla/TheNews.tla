-------------------------------- MODULE TheNews --------------------------------
(***************************************************************************)
(* The application: MainTabBarController with the list screen (NewsFeed)   *)
(* and the source screen (Sources) as its two tabs, in one process.        *)
(*                                                                         *)
(* The screens are meant to interact in one way: SourceViewController      *)
(* holds a weak SourceDelegate and tells it which source was added or      *)
(* selected.  The delegate is assigned in NewsFeedViewController.prepare   *)
(* (for:sender:), which UIKit calls for storyboard segues only; the tab    *)
(* bar controller builds both screens in code and assigns nothing.         *)
(***************************************************************************)
EXTENDS NewsFeed, Sources

ASSUME NewsAssumption ==
    /\ SourceId = ValidUrl
    /\ DefaultUrls # <<>> /\ DefaultSource = DefaultUrls[1]
    /\ MaxLaunches = MaxStarts

VARIABLE delegate           \* SourceViewController.delegate: "nil" or "feed"

vars == <<feedVars, sourceVars, delegate>>

AppInit ==
    /\ Init
    /\ SourcesInit
    /\ delegate = "nil"

(* delegate?.updateSource(source:)                                         *)
TellAlways(url) == UpdateSource(url)        \* a bug: it is not the delegate
TellDelegate(url) ==
    IF delegate = "feed" THEN UpdateSource(url) ELSE UNCHANGED feedVars

(* The handlers of the list screen, the network and the main queue.        *)
ListStep ==
    /\ \/ PullToRefresh \/ Back
       \/ \E i \in DOMAIN feedTable : OpenRow(i)
       \/ \E s \in SourceId : Publish(s)
    /\ UNCHANGED <<sourceVars, delegate>>

LoadAnswered == Network /\ UNCHANGED <<sourceVars, delegate>>

LoadFinished == LoadCompleted /\ UNCHANGED <<sourceVars, delegate>>

(* The handlers of the source screen that concern this screen only.        *)
SourceStep ==
    /\ tab = "sources"
    /\ \/ CreateAlert \/ EditAlert \/ Cancel
       \/ \E i \in DOMAIN sourceTable : Delete(i)
    /\ UNCHANGED <<feedVars, delegate>>

SaveSource ==
    /\ tab = "sources"
    /\ Save
    /\ TellDelegate(alert[1].url)
    /\ UNCHANGED delegate

SelectSource(i) ==
    /\ tab = "sources"
    /\ Select(i)
    /\ TellDelegate(sources[i].url)
    /\ UNCHANGED delegate

(* An alert is modal, so the tab bar is out of reach while one is up.      *)
ShowTab ==
    /\ alert = <<>>
    /\ SwitchTab
    /\ IF tab' = "sources" THEN Appear ELSE UNCHANGED sourceVars
    /\ UNCHANGED delegate

(* A new process builds both screens again: their delegate is nil.         *)
StartAgain ==
    /\ Relaunch
    /\ Restart
    /\ delegate' = "nil"

AppNext ==
    \/ ListStep
    \/ LoadAnswered
    \/ LoadFinished
    \/ SourceStep
    \/ SaveSource
    \/ \E i \in DOMAIN sourceTable : SelectSource(i)
    \/ ShowTab
    \/ StartAgain

AppSpec == AppInit /\ [][AppNext]_vars

(* The fairness of NewsFeed, for the same reasons.                         *)
AppFairSpec ==
    /\ AppSpec
    /\ WF_vars(LoadAnswered)
    /\ WF_vars(LoadFinished)

-----------------------------------------------------------------------------
(* README:16 promises that a source can be added and selected.  Whatever   *)
(* the user adds, selects and deletes, the list screen asks for the        *)
(* default source only, and shows stories of no other.                     *)
OnlyDefaultIsLoaded ==
    /\ currentSource = DefaultSource
    /\ \A i \in DOMAIN loads : loads[i] = DefaultSource
    /\ \A q \in DOMAIN mainQueue : \A i \in DOMAIN mainQueue[q] :
          mainQueue[q][i].source = DefaultSource
    /\ \A i \in DOMAIN newsItem : newsItem[i].story.source = DefaultSource

=============================================================================
