--------------------------- MODULE NotifierPipeline ---------------------------
(***************************************************************************)
(* How the changes of a commit reach the callbacks of a Results: the       *)
(* RealmCoordinator of the Realm object store with its worker thread       *)
(* (Pods/Realm/Realm/ObjectStore/src/impl/realm_coordinator.cpp), the      *)
(* threads that use a Realm (shared_realm.cpp, transact_log_handler.cpp),  *)
(* and the handover between them (collection_notifier.cpp,                 *)
(* results_notifier.cpp).                                                  *)
(*                                                                         *)
(* The worker runs the queries of the notifiers at some version and hands  *)
(* the changes over; the thread of a Realm packages what was handed over,  *)
(* advances its Realm to exactly that version and calls the callbacks.  A  *)
(* Realm may write, and may suppress the notifications of its write.       *)
(*                                                                         *)
(* Every commit changes the table of every Results.  A change set is the   *)
(* set of the versions whose changes it holds.  A notifier has at most one *)
(* callback here: NotifierCallbacks is about several.  A Results is read   *)
(* between deliveries, so that its query is kept up to date also without a *)
(* callback.  User code does not write in callbacks, and opening the       *)
(* helper files does not fail.                                             *)
(***************************************************************************)
EXTENDS Integers, FiniteSets

CONSTANTS
    Realms,         \* the Realm instances of one file, each on its thread
    Notifiers,      \* the notifiers of the Results made from them
    Owner,          \* the Realm of each notifier
    Observed,       \* the notifiers that may have a callback; the others
                    \* only keep their Results up to date
    MaxVersion      \* bound: the last version committed

None     == 0       \* no read transaction; no version to skip
Version  == 1 .. MaxVersion
NoOne    == "no Realm"

ASSUME PipelineAssumption ==
    /\ NoOne \notin Realms
    /\ Owner \in [Notifiers -> Realms]
    /\ Observed \subseteq Notifiers
    /\ MaxVersion \in Nat \ {0}

Notifier == [list : {"none", "new", "main", "gone"}, alive : BOOLEAN,
             version : Version \cup {None}, hasRun : BOOLEAN,
             previous : Version \cup {None}, changes : SUBSET Version]
Callback == [present : BOOLEAN, accumulated : SUBSET Version,
             deliver : SUBSET Version, initial : BOOLEAN, skip : BOOLEAN]
Work     == [version : Version \cup {None}, skip : Version \cup {None},
             old : SUBSET Notifiers, new : SUBSET Notifiers]

VARIABLES
    latest,         \* the latest version of the file
    writer,         \* the Realm in a write transaction
    unannounced,    \* whether another process is to notify of its commit
    read,           \* the version each Realm is at
    at,             \* where the thread of each Realm is
    goal,           \* the version it waits for, then the one it goes to
    package,        \* the notifiers of its NotifierPackage
    signalled,      \* whether its run loop is to call Realm::notify
    notifier,       \* m_new_notifiers and m_notifiers
    callback,       \* the callback of each notifier
    advancer,       \* version m_advancer_sg reads
    helper,         \* version m_notifier_sg reads
    skipVersion,    \* m_notifier_skip_version
    wake,           \* whether the worker was notified
    worker,         \* where the worker is
    work,           \* the locals of run_async_notifiers
    told,           \* history: the version of the last delivery
    suppressed,     \* history: the later versions that were to be skipped
    missed          \* history: the versions lost to a callback added late or
                    \* to a version to skip that another commit overwrote

fileVars   == <<latest, writer, unannounced>>
realmVars  == <<read, at, goal, package>>
helperVars == <<advancer, helper, skipVersion>>
workVars   == <<worker, work>>
history    == <<told, suppressed, missed>>
vars == <<fileVars, realmVars, signalled, notifier, callback, helperVars, wake,
          workVars, history>>

In(l)       == {n \in Notifiers : notifier[n].list = l}
ForRealm(r) == {n \in In("new") \cup In("main") :
                      notifier[n].alive /\ Owner[n] = r}
HaveCallback(n) == callback[n].present

NoNotifier == [list |-> "none", alive |-> FALSE, version |-> None,
               hasRun |-> FALSE, previous |-> None, changes |-> {}]
NoCallback == [present |-> FALSE, accumulated |-> {}, deliver |-> {},
               initial |-> FALSE, skip |-> FALSE]
NoWork     == [version |-> None, skip |-> None, old |-> {}, new |-> {}]

Init ==
    /\ latest = 1 /\ writer = NoOne /\ unannounced = FALSE
    /\ read = [r \in Realms |-> 1] /\ at = [r \in Realms |-> "idle"]
    /\ goal = [r \in Realms |-> None] /\ package = [r \in Realms |-> {}]
    /\ signalled = [r \in Realms |-> FALSE]
    /\ notifier = [n \in Notifiers |-> NoNotifier]
    /\ callback = [n \in Notifiers |-> NoCallback]
    /\ advancer = None /\ helper = None /\ skipVersion = None
    /\ wake = FALSE /\ worker = "idle" /\ work = NoWork
    /\ told = [n \in Notifiers |-> None]
    /\ suppressed = [n \in Notifiers |-> {}]
    /\ missed = [n \in Notifiers |-> {}]

-----------------------------------------------------------------------------
(* Notifiers and callbacks                                                 *)

(* The advancer holds the oldest version a new notifier was made at.       *)
PinVersion(v) ==
    IF advancer = None \/ v < advancer THEN v ELSE advancer

(* Results::prepare_async, register_notifier                               *)
Register(n) ==
    /\ at[Owner[n]] = "idle" /\ notifier[n].list = "none"
    /\ notifier' = [notifier EXCEPT ![n].list = "new", ![n].alive = TRUE,
                                    ![n].version = read[Owner[n]]]
    /\ advancer' = PinVersion(read[Owner[n]])
    /\ UNCHANGED <<fileVars, realmVars, signalled, callback, helper,
                   skipVersion, wake, workVars, history>>

(* The worker may have run the notifier, without callbacks, to a version    *)
(* that it has not handed over yet.                                        *)
AddCallback(n) ==
    /\ at[Owner[n]] = "idle" /\ notifier[n].alive /\ ~callback[n].present
    /\ n \in Observed
    /\ callback' = [callback EXCEPT ![n].present = TRUE]
    /\ missed' = [missed EXCEPT ![n] =
           IF notifier[n].hasRun
           THEN notifier[n].version + 1 .. notifier[n].previous ELSE {}]
    /\ wake' = TRUE
    /\ UNCHANGED <<fileVars, realmVars, signalled, notifier, helperVars,
                   workVars, told, suppressed>>

(* remove_callback and unregister, on any thread: the callback of a token  *)
(* keeps its Results alive.                                                *)
RemoveCallback(n) ==
    /\ callback[n].present
    /\ callback' = [callback EXCEPT ![n] = NoCallback]
    /\ told' = [told EXCEPT ![n] = None]
    /\ suppressed' = [suppressed EXCEPT ![n] = {}]
    /\ missed' = [missed EXCEPT ![n] = {}]
    /\ UNCHANGED <<fileVars, realmVars, signalled, notifier, helperVars,
                   wake, workVars>>

Unregister(n) ==
    /\ notifier[n].alive /\ ~callback[n].present
    /\ notifier' = [notifier EXCEPT ![n].alive = FALSE]
    /\ UNCHANGED <<fileVars, realmVars, signalled, callback, helperVars,
                   wake, workVars, history>>

-----------------------------------------------------------------------------
(* The thread of a Realm: packaging                                        *)

(* NotifierPackage::package_and_wait                                       *)
Ready(ns, v) ==
    \A n \in ns :
        HaveCallback(n) => notifier[n].hasRun /\ notifier[n].version >= v

(* Those that have nothing to deliver are left out; package_for_delivery   *)
(* takes the accumulated changes of the others.                            *)
Deliverable(ns) == {n \in ns : notifier[n].hasRun /\ notifier[n].alive}

PackageForDelivery(ns) ==
    callback' = [n \in Notifiers |->
        IF n \in ns
        THEN [callback[n] EXCEPT !.deliver = callback[n].accumulated,
                                 !.accumulated = {}]
        ELSE callback[n]]

(* The thread goes on to version v with the package ns.                    *)
Go(r, where, v, ns) ==
    /\ at' = [at EXCEPT ![r] = where]
    /\ goal' = [goal EXCEPT ![r] = v]
    /\ package' = [package EXCEPT ![r] = ns]

VersionOf(ns) == notifier[CHOOSE n \in ns : TRUE].version

(* process_available_async: the Realm is at the latest version.            *)
ProcessAvailable(r) ==
    LET ns == {n \in Deliverable(ForRealm(r)) : notifier[n].version = read[r]}
    IN  /\ PackageForDelivery(ns)
        /\ IF ns = {} THEN Go(r, "idle", None, {})
                      ELSE Go(r, "delivering", read[r], ns)

(* advance_to_ready: the Realm goes to the version of the package, which   *)
(* is dropped if it is older than the Realm.                               *)
AdvanceTo(r, ns) == IF ns = {} THEN latest ELSE VersionOf(ns)
AdvanceToReady(r) ==
    LET ns == Deliverable(ForRealm(r))
        v  == AdvanceTo(r, ns)
    IN  /\ PackageForDelivery(ns)
        /\ IF v < read[r] THEN Go(r, "idle", None, {})
                          ELSE Go(r, "delivering", v, ns)

(* Realm::notify, on the run loop; in a write transaction it does nothing. *)
Notify(r) ==
    /\ at[r] \in {"idle", "write"} /\ signalled[r]
    /\ signalled' = [signalled EXCEPT ![r] = FALSE]
    /\ IF at[r] = "write" THEN UNCHANGED <<at, goal, package, callback>>
       ELSE IF read[r] = latest THEN ProcessAvailable(r) ELSE AdvanceToReady(r)
    /\ UNCHANGED <<fileVars, read, notifier, helperVars, wake, workVars,
                   history>>

(* Realm::refresh and Realm::begin_transaction wait for the notifiers, and *)
(* wake the worker if they have to.                                        *)
StartRefresh(r) ==
    /\ at[r] = "idle"
    /\ Go(r, "refreshing", latest, ForRealm(r))
    /\ wake' = (wake \/ ~Ready(ForRealm(r), latest))
    /\ UNCHANGED <<fileVars, read, signalled, notifier, callback, helperVars,
                   workVars, history>>

BeginWrite(r) ==
    /\ at[r] = "idle" /\ writer = NoOne
    /\ writer' = r
    /\ Go(r, "promoting", latest, ForRealm(r))
    /\ wake' = (wake \/ ~Ready(ForRealm(r), latest))
    /\ UNCHANGED <<latest, unannounced, read, signalled, notifier, callback,
                   helperVars, workVars, history>>

(* A package older than the version waited for is dropped: nobody listens. *)
EndWait(r) ==
    /\ at[r] \in {"refreshing", "promoting"} /\ Ready(package[r], goal[r])
    /\ LET ns   == Deliverable(package[r])
           late == ns # {} /\ VersionOf(ns) < goal[r]
           kept == IF late THEN {} ELSE ns
       IN  /\ PackageForDelivery(ns)
           /\ IF at[r] = "refreshing"
              THEN Go(r, "delivering", AdvanceTo(r, kept), kept)
              ELSE Go(r, "promoted", latest, kept)
    /\ UNCHANGED <<fileVars, read, signalled, notifier, helperVars, wake,
                   workVars, history>>

(* The Realm advances, and after_advance calls the callbacks.              *)
Hears(n) == /\ callback[n].present
            /\ ~callback[n].initial \/ callback[n].deliver # {}

AfterAdvance(r) ==
    LET heard == {n \in package[r] : callback[n].present}
    IN  /\ read' = [read EXCEPT ![r] = goal[r]]
        /\ callback' = [n \in Notifiers |->
               IF n \in heard /\ Hears(n)
               THEN [callback[n] EXCEPT !.initial = TRUE, !.deliver = {}]
               ELSE callback[n]]
        /\ told' = [n \in Notifiers |->
               IF n \in heard THEN goal[r] ELSE told[n]]
        /\ suppressed' = [n \in Notifiers |->
               IF n \in heard THEN {v \in suppressed[n] : v > goal[r]}
                              ELSE suppressed[n]]
        /\ missed' = [n \in Notifiers |->
               IF n \in heard THEN {v \in missed[n] : v > goal[r]}
                              ELSE missed[n]]

Deliver(r) ==
    /\ at[r] = "delivering"
    /\ AfterAdvance(r)
    /\ Go(r, "idle", None, {})
    /\ UNCHANGED <<fileVars, signalled, notifier, helperVars, wake, workVars>>

Promote(r) ==
    /\ at[r] = "promoted"
    /\ AfterAdvance(r)
    /\ Go(r, "write", None, {})
    /\ UNCHANGED <<fileVars, signalled, notifier, helperVars, wake, workVars>>

-----------------------------------------------------------------------------
(* The thread of a Realm: writing                                          *)

CancelTransaction(r) ==
    /\ at[r] = "write"
    /\ at' = [at EXCEPT ![r] = "idle"]
    /\ writer' = NoOne
    /\ UNCHANGED <<latest, unannounced, read, goal, package, signalled,
                   notifier, callback, helperVars, wake, workVars, history>>

(* suppress_next_notification for some tokens, before the commit           *)
SuppressNext(r, ns) ==
    /\ at[r] = "write" /\ latest < MaxVersion
    /\ callback' = [n \in Notifiers |->
           [callback[n] EXCEPT !.skip = (@ \/ n \in ns)]]
    /\ suppressed' = [n \in Notifiers |->
           IF n \in ns THEN suppressed[n] \cup {latest + 1} ELSE suppressed[n]]
    /\ at' = [at EXCEPT ![r] = "committing"]
    /\ UNCHANGED <<fileVars, read, goal, package, signalled, notifier,
                   helperVars, wake, workVars, told, missed>>

(* RealmCoordinator::commit_write, up to the end of the lock: the worker   *)
(* is to stop at this version if a notifier of this Realm may skip it.     *)
SkipNothing(r) == skipVersion   \* a bug: the worker runs past the version
SkipFor(r) ==
    IF \E n \in In("main") : notifier[n].alive /\ Owner[n] = r
    THEN latest + 1 ELSE skipVersion

(* A version to skip that the worker has not taken yet is overwritten: the *)
(* callbacks that were to skip it will skip all up to the new one.         *)
Overwrites(r, n) ==
    /\ SkipFor(r) # skipVersion
    /\ callback[n].skip /\ skipVersion \in suppressed[n] \cup missed[n]

CommitWrite(r) ==
    /\ at[r] = "committing" \/ (at[r] = "write" /\ latest < MaxVersion)
    /\ latest' = latest + 1
    /\ read' = [read EXCEPT ![r] = latest + 1]
    /\ writer' = NoOne
    /\ skipVersion' = SkipFor(r)
    /\ at' = [at EXCEPT ![r] = "committed"]
    /\ missed' = [n \in Notifiers |->
           IF Overwrites(r, n) THEN missed[n] \cup (skipVersion + 1 .. latest + 1)
                               ELSE missed[n]]
    /\ UNCHANGED <<unannounced, goal, package, signalled, notifier, callback,
                   advancer, helper, wake, workVars, told, suppressed>>

NotifyOthers(r) ==
    /\ at[r] = "committed"
    /\ at' = [at EXCEPT ![r] = "idle"]
    /\ wake' = TRUE
    /\ UNCHANGED <<fileVars, read, goal, package, signalled, notifier,
                   callback, helperVars, workVars, history>>

(* Another process commits, and later notifies the workers.                *)
OtherCommits ==
    /\ writer = NoOne /\ latest < MaxVersion
    /\ latest' = latest + 1
    /\ unannounced' = TRUE
    /\ UNCHANGED <<writer, realmVars, signalled, notifier, callback,
                   helperVars, wake, workVars, history>>

OtherNotifies ==
    /\ unannounced
    /\ unannounced' = FALSE /\ wake' = TRUE
    /\ UNCHANGED <<latest, writer, realmVars, signalled, notifier, callback,
                   helperVars, workVars, history>>

-----------------------------------------------------------------------------
(* The worker: on_change                                                   *)

(* clean_up_dead_notifiers, of the notifiers nf: those that died leave     *)
(* their list, and a list that is emptied gives up the version it holds.   *)
Dead(nf, l)    == {n \in Notifiers : nf[n].list = l /\ ~nf[n].alive}
Live(nf, l)    == {n \in Notifiers : nf[n].list = l /\ nf[n].alive}
Emptied(nf, l) == Dead(nf, l) # {} /\ Live(nf, l) = {}

Cleaned(nf) == [n \in Notifiers |->
    IF n \in Dead(nf, "main") \cup Dead(nf, "new")
    THEN [NoNotifier EXCEPT !.list = "gone"] ELSE nf[n]]

ReleaseNever(nf, l, v) == v     \* a bug: versions are held for nobody
Release(nf, l, v) == IF Emptied(nf, l) THEN None ELSE v

(* The first part of run_async_notifiers, under the lock: the new          *)
(* notifiers are brought to the latest version and join the others, and    *)
(* the version to skip is taken.                                           *)
ReuseSkip(v) == v       \* a bug: the worker goes to the version again
ResetSkip(v) == None

StartRun ==
    LET old  == Live(notifier, "main")
        new  == Live(notifier, "new")
        skip == Release(notifier, "main", skipVersion)
    IN  /\ worker = "idle" /\ wake
        /\ wake' = FALSE
        /\ notifier' = [n \in Notifiers |->
               IF n \in new THEN [notifier[n] EXCEPT !.list = "main"]
                            ELSE Cleaned(notifier)[n]]
        /\ IF old \cup new = {}
           THEN /\ worker' = "signalling" /\ work' = NoWork
                /\ helper' = Release(notifier, "main", helper)
                /\ advancer' = Release(notifier, "new", advancer)
                /\ skipVersion' = skip
           ELSE /\ worker' = IF skip = None THEN "running" ELSE "skipping"
                /\ work' = [version |-> latest, skip |-> skip,
                            old |-> old, new |-> new]
                /\ helper' = IF old = {} THEN latest ELSE helper
                /\ advancer' = None
                /\ skipVersion' = ResetSkip(skip)
        /\ UNCHANGED <<fileVars, realmVars, signalled, callback, history>>

(* ResultsNotifier::run at version v: changes since the run before are     *)
(* computed if there is a callback to hear of them.                        *)
RunOnce(n, v) ==        \* a bug: the rows compared with are never renewed
    LET m == notifier[n]
    IN  IF ~m.alive \/ (m.hasRun /\ m.previous = v) THEN m
        ELSE [m EXCEPT !.previous = IF m.hasRun THEN @ ELSE v,
                       !.changes = IF m.hasRun /\ HaveCallback(n)
                                   THEN m.previous + 1 .. v ELSE @]
Run(n, v) ==
    LET m == notifier[n]
    IN  IF ~m.alive \/ (m.hasRun /\ m.previous = v) THEN m
        ELSE [m EXCEPT !.previous = v,
                       !.changes = IF m.hasRun /\ HaveCallback(n)
                                   THEN m.previous + 1 .. v ELSE @]

RunNotifiers(ns, v) ==
    notifier' = [n \in Notifiers |->
                    IF n \in ns THEN Run(n, v) ELSE notifier[n]]

RunToSkip ==
    /\ worker = "skipping"
    /\ helper' = work.skip
    /\ RunNotifiers(work.old, work.skip)
    /\ worker' = "skipped"
    /\ UNCHANGED <<fileVars, realmVars, signalled, callback, advancer,
                   skipVersion, wake, work, history>>

RunToVersion ==
    /\ worker = "running"
    /\ helper' = work.version
    /\ RunNotifiers(work.old \cup work.new, work.version)
    /\ worker' = "handover"
    /\ UNCHANGED <<fileVars, realmVars, signalled, callback, advancer,
                   skipVersion, wake, work, history>>

(* CollectionNotifier::add_changes                                         *)
AddChanges(n) ==
    [callback[n] EXCEPT
        !.skip = FALSE,
        !.accumulated = IF ~callback[n].present \/ callback[n].skip THEN @
                        ELSE @ \cup notifier[n].changes]

(* CollectionNotifier::prepare_handover, under the lock                    *)
HandOver(ns) ==
    callback' = [n \in Notifiers |->
        IF n \in ns THEN AddChanges(n) ELSE callback[n]]

HandedOverChanged(ns) == [n \in Notifiers |->  \* a bug: only if there is news
    IF n \in ns /\ notifier[n].changes # {}
    THEN [notifier[n] EXCEPT !.version = helper, !.hasRun = TRUE,
                             !.changes = {}]
    ELSE notifier[n]]
HandedOver(ns) == [n \in Notifiers |->
    IF n \in ns THEN [notifier[n] EXCEPT !.version = helper, !.hasRun = TRUE,
                                         !.changes = {}]
                ELSE notifier[n]]

HandoverSkipped ==
    /\ worker = "skipped"
    /\ HandOver(work.old)
    /\ notifier' = HandedOver(work.old)
    /\ worker' = "running"
    /\ UNCHANGED <<fileVars, realmVars, signalled, helperVars, wake, work,
                   history>>

Handover ==
    LET nf == HandedOver(work.old \cup work.new)
    IN  /\ worker = "handover"
        /\ HandOver(work.old \cup work.new)
        /\ notifier' = Cleaned(nf)
        /\ helper' = Release(nf, "main", helper)
        /\ skipVersion' = Release(nf, "main", skipVersion)
        /\ advancer' = Release(nf, "new", advancer)
        /\ worker' = "signalling" /\ work' = NoWork
        /\ UNCHANGED <<fileVars, realmVars, signalled, wake, history>>

Behind(r) ==            \* a bug: own writes are not told
    signalled[r] \/ read[r] < latest
Everyone(r) == TRUE

SignalRealms ==
    /\ worker = "signalling"
    /\ signalled' = [r \in Realms |-> Everyone(r)]
    /\ worker' = "idle"
    /\ UNCHANGED <<fileVars, realmVars, notifier, callback, helperVars, wake,
                   work, history>>

Worker ==
    \/ StartRun \/ RunToSkip \/ HandoverSkipped
    \/ RunToVersion \/ Handover \/ SignalRealms

Mine(r) == {n \in Notifiers : Owner[n] = r /\ callback[n].present}

Next ==
    \/ \E n \in Notifiers :
          Register(n) \/ AddCallback(n) \/ RemoveCallback(n) \/ Unregister(n)
    \/ \E r \in Realms :
          \/ Notify(r) \/ StartRefresh(r) \/ BeginWrite(r) \/ EndWait(r)
          \/ Deliver(r) \/ Promote(r) \/ CancelTransaction(r)
          \/ \E ns \in (SUBSET Mine(r)) \ {{}} : SuppressNext(r, ns)
          \/ CommitWrite(r) \/ NotifyOthers(r)
    \/ OtherCommits \/ OtherNotifies
    \/ Worker

(* The worker runs, run loops turn, and a thread that delivers or writes   *)
(* comes to an end of it; nobody has to begin a write or a refresh.        *)
Fairness ==
    /\ WF_vars(Worker) /\ WF_vars(OtherNotifies)
    /\ \A r \in Realms :
          /\ WF_vars(Notify(r)) /\ WF_vars(EndWait(r))
          /\ WF_vars(Deliver(r) \/ Promote(r))
          /\ WF_vars(CancelTransaction(r) \/ CommitWrite(r) \/ NotifyOthers(r))

Spec == Init /\ [][Next]_vars /\ Fairness

-----------------------------------------------------------------------------
TypeOK ==
    /\ latest \in Version /\ writer \in Realms \cup {NoOne}
    /\ unannounced \in BOOLEAN
    /\ read \in [Realms -> Version]
    /\ at \in [Realms -> {"idle", "refreshing", "promoting", "promoted",
                          "delivering", "write", "committing", "committed"}]
    /\ goal \in [Realms -> Version \cup {None}]
    /\ package \in [Realms -> SUBSET Notifiers]
    /\ signalled \in [Realms -> BOOLEAN]
    /\ notifier \in [Notifiers -> Notifier]
    /\ callback \in [Notifiers -> Callback]
    /\ {advancer, helper, skipVersion} \subseteq Version \cup {None}
    /\ wake \in BOOLEAN /\ work \in Work
    /\ worker \in {"idle", "skipping", "skipped", "running", "handover",
                   "signalling"}
    /\ told \in [Notifiers -> Version \cup {None}]
    /\ suppressed \in [Notifiers -> SUBSET Version]
    /\ missed \in [Notifiers -> SUBSET Version]

(* The helper of the worker has a read transaction exactly while there are *)
(* notifiers to run, the advancer exactly while there are new ones; the    *)
(* advancer never is past a new notifier, which could not be attached.     *)
HelpersHoldVersions ==
    /\ helper # None <=> In("main") # {}
    /\ advancer # None <=> In("new") # {}
    /\ \A n \in In("new") : advancer <= notifier[n].version

(* A read transaction only ever goes forward: to the version to skip, to   *)
(* the version of the run, and a Realm to the version of its package.      *)
NeverBackwards ==
    /\ worker \in {"skipping", "skipped"} =>
          work.old # {} /\ helper <= work.skip /\ work.skip <= work.version
    /\ worker \in {"running", "handover"} => helper <= work.version
    /\ \A r \in Realms : at[r] \in {"delivering", "promoted"} =>
          read[r] <= goal[r]

(* Between two runs all the notifiers are at one version, that of the      *)
(* helper: one set of change information serves them all, and one package  *)
(* has one version.                                                        *)
OneVersion ==
    worker \in {"idle", "signalling"} =>
        \A n \in In("main") :
            notifier[n].hasRun /\ notifier[n].version = helper

(* The changes delivered to a callback are those between the version it    *)
(* was told of last and the one its Realm is going to show: none is        *)
(* missing, but for the versions it was not to hear of, those the worker   *)
(* had run before the callback was there, and those skipped together with  *)
(* a version to skip that the commit of another Realm overwrote; and none  *)
(* is there that it heard of before or that the Realm does not show yet.   *)
Delivering(r, n) == /\ at[r] \in {"delivering", "promoted"}
                    /\ n \in package[r] /\ callback[n].initial

HearsAll ==
    \A r \in Realms, n \in Notifiers : Delivering(r, n) =>
        told[n] + 1 .. goal[r] \subseteq
            callback[n].deliver \cup suppressed[n] \cup missed[n]

HearsOnce ==
    \A r \in Realms, n \in Notifiers : Delivering(r, n) =>
        callback[n].deliver \subseteq told[n] + 1 .. goal[r]

(* A callback is told of the latest version sooner or later: no commit,    *)
(* and no new callback, is forgotten between the threads.                  *)
ToldInTheEnd ==
    \A n \in Notifiers :
        []<>(callback[n].present => told[n] = latest)
=============================================================================
