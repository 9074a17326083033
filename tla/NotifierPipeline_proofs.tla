----------------------- MODULE NotifierPipeline_proofs -----------------------
(***************************************************************************)
(* Proofs about NotifierPipeline for any number of Realms, notifiers and   *)
(* versions: who holds which version, and that nothing goes back; then     *)
(* what a callback hears of, following each version from the run of a      *)
(* notifier through the changes handed over and the package.               *)
(***************************************************************************)
EXTENDS NotifierPipeline, TLAPS

-----------------------------------------------------------------------------
(* The invariant *)

Places == {"idle", "refreshing", "promoting", "promoted", "delivering", "write",
           "committing", "committed"}
WorkerPlaces == {"idle", "skipping", "skipped", "running", "handover", "signalling"}

TypeInv ==
  /\ latest \in Version /\ writer \in Realms \cup {NoOne}
  /\ read \in [Realms -> Version] /\ at \in [Realms -> Places]
  /\ goal \in [Realms -> Version \cup {None}]
  /\ package \in [Realms -> SUBSET Notifiers]
  /\ notifier \in [Notifiers -> Notifier]
  /\ advancer \in Version \cup {None} /\ helper \in Version \cup {None}
  /\ skipVersion \in Version \cup {None}
  /\ worker \in WorkerPlaces /\ work \in Work

\* A thread goes to a version that exists and that its Realm is not past, and
\* it has the write lock from BeginWrite to the commit.
ThreadInv == \A r \in Realms :
  /\ read[r] <= latest
  /\ at[r] \in {"refreshing", "promoting", "delivering", "promoted"} =>
        read[r] <= goal[r] /\ goal[r] <= latest
  /\ at[r] \in {"promoting", "promoted", "write", "committing"} => writer = r
  /\ at[r] = "committing" => latest < MaxVersion

Working == worker \in {"skipping", "skipped", "running", "handover"}

\* The run works on the notifiers in the main list, towards a version that
\* exists and that no later version to skip is before.
WorkInv == Working =>
  /\ In("main") = work.old \cup work.new /\ work.old \cup work.new # {}
  /\ work.version # None /\ work.version <= latest
  /\ skipVersion # None => work.version <= skipVersion
  /\ worker \in {"skipping", "skipped"} => work.skip # None

VersionInv ==
  /\ helper <= latest /\ \A n \in Notifiers : notifier[n].version <= latest
  /\ skipVersion # None =>
        helper <= skipVersion /\ skipVersion <= latest /\ In("main") # {}

\* The first half of NeverBackwards: the worker's.
WorkerForward ==
  /\ worker \in {"skipping", "skipped"} =>
        work.old # {} /\ helper <= work.skip /\ work.skip <= work.version
  /\ worker \in {"running", "handover"} => helper <= work.version

IInv == /\ TypeInv /\ ThreadInv /\ WorkInv /\ VersionInv
        /\ WorkerForward /\ HelpersHoldVersions /\ OneVersion

-----------------------------------------------------------------------------
(* The threads of the Realms *)

\* What the worker and the notifiers have is not the threads' to change.
LEMMA ThreadStep ==
  ASSUME IInv, TypeInv', ThreadInv',
         UNCHANGED <<latest, notifier, helperVars, workVars>>
  PROVE  IInv'
<1>1. \A l : In(l)' = In(l)
  BY DEF In
<1>2. WorkInv' /\ VersionInv' /\ WorkerForward' /\ HelpersHoldVersions' /\ OneVersion'
  BY <1>1 DEF IInv, WorkInv, VersionInv, WorkerForward, HelpersHoldVersions, OneVersion,
     Working, helperVars, workVars
<1> QED  BY <1>2 DEF IInv

\* The version of a package is that of one of its notifiers.
LEMMA PackageVersion ==
  ASSUME IInv, NEW r \in Realms, NEW ns \in SUBSET Notifiers
  PROVE  AdvanceTo(r, ns) \in Version \cup {None} /\ AdvanceTo(r, ns) <= latest
<1>1. CASE ns = {}
  BY <1>1 DEF IInv, TypeInv, AdvanceTo, Version
<1>2. CASE ns # {}
  <2>1. (CHOOSE n \in ns : TRUE) \in Notifiers
    BY <1>2
  <2>2. VersionOf(ns) \in Version \cup {None} /\ VersionOf(ns) <= latest
    BY <2>1 DEF IInv, TypeInv, VersionInv, VersionOf, Notifier
  <2> QED  BY <1>2, <2>2 DEF AdvanceTo
<1> QED  BY <1>1, <1>2

\* A thread goes on, to a version its Realm is not past.
LEMMA GoStep ==
  ASSUME IInv, NEW r \in Realms, NEW where \in Places, NEW v \in Version \cup {None},
         NEW ns \in SUBSET Notifiers, Go(r, where, v, ns),
         where \in {"refreshing", "promoting", "delivering", "promoted"} =>
             read[r] <= v /\ v <= latest,
         where \in {"promoting", "promoted", "write", "committing"} => writer' = r,
         writer' = writer \/ (writer = NoOne /\ writer' \in Realms),
         where # "committing", read' = read,
         UNCHANGED <<latest, notifier, helperVars, workVars>>
  PROVE  IInv'
<1>1. TypeInv'
  BY DEF IInv, TypeInv, Go, helperVars, workVars
<1>2. ThreadInv'
  <2> SUFFICES ASSUME NEW q \in Realms
               PROVE  /\ read'[q] <= latest'
                      /\ at'[q] \in {"refreshing", "promoting", "delivering", "promoted"} =>
                            read'[q] <= goal'[q] /\ goal'[q] <= latest'
                      /\ at'[q] \in {"promoting", "promoted", "write", "committing"} =>
                            writer' = q
                      /\ at'[q] = "committing" => latest' < MaxVersion
    BY DEF ThreadInv
  <2>1. CASE q = r
    BY <2>1 DEF IInv, TypeInv, ThreadInv, Go
  <2>2. CASE q # r
    BY <2>2, PipelineAssumption DEF IInv, TypeInv, ThreadInv, Go
  <2> QED  BY <2>1, <2>2
<1> QED  BY <1>1, <1>2, ThreadStep

LEMMA NotifyStep ==
  ASSUME IInv, NEW r \in Realms, Notify(r)
  PROVE  IInv'
<1>1. read[r] \in Version /\ read[r] <= latest /\ latest \in Version
  BY DEF IInv, TypeInv, ThreadInv
<1>2. UNCHANGED <<latest, writer, read, notifier, helperVars, workVars>>
  BY DEF Notify, fileVars
<1>3. CASE UNCHANGED <<at, goal, package>>
  <2>1. TypeInv' /\ ThreadInv'
    BY <1>2, <1>3 DEF IInv, TypeInv, ThreadInv, helperVars, workVars
  <2> QED  BY <1>2, <2>1, ThreadStep
<1>4. CASE \E ns \in SUBSET Notifiers : Go(r, "delivering", read[r], ns)
  BY <1>1, <1>2, <1>4, GoStep DEF Version, Places
<1>5. CASE Go(r, "idle", None, {})
  BY <1>1, <1>2, <1>5, GoStep DEF Places
<1>6. ASSUME NEW ns \in SUBSET Notifiers, Go(r, "delivering", AdvanceTo(r, ns), ns),
             ~(AdvanceTo(r, ns) < read[r])
      PROVE  IInv'
  <2>1. AdvanceTo(r, ns) \in Version \cup {None} /\ AdvanceTo(r, ns) <= latest
    BY PackageVersion
  <2>2. read[r] <= AdvanceTo(r, ns)
    BY <1>1, <1>6, <2>1 DEF Version, None
  <2> QED  BY <1>2, <1>6, <2>1, <2>2, GoStep DEF Places
<1>7. (\A ns : Deliverable(ns) \subseteq ns) /\ ForRealm(r) \subseteq Notifiers
  BY DEF Deliverable, ForRealm, In
<1>8. CASE ProcessAvailable(r)
  BY <1>4, <1>5, <1>7, <1>8 DEF ProcessAvailable
<1>9. CASE AdvanceToReady(r)
  BY <1>5, <1>6, <1>7, <1>9 DEF AdvanceToReady
<1> QED  BY <1>3, <1>8, <1>9 DEF Notify

LEMMA WaitStep ==
  ASSUME IInv, NEW r \in Realms, StartRefresh(r) \/ BeginWrite(r) \/ EndWait(r)
  PROVE  IInv'
<1>1. /\ read[r] \in Version /\ read[r] <= latest /\ latest \in Version
      /\ package[r] \in SUBSET Notifiers /\ goal[r] \in Version \cup {None}
  BY DEF IInv, TypeInv, ThreadInv
<1>2. UNCHANGED <<latest, read, notifier, helperVars, workVars>>
  BY DEF StartRefresh, BeginWrite, EndWait, fileVars
<1>3. ForRealm(r) \in SUBSET Notifiers
  BY DEF ForRealm, In
<1>4. CASE StartRefresh(r)
  <2>1. Go(r, "refreshing", latest, ForRealm(r)) /\ writer' = writer
    BY <1>4 DEF StartRefresh, fileVars
  <2> QED  BY <1>1, <1>2, <1>3, <2>1, GoStep DEF Places, Version
<1>5. CASE BeginWrite(r)
  <2>1. Go(r, "promoting", latest, ForRealm(r)) /\ writer = NoOne /\ writer' = r
    BY <1>5 DEF BeginWrite
  <2> QED  BY <1>1, <1>2, <1>3, <2>1, GoStep DEF Places, Version
<1>6. CASE EndWait(r)
  <2> DEFINE ns   == Deliverable(package[r])
             late == ns # {} /\ VersionOf(ns) < goal[r]
             kept == IF late THEN {} ELSE ns
  <2>1. kept \in SUBSET Notifiers /\ (kept # {} => kept = ns /\ ~late)
    BY <1>1 DEF Deliverable
  <2>2. at[r] \in {"refreshing", "promoting"} /\ writer' = writer
    BY <1>6 DEF EndWait, fileVars
  <2>3. read[r] <= goal[r] /\ goal[r] <= latest /\ (at[r] = "promoting" => writer = r)
    BY <2>2 DEF IInv, ThreadInv
  <2>4. AdvanceTo(r, kept) \in Version \cup {None} /\ AdvanceTo(r, kept) <= latest
    BY <2>1, PackageVersion
  <2>5. read[r] <= AdvanceTo(r, kept)
    <3>1. CASE kept = {}
      BY <1>1, <3>1 DEF AdvanceTo
    <3>2. CASE kept # {}
      <4>1. AdvanceTo(r, kept) = VersionOf(ns) /\ ~(VersionOf(ns) < goal[r])
        BY <2>1, <3>2 DEF AdvanceTo
      <4> HIDE DEF kept, ns
      <4> QED  BY <1>1, <2>3, <2>4, <4>1 DEF Version, None
    <3> QED  BY <3>1, <3>2
  <2>6. \/ Go(r, "delivering", AdvanceTo(r, kept), kept)
        \/ at[r] = "promoting" /\ Go(r, "promoted", latest, kept)
    BY <1>6, <2>2 DEF EndWait
  <2> HIDE DEF kept
  <2>7. CASE Go(r, "delivering", AdvanceTo(r, kept), kept)
    BY <1>2, <2>1, <2>2, <2>4, <2>5, <2>7, GoStep DEF Places
  <2>8. CASE at[r] = "promoting" /\ Go(r, "promoted", latest, kept)
    BY <1>1, <1>2, <2>1, <2>2, <2>3, <2>8, GoStep DEF Places, Version
  <2> QED  BY <2>6, <2>7, <2>8
<1> QED  BY <1>4, <1>5, <1>6

\* The Realm goes to its version.
LEMMA AdvanceStep ==
  ASSUME IInv, NEW r \in Realms, Deliver(r) \/ Promote(r)
  PROVE  IInv'
<1>1. /\ read[r] \in Version /\ read[r] <= goal[r] /\ goal[r] <= latest
      /\ goal[r] \in Version \cup {None} /\ latest \in Version
      /\ at[r] = "promoted" => writer = r
  BY DEF IInv, TypeInv, ThreadInv, Deliver, Promote
<1>2. goal[r] \in Version
  BY <1>1 DEF Version, None
<1>3. PICK where \in {"idle", "write"} : Go(r, where, None, {}) /\ (where = "write" => writer = r)
  BY <1>1 DEF Deliver, Promote
<1>4. read' = [read EXCEPT ![r] = goal[r]] /\ UNCHANGED <<latest, writer, notifier, helperVars, workVars>>
  BY DEF Deliver, Promote, AfterAdvance, fileVars
<1>5. TypeInv'
  BY <1>2, <1>3, <1>4 DEF IInv, TypeInv, Go, helperVars, workVars, Places
<1>6. ThreadInv'
  BY <1>1, <1>3, <1>4 DEF IInv, TypeInv, ThreadInv, Go
<1> QED  BY <1>4, <1>5, <1>6, ThreadStep

LEMMA WritingStep ==
  ASSUME IInv, NEW r \in Realms,
         \/ CancelTransaction(r) \/ NotifyOthers(r)
         \/ \E ns \in (SUBSET Mine(r)) \ {{}} : SuppressNext(r, ns)
  PROVE  IInv'
<1>1. UNCHANGED <<latest, read, goal, package, notifier, helperVars, workVars>>
  BY DEF CancelTransaction, NotifyOthers, SuppressNext, fileVars
<1>2. CASE CancelTransaction(r)
  <2>1. TypeInv' /\ ThreadInv'
    BY <1>1, <1>2, PipelineAssumption DEF IInv, TypeInv, ThreadInv, CancelTransaction, Places,
       helperVars, workVars
  <2> QED  BY <1>1, <2>1, ThreadStep
<1>3. CASE NotifyOthers(r)
  <2>1. TypeInv' /\ ThreadInv'
    BY <1>1, <1>3 DEF IInv, TypeInv, ThreadInv, NotifyOthers, Places, fileVars,
       helperVars, workVars
  <2> QED  BY <1>1, <2>1, ThreadStep
<1>4. CASE \E ns \in (SUBSET Mine(r)) \ {{}} : SuppressNext(r, ns)
  <2>1. /\ at[r] = "write" /\ latest < MaxVersion /\ writer' = writer
        /\ at' = [at EXCEPT ![r] = "committing"]
    BY <1>4 DEF SuppressNext, fileVars
  <2>2. TypeInv' /\ ThreadInv'
    BY <1>1, <2>1 DEF IInv, TypeInv, ThreadInv, Places, helperVars, workVars
  <2> QED  BY <1>1, <2>2, ThreadStep
<1> QED  BY <1>2, <1>3, <1>4

-----------------------------------------------------------------------------
(* Commits *)

\* A version a thread has or goes to still exists after a commit.
LEMMA LaterStill ==
  ASSUME IInv, NEW q \in Realms
  PROVE  /\ read[q] <= latest + 1
         /\ at[q] \in {"refreshing", "promoting", "delivering", "promoted"} =>
                read[q] <= goal[q] /\ goal[q] <= latest + 1
<1>1. read[q] \in Int /\ goal[q] \in Int /\ latest \in Int
  BY DEF IInv, TypeInv, Version, None
<1>2. /\ read[q] <= latest
      /\ at[q] \in {"refreshing", "promoting", "delivering", "promoted"} =>
             read[q] <= goal[q] /\ goal[q] <= latest
  BY DEF IInv, ThreadInv
<1> QED  BY <1>1, <1>2

LEMMA CommitStep ==
  ASSUME IInv, (\E r \in Realms : CommitWrite(r)) \/ OtherCommits
  PROVE  IInv'
<1>1. latest < MaxVersion /\ latest' = latest + 1 /\ latest \in Version
  BY DEF IInv, TypeInv, ThreadInv, CommitWrite, OtherCommits
<1>2. UNCHANGED <<goal, package, notifier, advancer, helper, workVars>>
  BY DEF CommitWrite, OtherCommits, realmVars, helperVars
<1>3. latest + 1 \in Version
  BY <1>1, PipelineAssumption DEF Version
<1>4. /\ helper <= latest + 1 /\ work.version <= work.version
      /\ \A n \in Notifiers : notifier[n].version <= latest + 1
  <2>1. \A n \in Notifiers : notifier[n].version \in Version \cup {None}
    BY DEF IInv, TypeInv, Notifier
  <2> QED  BY <1>1, <2>1 DEF IInv, TypeInv, VersionInv, Work, Version, None
<1>5. skipVersion' = skipVersion \/ (skipVersion' = latest + 1 /\ In("main") # {})
  BY DEF CommitWrite, OtherCommits, SkipFor, helperVars
<1>6. \A l : In(l)' = In(l)
  BY <1>2 DEF In
<1>7. TypeInv' /\ ThreadInv'
  <2>1. ASSUME NEW r \in Realms, CommitWrite(r)
        PROVE  TypeInv' /\ ThreadInv'
    <3>1. /\ read' = [read EXCEPT ![r] = latest + 1] /\ writer' = NoOne
          /\ at' = [at EXCEPT ![r] = "committed"] /\ writer = r
      BY <2>1 DEF CommitWrite, IInv, ThreadInv
    <3>2. TypeInv'
      BY <1>1, <1>2, <1>3, <1>5, <3>1 DEF IInv, TypeInv, Places, workVars
    <3>3. ThreadInv'
      <4> SUFFICES ASSUME NEW q \in Realms
                   PROVE  /\ read'[q] <= latest + 1
                          /\ at'[q] \in {"refreshing", "promoting", "delivering", "promoted"} =>
                                read'[q] <= goal[q] /\ goal[q] <= latest + 1
                          /\ at'[q] \in {"promoting", "promoted", "write", "committing"} =>
                                writer' = q
                          /\ at'[q] = "committing" => latest + 1 < MaxVersion
        BY <1>1, <1>2 DEF ThreadInv
      <4>1. read \in [Realms -> Version] /\ at \in [Realms -> Places]
        BY DEF IInv, TypeInv
      <4>2. CASE q = r
        BY <1>1, <3>1, <4>1, <4>2 DEF Version
      <4>3. CASE q # r
        <5>1. read'[q] = read[q] /\ at'[q] = at[q]
          BY <3>1, <4>1, <4>3
        <5>2. ~(at[q] \in {"promoting", "promoted", "write", "committing"})
          BY <3>1, <4>3 DEF IInv, ThreadInv
        <5> QED  BY <5>1, <5>2, LaterStill
      <4> QED  BY <4>2, <4>3
    <3> QED  BY <3>2, <3>3
  <2>2. CASE OtherCommits
    <3>1. UNCHANGED <<writer, read, at, goal, skipVersion>> /\ writer = NoOne
      BY <2>2 DEF OtherCommits, realmVars, helperVars
    <3>2. TypeInv'
      BY <1>1, <1>2, <1>3, <3>1 DEF IInv, TypeInv, workVars
    <3>3. \A q \in Realms : ~(at[q] \in {"promoting", "promoted", "write", "committing"})
      BY <3>1, PipelineAssumption DEF IInv, ThreadInv
    <3>4. ThreadInv'
      BY <1>1, <1>2, <3>1, <3>3, LaterStill DEF ThreadInv
    <3> QED  BY <3>2, <3>4
  <2> QED  BY <2>1, <2>2
<1>8. WorkInv'
  BY <1>1, <1>2, <1>5, <1>6 DEF IInv, TypeInv, WorkInv, Working, Work, workVars, Version, None
<1>9. VersionInv'
  BY <1>1, <1>2, <1>4, <1>5, <1>6 DEF IInv, TypeInv, VersionInv, Version, None
<1>10. WorkerForward' /\ HelpersHoldVersions' /\ OneVersion'
  BY <1>2, <1>6 DEF IInv, WorkerForward, HelpersHoldVersions, OneVersion, workVars
<1> QED  BY <1>7, <1>8, <1>9, <1>10 DEF IInv

-----------------------------------------------------------------------------
(* Notifiers *)

\* A new notifier pins the version of its Realm; one that dies stays in its list.
LEMMA NotifierStep ==
  ASSUME IInv, NEW m \in Notifiers, Register(m) \/ Unregister(m)
  PROVE  IInv'
<1>1. UNCHANGED <<latest, writer, read, at, goal, package, helper, skipVersion, workVars>>
  BY DEF Register, Unregister, fileVars, realmVars, helperVars
<1>2. Owner[m] \in Realms
  BY PipelineAssumption
<1>3. read[Owner[m]] \in Version /\ read[Owner[m]] <= latest
  BY <1>2 DEF IInv, TypeInv, ThreadInv
<1>4. ThreadInv'
  BY <1>1 DEF IInv, ThreadInv
<1>5. notifier \in [Notifiers -> Notifier] /\ \A n \in Notifiers : notifier[n] \in Notifier
  BY DEF IInv, TypeInv
<1>6. CASE Register(m)
  <2>1. /\ notifier[m].list = "none"
        /\ notifier' = [notifier EXCEPT ![m] = [notifier[m] EXCEPT !.list = "new",
                                       !.alive = TRUE, !.version = read[Owner[m]]]]
        /\ advancer' = PinVersion(read[Owner[m]])
    BY <1>6 DEF Register
  <2>2. /\ notifier' \in [Notifiers -> Notifier] /\ notifier'[m].list = "new"
        /\ notifier'[m].version = read[Owner[m]]
        /\ \A n \in Notifiers : n # m => notifier'[n] = notifier[n]
    BY <1>3, <1>5, <2>1 DEF Notifier
  <2>3. /\ In("main")' = In("main") /\ m \notin In("main")
        /\ In("new")' = In("new") \cup {m}
    BY <2>1, <2>2 DEF In
  <2>4. /\ advancer' \in Version /\ advancer' <= read[Owner[m]]
        /\ advancer # None => advancer' <= advancer
    BY <1>3, <2>1 DEF PinVersion, IInv, TypeInv, Version, None
  <2>5. TypeInv'
    BY <1>1, <2>2, <2>4 DEF IInv, TypeInv, workVars
  <2>6. HelpersHoldVersions'
    <3>1. ASSUME NEW n \in In("new")' PROVE advancer' <= notifier'[n].version
      <4>1. CASE n = m
        BY <2>2, <2>4, <4>1
      <4>2. CASE n # m
        <5>1. n \in In("new") /\ notifier'[n] = notifier[n] /\ n \in Notifiers
          BY <2>2, <2>3, <3>1, <4>2 DEF In
        <5>2. advancer # None /\ advancer <= notifier[n].version
          BY <5>1 DEF IInv, HelpersHoldVersions
        <5>3. notifier[n].version \in Version \cup {None} /\ advancer \in Version \cup {None}
          BY <1>5, <5>1 DEF IInv, TypeInv, Notifier
        <5> QED  BY <2>4, <5>1, <5>2, <5>3 DEF Version, None
      <4> QED  BY <4>1, <4>2
    <3>2. advancer' # None
      BY <2>4 DEF Version, None
    <3> QED  BY <1>1, <2>3, <3>1, <3>2 DEF IInv, HelpersHoldVersions
  <2>7. WorkInv' /\ WorkerForward'
    BY <1>1, <2>3 DEF IInv, WorkInv, WorkerForward, Working, workVars
  <2>8. VersionInv'
    BY <1>1, <1>3, <2>2, <2>3 DEF IInv, VersionInv
  <2>9. OneVersion'
    <3>1. ASSUME NEW n \in In("main") PROVE notifier'[n] = notifier[n]
      BY <2>2, <2>3 DEF In
    <3> QED  BY <1>1, <2>3, <3>1 DEF IInv, OneVersion, workVars
  <2> QED  BY <1>4, <2>5, <2>6, <2>7, <2>8, <2>9 DEF IInv
<1>7. CASE Unregister(m)
  <2>1. notifier' = [notifier EXCEPT ![m] = [notifier[m] EXCEPT !.alive = FALSE]]
    BY <1>7 DEF Unregister
  <2>2. /\ notifier' \in [Notifiers -> Notifier]
        /\ \A n \in Notifiers : /\ notifier'[n].list = notifier[n].list
                                /\ notifier'[n].version = notifier[n].version
                                /\ notifier'[n].hasRun = notifier[n].hasRun
    BY <1>5, <2>1 DEF Notifier
  <2>3. In("main")' = In("main") /\ In("new")' = In("new")
        /\ In("main") \subseteq Notifiers /\ In("new") \subseteq Notifiers
    BY <2>2 DEF In
  <2>4. advancer' = advancer
    BY <1>7 DEF Unregister, helperVars
  <2>5. TypeInv'
    BY <1>1, <2>2, <2>4 DEF IInv, TypeInv, workVars
  <2>6. HelpersHoldVersions' /\ VersionInv'
    BY <1>1, <2>2, <2>3, <2>4 DEF IInv, HelpersHoldVersions, VersionInv
  <2>7. WorkInv' /\ WorkerForward' /\ OneVersion'
    BY <1>1, <2>2, <2>3 DEF IInv, WorkInv, WorkerForward, Working, OneVersion, workVars
  <2> QED  BY <1>4, <2>5, <2>6, <2>7 DEF IInv
<1> QED  BY <1>6, <1>7

\* Callbacks come and go without a trace in the versions.
LEMMA QuietStep ==
  ASSUME IInv,
         UNCHANGED <<latest, writer, realmVars, notifier, helperVars, workVars>>
  PROVE  IInv'
<1>1. TypeInv' /\ ThreadInv'
  BY DEF IInv, TypeInv, ThreadInv, realmVars, helperVars, workVars
<1> QED  BY <1>1, ThreadStep

-----------------------------------------------------------------------------
(* The worker *)

\* A notifier that ran is the same to everyone but itself.
LEMMA RunNotifier ==
  ASSUME IInv, NEW ns \in SUBSET Notifiers, NEW v \in Version, RunNotifiers(ns, v)
  PROVE  /\ notifier' \in [Notifiers -> Notifier]
         /\ \A n \in Notifiers : /\ notifier'[n].list = notifier[n].list
                                 /\ notifier'[n].version = notifier[n].version
<1>1. ASSUME NEW n \in Notifiers
      PROVE  /\ notifier'[n] \in Notifier
             /\ notifier'[n].list = notifier[n].list
             /\ notifier'[n].version = notifier[n].version
  <2> DEFINE m == notifier[n]
  <2>1. m \in Notifier
    BY DEF IInv, TypeInv
  <2>2. m.previous + 1 .. v \in SUBSET Version
    <3>1. m.previous \in Nat /\ v \in Nat /\ v <= MaxVersion
      BY <2>1, PipelineAssumption DEF Notifier, Version, None
    <3>2. MaxVersion \in Int
      BY PipelineAssumption
    <3> HIDE DEF m
    <3>3. ASSUME NEW w \in m.previous + 1 .. v PROVE w \in 1 .. MaxVersion
      BY <3>1, <3>2
    <3> QED  BY <3>3 DEF Version
  <2>3. notifier'[n] = m \/ notifier'[n] = Run(n, v)
    BY DEF RunNotifiers
  <2>4. \E cs \in SUBSET Version : Run(n, v) \in
            {m, [m EXCEPT !.previous = v, !.changes = cs]}
    <3>1. m.changes \in SUBSET Version
      BY <2>1 DEF Notifier
    <3> QED  BY <2>2, <3>1 DEF Run
  <2> HIDE DEF m
  <2>5. \A cs \in SUBSET Version :
            /\ [m EXCEPT !.previous = v, !.changes = cs] \in Notifier
            /\ [m EXCEPT !.previous = v, !.changes = cs].list = m.list
            /\ [m EXCEPT !.previous = v, !.changes = cs].version = m.version
    BY <2>1 DEF Notifier
  <2>6. notifier'[n] \in Notifier /\ notifier'[n].list = m.list
        /\ notifier'[n].version = m.version
    BY <2>1, <2>3, <2>4, <2>5
  <2> QED  BY <2>6 DEF m
<1>2. notifier' = [n \in Notifiers |-> notifier'[n]]
  BY DEF RunNotifiers
<1> QED  BY <1>1, <1>2

\* The worker's run at a version, of some of the notifiers of the main list.
LEMMA RunStep ==
  ASSUME IInv, RunToSkip \/ RunToVersion
  PROVE  IInv'
<1>1. /\ work.version \in Version \cup {None} /\ work.skip \in Version \cup {None}
      /\ work.old \in SUBSET Notifiers /\ work.new \in SUBSET Notifiers
      /\ latest \in Version /\ skipVersion \in Version \cup {None}
  BY DEF IInv, TypeInv, Work
<1>2. /\ worker \in {"skipping", "running"} /\ Working
      /\ UNCHANGED <<latest, writer, read, at, goal, package, advancer, skipVersion, work>>
  BY DEF RunToSkip, RunToVersion, Working, fileVars, realmVars
<1>3. /\ In("main") = work.old \cup work.new /\ work.old \cup work.new # {}
      /\ work.version # None /\ work.version <= latest
      /\ skipVersion # None => work.version <= skipVersion
  BY <1>2 DEF IInv, WorkInv
<1>4. PICK v \in Version, ns \in SUBSET Notifiers :
        /\ helper' = v /\ RunNotifiers(ns, v) /\ v <= work.version
        /\ \/ worker = "skipping" /\ worker' = "skipped" /\ v = work.skip
           \/ worker = "running" /\ worker' = "handover" /\ v = work.version
  <2>1. CASE RunToSkip
    <3>1. work.skip # None /\ work.skip <= work.version
      BY <2>1 DEF IInv, WorkInv, WorkerForward, RunToSkip, Working
    <3> QED  BY <1>1, <2>1, <3>1 DEF RunToSkip
  <2>2. CASE RunToVersion
    <3>1. work.old \cup work.new \in SUBSET Notifiers /\ work.version \in Version
          /\ work.version <= work.version
      BY <1>1, <1>3 DEF Version, None
    <3> QED  BY <2>2, <3>1 DEF RunToVersion
  <2> QED  BY <2>1, <2>2
<1>5. /\ notifier' \in [Notifiers -> Notifier]
      /\ \A n \in Notifiers : /\ notifier'[n].list = notifier[n].list
                              /\ notifier'[n].version = notifier[n].version
  BY <1>4, RunNotifier
<1>6. In("main")' = In("main") /\ In("new")' = In("new") /\ In("new") \subseteq Notifiers
  BY <1>5 DEF In
<1>7. v <= latest /\ (skipVersion # None => v <= skipVersion)
  BY <1>1, <1>3, <1>4 DEF Version, None
<1>8. TypeInv'
  BY <1>2, <1>4, <1>5 DEF IInv, TypeInv, WorkerPlaces
<1>9. ThreadInv'
  BY <1>2 DEF IInv, ThreadInv
<1>10. WorkInv'
  BY <1>2, <1>4, <1>6 DEF IInv, WorkInv, Working
<1>11. VersionInv'
  BY <1>2, <1>4, <1>5, <1>6, <1>7 DEF IInv, VersionInv
<1>12. WorkerForward'
  BY <1>2, <1>4 DEF IInv, WorkerForward, Version
<1>13. HelpersHoldVersions'
  <2>1. v # None
    BY <1>4 DEF Version, None
  <2> QED  BY <1>2, <1>3, <1>4, <1>5, <1>6, <2>1 DEF IInv, HelpersHoldVersions
<1>14. OneVersion'
  BY <1>4 DEF OneVersion
<1> QED  BY <1>8, <1>9, <1>10, <1>11, <1>12, <1>13, <1>14 DEF IInv

\* What was handed over is at the version of the helper; the rest is as before.
LEMMA HandedOverType ==
  ASSUME IInv, NEW ns \in SUBSET Notifiers
  PROVE  /\ HandedOver(ns) \in [Notifiers -> Notifier]
         /\ \A n \in Notifiers : /\ HandedOver(ns)[n].list = notifier[n].list
                                 /\ HandedOver(ns)[n].version \in {helper, notifier[n].version}
         /\ \A n \in ns : HandedOver(ns)[n].version = helper /\ HandedOver(ns)[n].hasRun
         /\ \A n \in Notifiers \ ns : HandedOver(ns)[n] = notifier[n]
<1>1. /\ notifier \in [Notifiers -> Notifier] /\ helper \in Version \cup {None}
      /\ {} \in SUBSET Version
  BY DEF IInv, TypeInv
<1>2. ASSUME NEW m \in Notifier
      PROVE  LET h == [m EXCEPT !.version = helper, !.hasRun = TRUE, !.changes = {}]
             IN  h \in Notifier /\ h.list = m.list /\ h.version = helper /\ h.hasRun
  BY <1>1 DEF Notifier
<1>3. \A n \in ns : /\ HandedOver(ns)[n] \in Notifier
                    /\ HandedOver(ns)[n].list = notifier[n].list
                    /\ HandedOver(ns)[n].version = helper /\ HandedOver(ns)[n].hasRun
  BY <1>1, <1>2 DEF HandedOver
<1>4. \A n \in Notifiers \ ns : HandedOver(ns)[n] = notifier[n]
  BY DEF HandedOver
<1>5. HandedOver(ns) = [n \in Notifiers |-> HandedOver(ns)[n]]
  BY DEF HandedOver
<1>6. HandedOver(ns) \in [Notifiers -> Notifier]
  BY <1>1, <1>3, <1>4, <1>5
<1> QED  BY <1>1, <1>3, <1>4, <1>6

LEMMA HandoverSkippedStep ==
  ASSUME IInv, HandoverSkipped
  PROVE  IInv'
<1>1. /\ worker = "skipped" /\ worker' = "running" /\ notifier' = HandedOver(work.old)
      /\ UNCHANGED <<latest, writer, read, at, goal, package, advancer, helper,
                     skipVersion, work>>
  BY DEF HandoverSkipped, fileVars, realmVars, helperVars
<1>2. /\ work.old \in SUBSET Notifiers /\ In("main") = work.old \cup work.new
      /\ helper <= work.version
  <2>1. /\ helper \in Version \cup {None} /\ work.skip \in Version \cup {None}
        /\ work.version \in Version \cup {None} /\ work.old \in SUBSET Notifiers
    BY DEF IInv, TypeInv, Work
  <2>2. helper <= work.skip /\ work.skip <= work.version
    BY <1>1 DEF IInv, WorkerForward
  <2>3. In("main") = work.old \cup work.new
    BY <1>1 DEF IInv, WorkInv, Working
  <2> QED  BY <2>1, <2>2, <2>3 DEF Version, None
<1>3. /\ notifier' \in [Notifiers -> Notifier]
      /\ \A n \in Notifiers : /\ notifier'[n].list = notifier[n].list
                              /\ notifier'[n].version \in {helper, notifier[n].version}
      /\ \A n \in Notifiers \ work.old : notifier'[n] = notifier[n]
  BY <1>1, <1>2, HandedOverType
<1>4. In("main")' = In("main") /\ In("new")' = In("new")
      /\ In("new") \subseteq Notifiers \ work.old
  <2>1. In("main")' = In("main") /\ In("new")' = In("new")
    BY <1>3 DEF In
  <2> QED  BY <1>2, <2>1 DEF In
<1>5. TypeInv' /\ ThreadInv'
  BY <1>1, <1>3 DEF IInv, TypeInv, ThreadInv, WorkerPlaces
<1>6. WorkInv' /\ WorkerForward' /\ OneVersion'
  BY <1>1, <1>2, <1>4 DEF IInv, WorkInv, Working, WorkerForward, OneVersion
<1>7. VersionInv' /\ HelpersHoldVersions'
  BY <1>1, <1>3, <1>4 DEF IInv, VersionInv, HelpersHoldVersions
<1> QED  BY <1>5, <1>6, <1>7 DEF IInv

\* The lists once the dead have left them.
LEMMA CleanedLists ==
  ASSUME NEW nf \in [Notifiers -> Notifier], NEW l \in {"main", "new"}
  PROVE  /\ {n \in Notifiers : Cleaned(nf)[n].list = l} = Live(nf, l)
         /\ \A n \in Live(nf, l) : Cleaned(nf)[n] = nf[n]
         /\ \A n \in Notifiers : Cleaned(nf)[n] \in {nf[n], [NoNotifier EXCEPT !.list = "gone"]}
<1>1. [NoNotifier EXCEPT !.list = "gone"].list = "gone"
  BY DEF NoNotifier
<1>2. \A n \in Notifiers : nf[n].alive \in BOOLEAN
  BY DEF Notifier
<1>3. \A n \in Notifiers :
        Cleaned(nf)[n] = IF n \in Dead(nf, "main") \cup Dead(nf, "new")
                         THEN [NoNotifier EXCEPT !.list = "gone"] ELSE nf[n]
  BY DEF Cleaned
<1>4. \A n \in Notifiers : n \in Live(nf, l) <=> Cleaned(nf)[n].list = l
  BY <1>1, <1>2, <1>3 DEF Live, Dead
<1>5. \A n \in Live(nf, l) : n \in Notifiers /\ n \notin Dead(nf, "main") \cup Dead(nf, "new")
  BY DEF Live, Dead
<1> QED  BY <1>3, <1>4, <1>5 DEF Live

LEMMA CleanedType ==
  ASSUME NEW nf \in [Notifiers -> Notifier]
  PROVE  Cleaned(nf) \in [Notifiers -> Notifier]
<1>1. [NoNotifier EXCEPT !.list = "gone"] \in Notifier
  BY DEF NoNotifier, Notifier
<1> QED  BY <1>1 DEF Cleaned

\* A list gives up the version it holds exactly when the last of it has died.
LEMMA ReleaseHeld ==
  ASSUME NEW nf, NEW l, NEW v,
         v # None => {n \in Notifiers : nf[n].list = l} # {}
  PROVE  /\ Release(nf, l, v) \in {v, None}
         /\ Release(nf, l, v) # None => Live(nf, l) # {}
         /\ Live(nf, l) # {} => Release(nf, l, v) = v
<1>1. {n \in Notifiers : nf[n].list = l} = Live(nf, l) \cup Dead(nf, l)
  BY DEF Live, Dead
<1> QED  BY <1>1 DEF Release, Emptied

LEMMA HandoverStep ==
  ASSUME IInv, Handover
  PROVE  IInv'
<1> DEFINE ns == work.old \cup work.new
           nf == HandedOver(ns)
<1>1. /\ worker = "handover" /\ worker' = "signalling" /\ work' = NoWork
      /\ notifier' = Cleaned(nf) /\ helper' = Release(nf, "main", helper)
      /\ skipVersion' = Release(nf, "main", skipVersion)
      /\ advancer' = Release(nf, "new", advancer)
      /\ UNCHANGED <<latest, writer, read, at, goal, package>>
  BY DEF Handover, fileVars, realmVars
<1>2. In("main") = ns /\ ns # {} /\ ns \in SUBSET Notifiers
  BY <1>1 DEF IInv, WorkInv, Working, In
<1>3. /\ nf \in [Notifiers -> Notifier]
      /\ \A n \in Notifiers : /\ nf[n].list = notifier[n].list
                              /\ nf[n].version \in {helper, notifier[n].version}
      /\ \A n \in ns : nf[n].version = helper /\ nf[n].hasRun
      /\ \A n \in Notifiers \ ns : nf[n] = notifier[n]
  BY <1>2, HandedOverType
<1> HIDE DEF nf, ns
<1>4. \A l : {n \in Notifiers : nf[n].list = l} = In(l)
  BY <1>3 DEF In
<1>5. /\ In("main")' = Live(nf, "main") /\ In("new")' = Live(nf, "new")
      /\ \A n \in Live(nf, "main") \cup Live(nf, "new") : notifier'[n] = nf[n]
      /\ \A n \in Notifiers : notifier'[n] \in {nf[n], [NoNotifier EXCEPT !.list = "gone"]}
  BY <1>1, <1>3, CleanedLists DEF In
<1>6. Live(nf, "main") \subseteq ns /\ Live(nf, "new") \subseteq In("new")
      /\ In("new") \subseteq Notifiers \ ns
  <2>1. In("new") \subseteq Notifiers \ ns
    BY <1>2 DEF In
  <2>2. \A n \in Live(nf, "main") : n \in In("main")
    BY <1>4 DEF Live
  <2>3. \A n \in Live(nf, "new") : n \in In("new")
    BY <1>4 DEF Live
  <2> QED  BY <1>2, <2>1, <2>2, <2>3
<1>7. /\ helper # None /\ (advancer # None <=> In("new") # {})
      /\ helper <= latest /\ (skipVersion # None => helper <= skipVersion /\ skipVersion <= latest)
      /\ helper \in Version \cup {None} /\ advancer \in Version \cup {None}
      /\ skipVersion \in Version \cup {None} /\ latest \in Version
  BY <1>2 DEF IInv, HelpersHoldVersions, VersionInv, TypeInv
<1>8. /\ helper' \in {helper, None} /\ (helper' # None <=> Live(nf, "main") # {})
      /\ Live(nf, "main") # {} => helper' = helper
      /\ skipVersion' \in {skipVersion, None}
      /\ skipVersion' # None => Live(nf, "main") # {}
  BY <1>1, <1>2, <1>4, <1>7, ReleaseHeld
<1>9. /\ advancer' \in {advancer, None} /\ (advancer' # None <=> Live(nf, "new") # {})
      /\ Live(nf, "new") # {} => advancer' = advancer
  BY <1>1, <1>4, <1>6, <1>7, ReleaseHeld
<1>10. TypeInv'
  <2>1. Cleaned(nf) \in [Notifiers -> Notifier] /\ NoWork \in Work
    BY <1>3, CleanedType DEF NoWork, Work
  <2> QED  BY <1>1, <1>7, <1>8, <1>9, <2>1 DEF IInv, TypeInv, WorkerPlaces
<1>11. ThreadInv' /\ WorkInv' /\ WorkerForward'
  BY <1>1 DEF IInv, ThreadInv, WorkInv, Working, WorkerForward
<1>12. VersionInv'
  <2>1. ASSUME NEW n \in Notifiers PROVE notifier'[n].version <= latest
    <3>1. notifier[n].version <= latest
      BY DEF IInv, VersionInv
    <3>2. [NoNotifier EXCEPT !.list = "gone"].version = 0 /\ 0 <= latest
      BY <1>7 DEF NoNotifier, None, Version
    <3> QED  BY <1>3, <1>5, <1>7, <3>1, <3>2
  <2>2. None <= latest
    BY <1>7 DEF Version, None
  <2> QED  BY <1>1, <1>5, <1>7, <1>8, <2>1, <2>2 DEF VersionInv
<1>13. HelpersHoldVersions'
  <2>1. ASSUME NEW n \in Live(nf, "new") PROVE advancer' <= notifier'[n].version
    BY <1>3, <1>5, <1>6, <1>9, <2>1 DEF IInv, HelpersHoldVersions
  <2> QED  BY <1>5, <1>8, <1>9, <2>1 DEF HelpersHoldVersions
<1>14. OneVersion'
  BY <1>3, <1>5, <1>6, <1>8 DEF OneVersion
<1> QED  BY <1>10, <1>11, <1>12, <1>13, <1>14 DEF IInv

LEMMA StartRunStep ==
  ASSUME IInv, StartRun
  PROVE  IInv'
<1> DEFINE old  == Live(notifier, "main")
           new  == Live(notifier, "new")
           skip == Release(notifier, "main", skipVersion)
<1>1. /\ worker = "idle"
      /\ notifier' = [n \in Notifiers |->
             IF n \in new THEN [notifier[n] EXCEPT !.list = "main"]
                          ELSE Cleaned(notifier)[n]]
      /\ UNCHANGED <<latest, writer, read, at, goal, package>>
  BY DEF StartRun, fileVars, realmVars
<1>2. \/ /\ old \cup new = {} /\ worker' = "signalling" /\ work' = NoWork
         /\ helper' = Release(notifier, "main", helper)
         /\ advancer' = Release(notifier, "new", advancer)
         /\ skipVersion' = skip
      \/ /\ old \cup new # {}
         /\ worker' = IF skip = None THEN "running" ELSE "skipping"
         /\ work' = [version |-> latest, skip |-> skip, old |-> old, new |-> new]
         /\ helper' = IF old = {} THEN latest ELSE helper
         /\ advancer' = None /\ skipVersion' = None
  BY DEF StartRun, ResetSkip
<1>3. /\ notifier \in [Notifiers -> Notifier] /\ latest \in Version
      /\ helper \in Version \cup {None} /\ skipVersion \in Version \cup {None}
      /\ advancer \in Version \cup {None}
      /\ helper <= latest /\ \A n \in Notifiers : notifier[n].version <= latest
      /\ skipVersion # None =>
            helper <= skipVersion /\ skipVersion <= latest /\ In("main") # {}
      /\ helper # None <=> In("main") # {}
      /\ advancer # None <=> In("new") # {}
  BY DEF IInv, TypeInv, VersionInv, HelpersHoldVersions
<1>4. /\ Release(notifier, "main", helper) \in {helper, None}
      /\ Release(notifier, "main", helper) # None => old # {}
      /\ skip \in {skipVersion, None} /\ (skip # None => old # {})
  BY <1>3, ReleaseHeld DEF In
<1>5. /\ Release(notifier, "new", advancer) \in {advancer, None}
      /\ Release(notifier, "new", advancer) # None => new # {}
  BY <1>3, ReleaseHeld DEF In
<1>6. old \subseteq In("main") /\ old \in SUBSET Notifiers /\ new \in SUBSET Notifiers
  BY DEF Live, In
<1>7. /\ {n \in Notifiers : Cleaned(notifier)[n].list = "main"} = old
      /\ {n \in Notifiers : Cleaned(notifier)[n].list = "new"} = new
      /\ \A n \in Notifiers :
            Cleaned(notifier)[n] \in {notifier[n], [NoNotifier EXCEPT !.list = "gone"]}
      /\ Cleaned(notifier) \in [Notifiers -> Notifier]
  BY <1>3, CleanedLists, CleanedType
<1> HIDE DEF old, new, skip
<1>8. ASSUME NEW n \in Notifiers
      PROVE  /\ notifier'[n] \in Notifier /\ notifier'[n].version <= latest
             /\ notifier'[n].list = IF n \in new THEN "main" ELSE Cleaned(notifier)[n].list
  <2>1. CASE n \in new
    <3>1. notifier'[n] = [notifier[n] EXCEPT !.list = "main"] /\ notifier[n] \in Notifier
      BY <1>1, <1>3, <2>1
    <3>2. \A m \in Notifier : LET k == [m EXCEPT !.list = "main"]
                              IN  k \in Notifier /\ k.version = m.version /\ k.list = "main"
      BY DEF Notifier
    <3> QED  BY <1>3, <2>1, <3>1, <3>2
  <2>2. CASE n \notin new
    <3>1. notifier'[n] = Cleaned(notifier)[n]
      BY <1>1, <2>2
    <3>2. [NoNotifier EXCEPT !.list = "gone"].version = 0 /\ 0 <= latest
      BY <1>3 DEF NoNotifier, None, Version
    <3> QED  BY <1>3, <1>7, <2>2, <3>1, <3>2
  <2> QED  BY <2>1, <2>2
<1>9. In("main")' = old \cup new /\ In("new")' = {}
  <2>1. In("main")' = {n \in Notifiers : notifier'[n].list = "main"}
        /\ In("new")' = {n \in Notifiers : notifier'[n].list = "new"}
    BY DEF In
  <2> QED  BY <1>6, <1>7, <1>8, <2>1
<1>10. notifier' \in [Notifiers -> Notifier]
  BY <1>1, <1>8
<1>11. ThreadInv'
  BY <1>1 DEF IInv, ThreadInv
<1>12. CASE old \cup new = {}
  <2>1. /\ worker' = "signalling" /\ work' = NoWork
        /\ helper' = None /\ advancer' = None /\ skipVersion' = None
    BY <1>2, <1>4, <1>5, <1>12
  <2>2. TypeInv'
    <3>1. NoWork \in Work
      BY DEF NoWork, Work
    <3> QED  BY <1>1, <1>10, <2>1, <3>1 DEF IInv, TypeInv, WorkerPlaces
  <2>3. None <= latest
    BY <1>3 DEF Version, None
  <2>4. VersionInv'
    BY <1>1, <1>8, <2>1, <2>3 DEF VersionInv
  <2>5. WorkInv' /\ WorkerForward' /\ HelpersHoldVersions' /\ OneVersion'
    BY <1>9, <1>12, <2>1 DEF WorkInv, Working, WorkerForward, HelpersHoldVersions, OneVersion
  <2> QED  BY <1>11, <2>2, <2>4, <2>5 DEF IInv
<1>13. CASE old \cup new # {}
  <2>1. /\ worker' = IF skip = None THEN "running" ELSE "skipping"
        /\ work' = [version |-> latest, skip |-> skip, old |-> old, new |-> new]
        /\ helper' = IF old = {} THEN latest ELSE helper
        /\ advancer' = None /\ skipVersion' = None
    BY <1>2, <1>13
  <2>2. /\ work'.version = latest /\ work'.skip = skip
        /\ work'.old = old /\ work'.new = new /\ work' \in Work
    BY <1>3, <1>4, <1>6, <2>1 DEF Work
  <2>3. TypeInv'
    BY <1>1, <1>3, <1>10, <2>1, <2>2 DEF IInv, TypeInv, WorkerPlaces
  <2>4. /\ helper' <= latest /\ helper' # None /\ latest # None /\ latest <= latest
        /\ skip # None => helper' = helper /\ helper <= skip /\ skip <= latest /\ old # {}
    BY <1>3, <1>4, <1>6, <2>1 DEF Version, None
  <2>5. WorkInv'
    BY <1>1, <1>9, <1>13, <2>1, <2>2, <2>4 DEF WorkInv, Working
  <2>6. VersionInv'
    BY <1>1, <1>8, <2>1, <2>4 DEF VersionInv
  <2>7. WorkerForward'
    BY <1>1, <2>1, <2>2, <2>4 DEF WorkerForward
  <2>8. HelpersHoldVersions' /\ OneVersion'
    BY <1>9, <1>13, <2>1, <2>4 DEF HelpersHoldVersions, OneVersion
  <2> QED  BY <1>11, <2>3, <2>5, <2>6, <2>7, <2>8 DEF IInv
<1> QED  BY <1>12, <1>13

LEMMA SignalStep ==
  ASSUME IInv, SignalRealms
  PROVE  IInv'
<1>1. /\ worker = "signalling" /\ worker' = "idle"
      /\ UNCHANGED <<latest, writer, read, at, goal, package, notifier, advancer,
                     helper, skipVersion, work>>
  BY DEF SignalRealms, fileVars, realmVars, helperVars
<1>2. In("main")' = In("main") /\ In("new")' = In("new")
  BY <1>1 DEF In
<1> QED
  BY <1>1, <1>2 DEF IInv, TypeInv, ThreadInv, WorkInv, Working, VersionInv, WorkerForward,
     HelpersHoldVersions, OneVersion, WorkerPlaces

-----------------------------------------------------------------------------
(* The specification *)

LEMMA InitInv == Init => IInv
<1> SUFFICES ASSUME Init PROVE IInv
  OBVIOUS
<1>1. 1 \in Version
  BY PipelineAssumption DEF Version
<1>2. NoNotifier \in Notifier /\ NoWork \in Work /\ NoNotifier.list = "none"
      /\ NoNotifier.version = None
  BY DEF NoNotifier, Notifier, NoWork, Work
<1>3. TypeInv
  BY <1>1, <1>2 DEF Init, TypeInv, Places, WorkerPlaces
<1>4. In("main") = {} /\ In("new") = {}
  BY <1>2 DEF Init, In
<1>5. ThreadInv /\ WorkInv
  BY DEF Init, ThreadInv, WorkInv, Working
<1>6. VersionInv
  BY <1>2 DEF Init, VersionInv, None
<1>7. WorkerForward /\ HelpersHoldVersions /\ OneVersion
  BY <1>4 DEF Init, WorkerForward, HelpersHoldVersions, OneVersion
<1> QED  BY <1>3, <1>5, <1>6, <1>7 DEF IInv

LEMMA NextInv == IInv /\ [Next]_vars => IInv'
<1> SUFFICES ASSUME IInv, [Next]_vars PROVE IInv'
  OBVIOUS
<1>1. CASE UNCHANGED vars
  BY <1>1, QuietStep DEF vars, fileVars
<1>2. ASSUME NEW n \in Notifiers, Register(n) \/ Unregister(n)
      PROVE  IInv'
  BY <1>2, NotifierStep
<1>3. ASSUME NEW n \in Notifiers, AddCallback(n) \/ RemoveCallback(n)
      PROVE  IInv'
  BY <1>3, QuietStep DEF AddCallback, RemoveCallback, fileVars
<1>4. ASSUME NEW r \in Realms, Notify(r)
      PROVE  IInv'
  BY <1>4, NotifyStep
<1>5. ASSUME NEW r \in Realms, StartRefresh(r) \/ BeginWrite(r) \/ EndWait(r)
      PROVE  IInv'
  BY <1>5, WaitStep
<1>6. ASSUME NEW r \in Realms, Deliver(r) \/ Promote(r)
      PROVE  IInv'
  BY <1>6, AdvanceStep
<1>7. ASSUME NEW r \in Realms,
             \/ CancelTransaction(r) \/ NotifyOthers(r)
             \/ \E ns \in (SUBSET Mine(r)) \ {{}} : SuppressNext(r, ns)
      PROVE  IInv'
  BY <1>7, WritingStep
<1>8. ASSUME (\E r \in Realms : CommitWrite(r)) \/ OtherCommits
      PROVE  IInv'
  BY <1>8, CommitStep
<1>9. CASE OtherNotifies
  BY <1>9, QuietStep DEF OtherNotifies
<1>10. CASE Worker
  BY <1>10, StartRunStep, RunStep, HandoverSkippedStep, HandoverStep, SignalStep DEF Worker
<1> QED
  BY <1>1, <1>2, <1>3, <1>4, <1>5, <1>6, <1>7, <1>8, <1>9, <1>10 DEF Next

\* Everything below follows from the invariant.
THEOREM PipelineInvariant == Spec => []IInv
<1>1. Init => IInv
  BY InitInv
<1>2. IInv /\ [Next]_vars => IInv'
  BY NextInv
<1> QED  BY <1>1, <1>2, PTL DEF Spec

\* The helper of the worker holds a read transaction exactly while there are
\* notifiers to run and the advancer exactly while there are new ones, at a
\* version no new notifier is before (realm_coordinator.cpp).
THEOREM PipelineHelpersHoldVersions == Spec => []HelpersHoldVersions
<1>1. IInv => HelpersHoldVersions
  BY DEF IInv
<1> QED  BY <1>1, PipelineInvariant, PTL

\* No read transaction goes back: not that of the worker, to the version to
\* skip and to that of the run, nor that of a Realm, to the version of its
\* package (run_async_notifiers, advance_to_ready, promote_to_write).
THEOREM PipelineNeverBackwards == Spec => []NeverBackwards
<1>1. IInv => NeverBackwards
  BY DEF IInv, WorkerForward, ThreadInv, NeverBackwards
<1> QED  BY <1>1, PipelineInvariant, PTL

\* Between two runs of the worker all the notifiers have run and are at the
\* version of its helper (run_async_notifiers, prepare_handover).
THEOREM PipelineOneVersion == Spec => []OneVersion
<1>1. IInv => OneVersion
  BY DEF IInv
<1> QED  BY <1>1, PipelineInvariant, PTL

-----------------------------------------------------------------------------
(* What a callback hears of: the invariant *)

HistoryTypes ==
  /\ callback \in [Notifiers -> Callback]
  /\ told \in [Notifiers -> Version \cup {None}]
  /\ suppressed \in [Notifiers -> SUBSET Version]
  /\ missed \in [Notifiers -> SUBSET Version]

HasRun(n) == notifier[n].list = "main" /\ notifier[n].hasRun

\* Who is in which list, and that the run knows the new from the old.
ListInv ==
  /\ \A n \in Notifiers :
        /\ notifier[n].alive => notifier[n].list \in {"new", "main"}
        /\ notifier[n].list \in {"none", "new"} => ~notifier[n].hasRun
  /\ Working => /\ \A n \in work.old : notifier[n].hasRun
                /\ \A n \in work.new : ~notifier[n].hasRun

\* Between a run and its handover.
Ran == worker \in {"skipped", "handover"}

\* The notifiers that have run are at one version.  After a run they have the
\* changes from there to the version of the helper, otherwise none.
RunInv ==
  /\ worker = "skipped" => helper = work.skip
  /\ worker = "handover" =>
        /\ helper = work.version
        /\ \A n \in Notifiers : notifier[n].list = "main" /\ notifier[n].alive =>
                                notifier[n].previous = helper
  /\ \A n, k \in Notifiers : HasRun(n) /\ HasRun(k) =>
        notifier[n].version = notifier[k].version
  /\ \A n \in Notifiers : HasRun(n) =>
        /\ notifier[n].version <= helper
        /\ ~Ran => notifier[n].version = helper
  /\ \A n \in Notifiers : HasRun(n) /\ notifier[n].alive =>
        /\ Ran => /\ notifier[n].previous = helper
                  /\ notifier[n].changes \subseteq notifier[n].version + 1 .. helper
        /\ ~Ran => /\ notifier[n].previous = notifier[n].version
                   /\ notifier[n].changes = {}

PackageInv == \A r \in Realms :
  /\ \A n \in package[r] : Owner[n] = r
  /\ at[r] \in {"promoting", "promoted"} => goal[r] = latest

\* The callback of n is in the package its Realm goes on with.
Packed(n) == /\ at[Owner[n]] \in {"delivering", "promoted"}
             /\ n \in package[Owner[n]]

\* The version up to which the changes of n were packaged: those after it are
\* accumulated.
Position(n) == IF Packed(n) THEN goal[Owner[n]] ELSE told[n]

Tracked(n) == callback[n].present /\ (callback[n].initial \/ Packed(n))

PresentInv(n) ==
  /\ callback[n].present => notifier[n].alive
  /\ ~callback[n].present => ~callback[n].initial /\ ~callback[n].skip

\* A thread that waits has all its callbacks in the package; one that writes
\* has told them everything.
PlaceInv(n) == callback[n].present =>
  /\ at[Owner[n]] \in {"refreshing", "promoting", "promoted"} => n \in package[Owner[n]]
  /\ at[Owner[n]] = "delivering" /\ callback[n].initial => n \in package[Owner[n]]
  /\ at[Owner[n]] \in {"promoted", "write", "committing"} => notifier[n].version = latest
  /\ at[Owner[n]] \in {"write", "committing"} => callback[n].initial /\ told[n] = latest

\* What is accumulated comes after what was packaged.  A Realm is past its
\* notifiers by its own commit only, before which everything was packaged.
TrackedInv(n) == Tracked(n) =>
  /\ HasRun(n)
  /\ Position(n) <= notifier[n].version
  /\ \/ read[Owner[n]] <= notifier[n].version
     \/ read[Owner[n]] = notifier[n].version + 1 /\ Position(n) = notifier[n].version
  /\ callback[n].accumulated \subseteq Position(n) + 1 .. notifier[n].version

\* HearsOnce, of one callback.
DeliverInv(n) == callback[n].initial /\ Packed(n) =>
  callback[n].deliver \subseteq told[n] + 1 .. goal[Owner[n]]

\* The versions whose changes a callback need not hear of.
Excused(n) == suppressed[n] \cup missed[n]

\* Nothing else is missing between what was packaged and the version of the
\* notifier (HearsAll in what is delivered).
AllInv(n) ==
  /\ Ran /\ callback[n].present /\ HasRun(n) =>
        notifier[n].version + 1 .. helper \subseteq notifier[n].changes \cup missed[n]
  /\ Tracked(n) => Position(n) + 1 .. notifier[n].version
                      \subseteq callback[n].accumulated \cup Excused(n)
  /\ callback[n].initial /\ Packed(n) => told[n] + 1 .. goal[Owner[n]]
                      \subseteq callback[n].deliver \cup Excused(n)

\* A callback that is to skip a handover skips one without changes, or one up
\* to the version at which the worker is going to stop, which is the very next
\* version or has overwritten it.
SkipInv(n) == callback[n].present /\ callback[n].skip =>
  LET next == notifier[n].version + 1
  IN  /\ callback[n].initial /\ next \in suppressed[n]
      /\ \/ at[Owner[n]] = "committing"
         \/ /\ next <= skipVersion /\ next .. skipVersion \subseteq Excused(n)
            /\ Working => work.version < next
         \/ worker \in {"skipping", "skipped"} /\ next .. work.skip \subseteq Excused(n)

CallbackInv(n) == /\ PresentInv(n) /\ PlaceInv(n) /\ TrackedInv(n)
                  /\ DeliverInv(n) /\ AllInv(n) /\ SkipInv(n)

ChangesInv == /\ HistoryTypes /\ ListInv /\ RunInv /\ PackageInv
              /\ \A n \in Notifiers : CallbackInv(n)

-----------------------------------------------------------------------------
(* What a callback hears of: types *)

LEMMA NotifierTypes ==
  ASSUME IInv, NEW n \in Notifiers
  PROVE  /\ notifier[n] \in Notifier
         /\ notifier[n].version \in Int /\ notifier[n].previous \in Int
         /\ notifier[n].alive \in BOOLEAN /\ notifier[n].hasRun \in BOOLEAN
         /\ notifier[n].changes \in SUBSET Version
         /\ notifier[n].version <= latest /\ latest \in Int
<1>1. notifier[n] \in Notifier /\ latest \in Version
  BY DEF IInv, TypeInv
<1>2. notifier[n].version <= latest
  BY DEF IInv, VersionInv
<1> QED  BY <1>1, <1>2 DEF Notifier, Version, None

LEMMA ThreadTypes ==
  ASSUME IInv, NEW n \in Notifiers
  PROVE  /\ Owner[n] \in Realms
         /\ read[Owner[n]] \in Int /\ goal[Owner[n]] \in Int /\ latest \in Int
         /\ at[Owner[n]] \in Places /\ package[Owner[n]] \in SUBSET Notifiers
<1>1. Owner[n] \in Realms
  BY PipelineAssumption
<1> QED  BY <1>1 DEF IInv, TypeInv, Version, None

LEMMA CallbackTypes ==
  ASSUME HistoryTypes, NEW n \in Notifiers
  PROVE  /\ callback[n] \in Callback /\ told[n] \in Int
         /\ callback[n].present \in BOOLEAN /\ callback[n].initial \in BOOLEAN
         /\ callback[n].skip \in BOOLEAN
         /\ callback[n].accumulated \in SUBSET Version
         /\ callback[n].deliver \in SUBSET Version /\ suppressed[n] \in SUBSET Version
         /\ missed[n] \in SUBSET Version
BY DEF HistoryTypes, Callback, Version, None

\* What Deliverable chooses has run, and is at one version.
LEMMA DeliverableRan ==
  ASSUME IInv, ListInv, RunInv, NEW S \in SUBSET Notifiers
  PROVE  /\ Deliverable(S) \subseteq S
         /\ \A n \in Deliverable(S) :
               HasRun(n) /\ VersionOf(Deliverable(S)) = notifier[n].version
         /\ \A n \in S : HasRun(n) /\ notifier[n].alive => n \in Deliverable(S)
<1> DEFINE D == Deliverable(S)
<1>1. D \subseteq S /\ \A n \in D : HasRun(n)
  BY DEF Deliverable, ListInv, HasRun
<1>2. \A n \in S : HasRun(n) /\ notifier[n].alive => n \in D
  BY DEF Deliverable, HasRun
<1>3. ASSUME NEW n \in D PROVE VersionOf(D) = notifier[n].version
  <2>1. (CHOOSE k \in D : TRUE) \in D
    BY <1>3
  <2> QED  BY <1>1, <2>1 DEF VersionOf, RunInv
<1> QED  BY <1>1, <1>2, <1>3

-----------------------------------------------------------------------------
(* What a callback hears of: the threads *)

\* The lists and the runs are the worker's; a thread leaves them alone.
LEMMA QuietLists ==
  ASSUME ChangesInv, UNCHANGED <<notifier, helper, workVars>>
  PROVE  ListInv' /\ RunInv' /\ (\A n \in Notifiers : HasRun(n)' <=> HasRun(n))
BY DEF ChangesInv, ListInv, RunInv, HasRun, Ran, Working, workVars

\* The versions to skip are the worker's; a thread changes them by a commit.
LEMMA SkipStays ==
  ASSUME IInv, HistoryTypes, NEW n \in Notifiers, SkipInv(n),
         notifier' = notifier, workVars' = workVars, skipVersion' = skipVersion,
         callback'[n].present => callback[n].present, callback'[n].skip => callback[n].skip,
         callback[n].initial => callback'[n].initial,
         \A v \in suppressed[n] : v > notifier[n].version => v \in suppressed'[n],
         \A v \in missed[n] : v > notifier[n].version => v \in missed'[n],
         at[Owner[n]] = "committing" => at'[Owner[n]] = "committing"
  PROVE  SkipInv(n)'
<1>1. notifier[n].version \in Int
  BY NotifierTypes
<1> DEFINE next == notifier[n].version + 1
<1>2. \A v \in Excused(n) : v > notifier[n].version => v \in Excused(n)'
  BY DEF Excused
<1>3. \A k : next .. k \subseteq Excused(n) => next .. k \subseteq Excused(n)'
  BY <1>1, <1>2
<1>4. (Working' <=> Working) /\ worker' = worker /\ work' = work
  BY DEF Working, workVars
<1>5. next \in suppressed[n] => next \in suppressed'[n]
  BY <1>1
<1>6. notifier'[n].version + 1 = next
  OBVIOUS
<1> HIDE DEF next
<1> QED  BY <1>3, <1>4, <1>5, <1>6 DEF SkipInv, next

\* A callback whose Realm does nothing is as before, also if others commit,
\* which they do not while this Realm writes.
LEMMA StayStep ==
  ASSUME IInv, HistoryTypes, NEW n \in Notifiers, CallbackInv(n),
         LET r == Owner[n]
         IN  /\ at'[r] = at[r] /\ goal'[r] = goal[r] /\ package'[r] = package[r]
             /\ read'[r] = read[r]
             /\ \/ latest' = latest
                \/ latest' = latest + 1 /\ at[r] \notin {"promoted", "write", "committing"},
         callback'[n] = callback[n], told'[n] = told[n], suppressed'[n] = suppressed[n],
         missed[n] \subseteq missed'[n],
         UNCHANGED <<notifier, helper, workVars>>, skipVersion' = skipVersion \/ SkipInv(n)'
  PROVE  CallbackInv(n)'
<1>1. (Packed(n)' <=> Packed(n)) /\ Position(n)' = Position(n) /\ (Ran' <=> Ran)
  BY DEF Packed, Position, Ran, workVars
<1>2. PresentInv(n)' /\ PlaceInv(n)' /\ TrackedInv(n)' /\ DeliverInv(n)'
  BY <1>1 DEF CallbackInv, PresentInv, PlaceInv, TrackedInv, DeliverInv, Tracked, HasRun
<1>3. AllInv(n)'
  <2>1. Excused(n) \subseteq Excused(n)'
    BY DEF Excused
  <2> QED  BY <1>1, <2>1 DEF CallbackInv, AllInv, Tracked, HasRun
<1>4. SkipInv(n)'
  BY SkipStays DEF CallbackInv
<1> QED  BY <1>2, <1>3, <1>4 DEF CallbackInv

\* A thread begins to wait, for all its callbacks.
LEMMA PlaceStep ==
  ASSUME IInv, HistoryTypes, NEW n \in Notifiers, CallbackInv(n), ListInv,
         UNCHANGED <<latest, read, notifier, callback, told, suppressed, missed, helper, skipVersion,
                     workVars>>,
         LET r == Owner[n]
         IN  /\ at[r] = "idle" /\ at'[r] \in {"refreshing", "promoting"}
             /\ package'[r] = ForRealm(r)
  PROVE  CallbackInv(n)'
<1>1. /\ ~Packed(n) /\ ~Packed(n)' /\ Position(n) = told[n] /\ Position(n)' = told[n]
      /\ Ran' <=> Ran
  BY DEF Packed, Position, Ran, workVars
<1>2. PresentInv(n)' /\ TrackedInv(n)' /\ DeliverInv(n)'
  BY <1>1 DEF CallbackInv, PresentInv, TrackedInv, DeliverInv, Tracked, HasRun
<1>3. callback[n].present => n \in ForRealm(Owner[n])
  BY DEF CallbackInv, PresentInv, ForRealm, In, ListInv
<1>4. PlaceInv(n)'
  BY <1>3 DEF CallbackInv, PlaceInv
<1>5. AllInv(n)'
  BY <1>1 DEF CallbackInv, AllInv, Tracked, HasRun, Excused
<1>6. SkipInv(n)'
  BY SkipStays DEF CallbackInv
<1> QED  BY <1>2, <1>4, <1>5, <1>6 DEF CallbackInv

\* The packages of the others, and of a Realm that goes on with one of its own.
LEMMA PackageStep ==
  ASSUME IInv, ChangesInv, NEW r \in Realms, NEW where, NEW v, NEW ns,
         Go(r, where, v, ns), \A n \in ns : Owner[n] = r,
         where \in {"promoting", "promoted"} => v = latest, latest' = latest
  PROVE  PackageInv'
<1>1. /\ at' = [at EXCEPT ![r] = where] /\ goal' = [goal EXCEPT ![r] = v]
      /\ package' = [package EXCEPT ![r] = ns]
  BY DEF Go
<1>2. at \in [Realms -> Places] /\ goal \in [Realms -> Version \cup {None}]
      /\ package \in [Realms -> SUBSET Notifiers]
  BY DEF IInv, TypeInv
<1>3. ASSUME NEW q \in Realms
      PROVE  /\ \A n \in package'[q] : Owner[n] = q
             /\ at'[q] \in {"promoting", "promoted"} => goal'[q] = latest'
  <2>1. CASE q = r
    BY <1>1, <1>2, <2>1
  <2>2. CASE q # r
    BY <1>1, <1>2, <2>2 DEF ChangesInv, PackageInv
  <2> QED  BY <2>1, <2>2
<1> QED  BY <1>3 DEF PackageInv

LEMMA WaitChanges ==
  ASSUME IInv, ChangesInv, NEW r \in Realms, StartRefresh(r) \/ BeginWrite(r)
  PROVE  ChangesInv'
<1>1. PICK where \in {"refreshing", "promoting"} : Go(r, where, latest, ForRealm(r))
  BY DEF StartRefresh, BeginWrite
<1>2. /\ at[r] = "idle"
      /\ UNCHANGED <<latest, read, notifier, callback, told, suppressed, missed, helper, skipVersion,
                     workVars>>
  BY DEF StartRefresh, BeginWrite, fileVars, history, helperVars
<1>3. PackageInv'
  BY <1>1, <1>2, PackageStep DEF ForRealm
<1>4. at \in [Realms -> Places] /\ goal \in [Realms -> Version \cup {None}]
      /\ package \in [Realms -> SUBSET Notifiers]
  BY DEF IInv, TypeInv
<1>5. ASSUME NEW n \in Notifiers PROVE CallbackInv(n)'
  <2>1. CallbackInv(n) /\ ListInv /\ HistoryTypes /\ Owner[n] \in Realms
    BY PipelineAssumption DEF ChangesInv
  <2>2. CASE Owner[n] = r
    BY <1>1, <1>2, <1>4, <2>1, <2>2, PlaceStep DEF Go
  <2>3. CASE Owner[n] # r
    BY <1>1, <1>2, <1>4, <2>1, <2>3, StayStep DEF Go
  <2> QED  BY <2>2, <2>3
<1>6. HistoryTypes'
  BY <1>2 DEF ChangesInv, HistoryTypes
<1> QED  BY <1>2, <1>3, <1>5, <1>6, QuietLists DEF ChangesInv

\* A package is made for n and its Realm goes to the version of n with it.
LEMMA PackedStep ==
  ASSUME IInv, NEW n \in Notifiers, CallbackInv(n), HistoryTypes, RunInv,
         callback[n].present, HasRun(n),
         UNCHANGED <<latest, read, notifier, told, suppressed, missed, helper, skipVersion, workVars>>,
         callback'[n] = [callback[n] EXCEPT !.deliver = callback[n].accumulated,
                                            !.accumulated = {}],
         LET r == Owner[n]
         IN  /\ at[r] \notin {"delivering", "promoted", "committing"} /\ n \in package'[r]
             /\ at'[r] \in {"delivering", "promoted"}
             /\ goal'[r] = notifier[n].version /\ read[r] <= notifier[n].version
             /\ at'[r] = "promoted" => notifier[n].version = latest
  PROVE  CallbackInv(n)'
<1>1. ~Packed(n) /\ Packed(n)' /\ Position(n) = told[n] /\ Position(n)' = notifier[n].version
  BY DEF Packed, Position
<1>2. callback[n] \in Callback /\ notifier[n].version \in Int
  BY CallbackTypes, NotifierTypes
<1>3. /\ callback'[n].present /\ callback'[n].initial = callback[n].initial
      /\ callback'[n].accumulated = {} /\ callback'[n].deliver = callback[n].accumulated
  BY <1>2 DEF Callback
<1>4. PresentInv(n)' /\ PlaceInv(n)'
  BY <1>3 DEF CallbackInv, PresentInv, PlaceInv
<1>5. TrackedInv(n)'
  BY <1>1, <1>2, <1>3 DEF TrackedInv, Tracked, HasRun
<1>6. DeliverInv(n)'
  BY <1>1, <1>3 DEF CallbackInv, TrackedInv, Tracked, DeliverInv
<1>7. AllInv(n)'
  <2>1. Ran' <=> Ran
    BY DEF Ran, workVars
  <2>2. notifier[n].version + 1 .. notifier[n].version = {}
    BY <1>2
  <2>3. callback[n].initial => Tracked(n)
    BY DEF Tracked
  <2> QED  BY <1>1, <1>3, <2>1, <2>2, <2>3 DEF CallbackInv, AllInv, HasRun, Excused
<1>8. SkipInv(n)'
  BY <1>2, SkipStays DEF CallbackInv, Callback
<1> QED  BY <1>4, <1>5, <1>6, <1>7, <1>8 DEF CallbackInv

\* No package is made for n: it has not run, or has no callback.
LEMMA UnpackedStep ==
  ASSUME IInv, NEW n \in Notifiers, CallbackInv(n), HistoryTypes,
         callback[n].present => ~callback[n].initial \/ at'[Owner[n]] = "idle",
         UNCHANGED <<latest, read, notifier, told, suppressed, missed, helper, skipVersion, workVars>>,
         callback[n].present => callback'[n] = callback[n],
         /\ callback'[n].present = callback[n].present
         /\ callback'[n].initial = callback[n].initial
         /\ callback'[n].skip = callback[n].skip,
         LET r == Owner[n]
         IN  /\ at[r] \notin {"delivering", "promoted"}
             /\ callback[n].present => n \notin package'[r]
             /\ at'[r] \in {"delivering", "idle"} \/ ~callback[n].present
             /\ at[r] # "committing"
  PROVE  CallbackInv(n)'
<1>1. ~Packed(n) /\ Position(n) = told[n]
      /\ (callback[n].present => ~Packed(n)' /\ Position(n)' = told[n])
  BY DEF Packed, Position
<1>2. PresentInv(n)' /\ PlaceInv(n)'
  BY <1>1 DEF CallbackInv, PresentInv, PlaceInv
<1>3. TrackedInv(n)' /\ DeliverInv(n)'
  BY <1>1, <1>2 DEF CallbackInv, PresentInv, TrackedInv, Tracked, DeliverInv, HasRun
<1>4. AllInv(n)'
  <2>1. Ran' <=> Ran
    BY DEF Ran, workVars
  <2>2. ~callback[n].present => ~callback[n].initial
    BY DEF CallbackInv, PresentInv
  <2> QED  BY <1>1, <2>1, <2>2 DEF CallbackInv, AllInv, Tracked, HasRun, Excused
<1>5. SkipInv(n)'
  BY SkipStays DEF CallbackInv
<1> QED  BY <1>2, <1>3, <1>4, <1>5 DEF CallbackInv

\* A package older than the Realm is dropped: there was nothing in it.
LEMMA DroppedStep ==
  ASSUME IInv, NEW n \in Notifiers, CallbackInv(n), HistoryTypes,
         callback[n].present, notifier[n].version < read[Owner[n]],
         UNCHANGED <<latest, read, notifier, told, suppressed, missed, helper, skipVersion, workVars>>,
         callback'[n] = [callback[n] EXCEPT !.deliver = callback[n].accumulated,
                                            !.accumulated = {}],
         at[Owner[n]] \notin {"delivering", "promoted", "committing"}, at'[Owner[n]] = "idle"
  PROVE  CallbackInv(n)'
<1>1. ~Packed(n) /\ ~Packed(n)' /\ Position(n) = told[n] /\ Position(n)' = told[n]
  BY DEF Packed, Position
<1>2. callback[n] \in Callback /\ notifier[n].version \in Int
  BY CallbackTypes, NotifierTypes
<1>3. /\ callback'[n].present /\ callback'[n].initial = callback[n].initial
      /\ callback'[n].accumulated = {}
  BY <1>2 DEF Callback
<1>4. PresentInv(n)' /\ PlaceInv(n)' /\ DeliverInv(n)'
  BY <1>1, <1>3 DEF CallbackInv, PresentInv, PlaceInv, DeliverInv
<1>5. TrackedInv(n)'
  BY <1>1, <1>3 DEF CallbackInv, TrackedInv, Tracked, HasRun
<1>6. AllInv(n)'
  <2>1. Ran' <=> Ran
    BY DEF Ran, workVars
  <2>2. Tracked(n) => Position(n) + 1 .. notifier[n].version = {}
    <3>1. Tracked(n) => Position(n) = notifier[n].version
      BY <1>2, ThreadTypes DEF CallbackInv, TrackedInv
    <3> QED  BY <1>2, <3>1
  <2> QED  BY <1>1, <1>3, <2>1, <2>2 DEF CallbackInv, AllInv, Tracked, HasRun, Excused
<1>7. SkipInv(n)'
  BY <1>2, SkipStays DEF CallbackInv, Callback
<1> QED  BY <1>4, <1>5, <1>6, <1>7 DEF CallbackInv

LEMMA Packaged ==
  ASSUME HistoryTypes, NEW ns, PackageForDelivery(ns), NEW n \in Notifiers
  PROVE  /\ n \in ns => callback'[n] = [callback[n] EXCEPT
                            !.deliver = callback[n].accumulated, !.accumulated = {}]
         /\ n \notin ns => callback'[n] = callback[n]
         /\ callback'[n].present = callback[n].present
         /\ callback'[n].initial = callback[n].initial
         /\ callback'[n].skip = callback[n].skip
         /\ callback'[n] \in Callback
<1>1. callback[n] \in Callback
  BY CallbackTypes
<1>2. callback'[n] = IF n \in ns
                     THEN [callback[n] EXCEPT !.deliver = callback[n].accumulated,
                                              !.accumulated = {}]
                     ELSE callback[n]
  BY DEF PackageForDelivery
<1> QED  BY <1>1, <1>2 DEF Callback

LEMMA PackagedTypes ==
  ASSUME HistoryTypes, NEW ns, PackageForDelivery(ns), UNCHANGED history
  PROVE  HistoryTypes'
<1>1. \A n \in Notifiers : callback'[n] \in Callback
  BY Packaged
<1>2. callback' = [n \in Notifiers |-> callback'[n]]
  BY DEF PackageForDelivery
<1> QED  BY <1>1, <1>2 DEF HistoryTypes, history

\* Where the thread of r is after packaging, as a fact about each callback.
LEMMA GoFacts ==
  ASSUME IInv, NEW r \in Realms, NEW where, NEW v, NEW ns, Go(r, where, v, ns)
  PROVE  /\ at'[r] = where /\ goal'[r] = v /\ package'[r] = ns
         /\ \A q \in Realms : q # r => /\ at'[q] = at[q] /\ goal'[q] = goal[q]
                                       /\ package'[q] = package[q]
BY DEF Go, IInv, TypeInv

\* The run loop: everything that has run is in the package, at the version the
\* Realm goes to, or the package is dropped.
LEMMA NotifyChanges ==
  ASSUME IInv, ChangesInv, NEW r \in Realms, Notify(r)
  PROVE  ChangesInv'
<1> DEFINE D == Deliverable(ForRealm(r))
<1>1. UNCHANGED <<latest, read, notifier, told, suppressed, missed, helper, skipVersion, workVars,
                  history>>
  BY DEF Notify, fileVars, history, helperVars
<1>2. CASE UNCHANGED <<at, goal, package, callback>>
  <2>1. \A n \in Notifiers : CallbackInv(n)'
    BY <1>1, <1>2, StayStep DEF ChangesInv
  <2>2. HistoryTypes' /\ PackageInv'
    BY <1>1, <1>2 DEF ChangesInv, HistoryTypes, PackageInv
  <2> QED  BY <1>1, <2>1, <2>2, QuietLists DEF ChangesInv
<1>3. HistoryTypes /\ ListInv /\ RunInv /\ ForRealm(r) \in SUBSET Notifiers
      /\ \A n \in Notifiers : CallbackInv(n) /\ Owner[n] \in Realms
  BY PipelineAssumption DEF ChangesInv, ForRealm, In
<1>4. /\ D \subseteq Notifiers
      /\ \A n \in D : Owner[n] = r /\ HasRun(n) /\ VersionOf(D) = notifier[n].version
      /\ \A n \in Notifiers : Owner[n] = r /\ callback[n].present /\ HasRun(n) => n \in D
  <2>1. \A n \in ForRealm(r) : Owner[n] = r
    BY DEF ForRealm
  <2>2. ASSUME NEW n \in Notifiers, Owner[n] = r, callback[n].present, HasRun(n)
        PROVE  n \in ForRealm(r) /\ notifier[n].alive
    BY <1>3, <2>2 DEF CallbackInv, PresentInv, ForRealm, In, HasRun
  <2> QED  BY <1>3, <2>1, <2>2, DeliverableRan
<1> HIDE DEF D
<1>5. \A n \in Notifiers : callback[n].present /\ callback[n].initial => HasRun(n)
  BY <1>3 DEF CallbackInv, TrackedInv, Tracked
<1>6. ASSUME at[r] = "idle", NEW ns \in {D, {}}, NEW v, NEW where \in {"idle", "delivering"},
             Go(r, where, v, ns),
             where = "idle" =>
                /\ ns = {}
                /\ \/ PackageForDelivery({})
                   \/ PackageForDelivery(D) /\ \A n \in D : notifier[n].version < read[r],
             where = "delivering" =>
                /\ PackageForDelivery(ns) /\ ns = D
                /\ \A n \in D : v = notifier[n].version /\ read[r] <= v
      PROVE  ChangesInv'
  <2>1. /\ at'[r] = where /\ goal'[r] = v /\ package'[r] = ns
        /\ \A q \in Realms : q # r => /\ at'[q] = at[q] /\ goal'[q] = goal[q]
                                      /\ package'[q] = package[q]
    BY <1>6, GoFacts
  <2>2. PICK ds \in {D, {}} : /\ PackageForDelivery(ds)
                              /\ where = "delivering" => ds = D
                              /\ where = "idle" =>
                                   ns = {} /\ \A n \in ds : notifier[n].version < read[r]
    BY <1>6
  <2>3. ASSUME NEW n \in Notifiers PROVE CallbackInv(n)'
    <3>1. CASE Owner[n] # r
      <4>1. n \notin ds
        BY <1>4, <3>1
      <4>2. callback'[n] = callback[n]
        BY <1>3, <2>2, <4>1, Packaged
      <4> QED  BY <1>1, <1>3, <2>1, <3>1, <4>2, StayStep
    <3>2. CASE Owner[n] = r /\ n \in ds /\ callback[n].present /\ where = "delivering"
      <4>1. n \in D /\ HasRun(n) /\ v = notifier[n].version /\ read[r] <= notifier[n].version
            /\ n \in package'[r]
        BY <1>4, <1>6, <2>1, <2>2, <3>2
      <4> QED  BY <1>1, <1>3, <1>6, <2>1, <2>2, <3>2, <4>1, Packaged, PackedStep
    <3>3. CASE Owner[n] = r /\ n \in ds /\ callback[n].present /\ where = "idle"
      BY <1>1, <1>3, <1>6, <2>1, <2>2, <3>3, Packaged, DroppedStep
    <3>4. CASE Owner[n] = r /\ (n \notin ds \/ ~callback[n].present)
      <4>1. callback[n].present => /\ callback'[n] = callback[n] /\ n \notin package'[r]
                                   /\ ~callback[n].initial \/ at'[r] = "idle"
        BY <1>3, <1>4, <1>5, <1>6, <2>1, <2>2, <3>4, Packaged
      <4> QED  BY <1>1, <1>3, <1>6, <2>1, <2>2, <3>4, <4>1, Packaged, UnpackedStep
    <3> QED  BY <1>6, <3>1, <3>2, <3>3, <3>4
  <2>4. PackageInv'
    BY <1>1, <1>4, <1>6, PackageStep
  <2>5. HistoryTypes'
    BY <1>1, <1>3, <2>2, PackagedTypes
  <2> QED  BY <1>1, <2>3, <2>4, <2>5, QuietLists DEF ChangesInv
<1>7. CASE at[r] = "idle" /\ ProcessAvailable(r)
  <2> DEFINE ns == {n \in D : notifier[n].version = read[r]}
  <2>1. /\ PackageForDelivery(ns)
        /\ IF ns = {} THEN Go(r, "idle", None, {}) ELSE Go(r, "delivering", read[r], ns)
    BY <1>7 DEF ProcessAvailable, D
  <2>2. ns \in {D, {}} /\ (ns # {} => \A n \in D : read[r] = notifier[n].version)
    BY <1>4
  <2>3. read[r] <= read[r]
    BY DEF IInv, TypeInv, Version
  <2> HIDE DEF ns
  <2>4. CASE ns = {}
    BY <1>6, <1>7, <2>1, <2>4
  <2>5. CASE ns # {}
    BY <1>6, <1>7, <2>1, <2>2, <2>3, <2>5
  <2> QED  BY <2>4, <2>5
<1>8. CASE at[r] = "idle" /\ AdvanceToReady(r)
  <2> DEFINE v == AdvanceTo(r, D)
  <2>1. /\ PackageForDelivery(D)
        /\ IF v < read[r] THEN Go(r, "idle", None, {}) ELSE Go(r, "delivering", v, D)
    BY <1>8 DEF AdvanceToReady, D
  <2>2. \A n \in D : v = notifier[n].version
    BY <1>4 DEF AdvanceTo
  <2>3. v \in Int /\ read[r] \in Int
    BY <1>4, PackageVersion DEF IInv, TypeInv, Version, None
  <2> HIDE DEF v
  <2>4. CASE v < read[r]
    BY <1>6, <1>8, <2>1, <2>2, <2>4
  <2>5. CASE ~(v < read[r])
    BY <1>6, <1>8, <2>1, <2>2, <2>3, <2>5
  <2> QED  BY <2>4, <2>5
<1>9. \/ UNCHANGED <<at, goal, package, callback>>
      \/ at[r] = "idle" /\ (ProcessAvailable(r) \/ AdvanceToReady(r))
  BY DEF Notify
<1> QED  BY <1>2, <1>7, <1>8, <1>9

\* Who waited goes on with a package in which all its callbacks are.
LEMMA EndWaitChanges ==
  ASSUME IInv, ChangesInv, NEW r \in Realms, EndWait(r)
  PROVE  ChangesInv'
<1> DEFINE ns   == Deliverable(package[r])
           late == ns # {} /\ VersionOf(ns) < goal[r]
           kept == IF late THEN {} ELSE ns
<1>1. /\ UNCHANGED <<latest, read, notifier, told, suppressed, missed, helper, skipVersion, workVars,
                     history>>
      /\ at[r] \in {"refreshing", "promoting"} /\ Ready(package[r], goal[r])
      /\ PackageForDelivery(ns)
      /\ \/ at[r] = "refreshing" /\ Go(r, "delivering", AdvanceTo(r, kept), kept)
         \/ at[r] = "promoting" /\ Go(r, "promoted", latest, kept)
  BY DEF EndWait, fileVars, history, helperVars
<1>2. /\ HistoryTypes /\ ListInv /\ RunInv /\ package[r] \in SUBSET Notifiers
      /\ \A n \in package[r] : Owner[n] = r
      /\ \A n \in Notifiers : CallbackInv(n) /\ Owner[n] \in Realms
      /\ at[r] = "promoting" => goal[r] = latest
      /\ read[r] <= goal[r] /\ read[r] \in Int /\ goal[r] \in Int /\ latest \in Int
  BY <1>1, PipelineAssumption DEF ChangesInv, PackageInv, IInv, TypeInv, ThreadInv,
     Version, None
<1>3. /\ ns \subseteq package[r]
      /\ \A n \in ns : HasRun(n) /\ VersionOf(ns) = notifier[n].version
      /\ \A n \in package[r] : HasRun(n) /\ notifier[n].alive => n \in ns
  BY <1>2, DeliverableRan
<1>4. ASSUME NEW n \in Notifiers, Owner[n] = r, callback[n].present
      PROVE  /\ n \in ns /\ kept = ns /\ HasRun(n) /\ notifier[n].version \in Int
             /\ goal[r] <= notifier[n].version /\ AdvanceTo(r, kept) = notifier[n].version
  <2>1. n \in package[r] /\ notifier[n].alive
    BY <1>1, <1>2, <1>4 DEF CallbackInv, PlaceInv, PresentInv
  <2>2. notifier[n].hasRun /\ notifier[n].version >= goal[r]
    BY <1>1, <1>4, <2>1 DEF Ready, HaveCallback
  <2>3. HasRun(n)
    BY <1>2, <2>1, <2>2 DEF ListInv, HasRun
  <2>4. n \in ns /\ VersionOf(ns) = notifier[n].version /\ notifier[n].version \in Int
    BY <1>3, <2>1, <2>3, NotifierTypes
  <2>5. ~late
    BY <1>2, <2>2, <2>4
  <2> HIDE DEF ns
  <2> QED  BY <1>2, <2>2, <2>3, <2>4, <2>5 DEF AdvanceTo
<1>5. kept \subseteq ns
  OBVIOUS
<1> HIDE DEF kept, ns
<1>6. PICK where \in {"delivering", "promoted"}, v \in {AdvanceTo(r, kept), latest} :
        /\ Go(r, where, v, kept)
        /\ where = "delivering" => v = AdvanceTo(r, kept)
        /\ where = "promoted" => v = latest /\ at[r] = "promoting"
  BY <1>1
<1>7. /\ at'[r] = where /\ goal'[r] = v /\ package'[r] = kept
      /\ \A q \in Realms : q # r => /\ at'[q] = at[q] /\ goal'[q] = goal[q]
                                    /\ package'[q] = package[q]
  BY <1>6, GoFacts
<1>8. ASSUME NEW n \in Notifiers PROVE CallbackInv(n)'
  <2>1. CASE Owner[n] # r
    <3>1. n \notin ns
      BY <1>2, <1>3, <2>1
    <3>2. callback'[n] = callback[n]
      BY <1>1, <1>2, <3>1, Packaged
    <3> QED  BY <1>1, <1>2, <1>7, <2>1, <3>2, StayStep
  <2>2. CASE Owner[n] = r /\ ~callback[n].present
    BY <1>1, <1>2, <2>2, Packaged, UnpackedStep
  <2>3. CASE Owner[n] = r /\ callback[n].present
    <3>1. /\ n \in ns /\ kept = ns /\ HasRun(n) /\ read[r] <= notifier[n].version
          /\ v = notifier[n].version /\ (where = "promoted" => notifier[n].version = latest)
      <4>1. notifier[n].version <= latest
        BY DEF IInv, VersionInv
      <4> QED  BY <1>2, <1>4, <1>6, <2>3, <4>1
    <3> QED  BY <1>1, <1>2, <1>7, <2>3, <3>1, Packaged, PackedStep
  <2> QED  BY <2>1, <2>2, <2>3
<1>9. PackageInv'
  BY <1>1, <1>2, <1>3, <1>5, <1>6, PackageStep
<1>10. HistoryTypes'
  BY <1>1, <1>2, PackagedTypes
<1> QED  BY <1>1, <1>8, <1>9, <1>10, QuietLists DEF ChangesInv

\* The Realm advances and the callbacks of the package hear of it.
LEMMA AdvanceChanges ==
  ASSUME IInv, ChangesInv, NEW r \in Realms, Deliver(r) \/ Promote(r)
  PROVE  ChangesInv'
<1> DEFINE heard == {n \in package[r] : callback[n].present}
<1>1. /\ UNCHANGED <<latest, notifier, helper, skipVersion, workVars>>
      /\ at[r] \in {"delivering", "promoted"}
      /\ read' = [read EXCEPT ![r] = goal[r]]
      /\ callback' = [n \in Notifiers |->
             IF n \in heard /\ Hears(n)
             THEN [callback[n] EXCEPT !.initial = TRUE, !.deliver = {}] ELSE callback[n]]
      /\ told' = [n \in Notifiers |-> IF n \in heard THEN goal[r] ELSE told[n]]
      /\ suppressed' = [n \in Notifiers |->
             IF n \in heard THEN {v \in suppressed[n] : v > goal[r]} ELSE suppressed[n]]
      /\ missed' = [n \in Notifiers |->
             IF n \in heard THEN {v \in missed[n] : v > goal[r]} ELSE missed[n]]
  BY DEF Deliver, Promote, AfterAdvance, fileVars, helperVars
<1>2. PICK where \in {"idle", "write"} : /\ Go(r, where, None, {})
                                         /\ where = "idle" => at[r] = "delivering"
                                         /\ where = "write" => at[r] = "promoted"
  BY DEF Deliver, Promote
<1>3. /\ at'[r] = where /\ package'[r] = {} /\ read'[r] = goal[r]
      /\ \A q \in Realms : q # r => /\ at'[q] = at[q] /\ goal'[q] = goal[q]
                                    /\ package'[q] = package[q] /\ read'[q] = read[q]
  BY <1>1, <1>2, GoFacts DEF IInv, TypeInv
<1>4. /\ HistoryTypes /\ \A n \in package[r] : Owner[n] = r
      /\ \A n \in Notifiers : CallbackInv(n) /\ Owner[n] \in Realms
      /\ at[r] = "promoted" => goal[r] = latest
      /\ goal[r] \in Version \cup {None}
  BY PipelineAssumption DEF ChangesInv, PackageInv, IInv, TypeInv
<1>5. ASSUME NEW n \in Notifiers
      PROVE  /\ callback'[n] \in Callback /\ callback'[n].present = callback[n].present
             /\ callback'[n].skip = callback[n].skip
             /\ callback'[n].accumulated = callback[n].accumulated
             /\ n \in heard => callback'[n].initial
             /\ n \in heard => /\ told'[n] = goal[r]
                               /\ suppressed'[n] = {v \in suppressed[n] : v > goal[r]}
                               /\ missed'[n] = {v \in missed[n] : v > goal[r]}
             /\ n \notin heard => /\ callback'[n] = callback[n] /\ told'[n] = told[n]
                                  /\ suppressed'[n] = suppressed[n]
                                  /\ missed'[n] = missed[n]
  <2>1. callback[n] \in Callback
    BY <1>4, CallbackTypes
  <2>2. \/ callback'[n] = [callback[n] EXCEPT !.initial = TRUE, !.deliver = {}]
        \/ callback'[n] = callback[n] /\ (n \in heard => ~Hears(n))
    BY <1>1
  <2> QED  BY <1>1, <2>1, <2>2 DEF Callback, Hears
<1>6. ASSUME NEW n \in Notifiers PROVE CallbackInv(n)'
  <2>1. CASE Owner[n] # r
    <3>1. n \notin heard
      BY <1>4, <2>1
    <3> HIDE DEF heard
    <3> QED  BY <1>1, <1>3, <1>4, <1>5, <2>1, <3>1, StayStep
  <2>2. CASE Owner[n] = r /\ n \in heard
    <3>1. Packed(n) /\ Tracked(n) /\ Position(n) = goal[r]
      BY <1>1, <2>2 DEF Packed, Tracked, Position
    <3>2. ~Packed(n)' /\ told'[n] = goal[r] /\ Position(n)' = goal[r]
      BY <1>1, <1>3, <2>2 DEF Packed, Position
    <3>3. /\ HasRun(n) /\ goal[r] <= notifier[n].version
          /\ callback[n].accumulated \subseteq goal[r] + 1 .. notifier[n].version
      BY <1>4, <3>1 DEF CallbackInv, TrackedInv
    <3> HIDE DEF heard
    <3>4. /\ callback'[n].accumulated = callback[n].accumulated
          /\ suppressed'[n] = {v \in suppressed[n] : v > goal[r]}
          /\ missed'[n] = {v \in missed[n] : v > goal[r]}
          /\ read'[Owner[n]] = goal[r] /\ notifier' = notifier /\ helper' = helper
          /\ workVars' = workVars /\ latest' = latest /\ skipVersion' = skipVersion
          /\ callback'[n].present = callback[n].present /\ callback'[n].initial
          /\ callback'[n].skip = callback[n].skip
          /\ callback[n].present /\ at'[Owner[n]] = where /\ at[Owner[n]] # "committing"
      <4>1. callback[n].present
        BY <2>2 DEF heard
      <4> QED  BY <1>1, <1>3, <1>5, <2>2, <4>1
    <3>5. PresentInv(n)' /\ TrackedInv(n)' /\ DeliverInv(n)'
      <4>1. PresentInv(n)' /\ DeliverInv(n)'
        <5>1. PresentInv(n)
          BY <1>4 DEF CallbackInv
        <5> QED  BY <3>2, <3>4, <5>1 DEF PresentInv, DeliverInv
      <4>2. goal[r] <= goal[r]
        BY <1>4 DEF Version, None
      <4> QED  BY <3>2, <3>3, <3>4, <4>1, <4>2 DEF TrackedInv, HasRun
    <3>6. at[r] = "promoted" => notifier[n].version = latest /\ goal[r] = latest
      BY <1>4, <2>2, <3>4 DEF CallbackInv, PlaceInv
    <3>7. PlaceInv(n)'
      BY <1>2, <3>2, <3>4, <3>6 DEF PlaceInv
    <3>8. AllInv(n)'
      <4>1. (HasRun(n)' <=> HasRun(n)) /\ (Ran' <=> Ran)
        BY <3>4 DEF HasRun, Ran, workVars
      <4>2. AllInv(n) /\ goal[r] \in Int
        BY <1>4 DEF CallbackInv, Version, None
      <4>3. goal[r] + 1 .. notifier[n].version \subseteq callback[n].accumulated \cup Excused(n)'
        <5>1. goal[r] + 1 .. notifier[n].version \subseteq callback[n].accumulated \cup Excused(n)
          BY <3>1, <4>2 DEF AllInv
        <5>2. \A v \in Excused(n) : v > goal[r] => v \in Excused(n)'
          BY <3>4 DEF Excused
        <5> QED  BY <4>2, <5>1, <5>2
      <4>4. Ran /\ HasRun(n) => notifier[n].version + 1 .. helper
                                   \subseteq notifier[n].changes \cup missed'[n]
        <5>1. Ran /\ HasRun(n) => notifier[n].version + 1 .. helper
                                     \subseteq notifier[n].changes \cup missed[n]
          BY <3>4, <4>2 DEF AllInv
        <5>2. \A v \in notifier[n].version + 1 .. helper : v > goal[r]
          BY <3>3, <4>2, NotifierTypes
        <5> QED  BY <3>4, <5>1, <5>2
      <4> QED  BY <3>2, <3>4, <4>1, <4>3, <4>4 DEF AllInv
    <3>9. SkipInv(n)'
      <4>1. notifier[n].version + 1 > goal[r]
        BY <1>4, <3>3, NotifierTypes DEF Version, None
      <4>2. /\ \A v \in suppressed[n] : v > notifier[n].version => v \in suppressed'[n]
            /\ \A v \in missed[n] : v > notifier[n].version => v \in missed'[n]
        <5>1. \A v \in Version : v > notifier[n].version => v > goal[r]
          BY <1>4, <3>3, NotifierTypes DEF Version, None
        <5> QED  BY <1>4, <3>4, <5>1, CallbackTypes
      <4>3. SkipInv(n)
        BY <1>4 DEF CallbackInv
      <4> QED  BY <1>4, <3>4, <4>2, <4>3, SkipStays
    <3> QED  BY <3>5, <3>7, <3>8, <3>9 DEF CallbackInv
  <2>3. CASE Owner[n] = r /\ n \notin heard
    <3>1. callback[n].present => ~callback[n].initial /\ where = "idle"
      BY <1>1, <1>2, <1>4, <2>3 DEF CallbackInv, PlaceInv
    <3>2. ~Packed(n)'
      BY <1>3, <2>3 DEF Packed
    <3>3. PresentInv(n)' /\ PlaceInv(n)'
      BY <1>1, <1>3, <1>4, <1>5, <2>3, <3>1 DEF CallbackInv, PresentInv, PlaceInv
    <3>4. TrackedInv(n)' /\ DeliverInv(n)'
      BY <1>4, <1>5, <2>3, <3>1, <3>2 DEF CallbackInv, PresentInv, TrackedInv, Tracked, DeliverInv
    <3>5. AllInv(n)' /\ SkipInv(n)'
      <4>1. ~callback[n].initial /\ ~callback'[n].initial
        BY <1>4, <1>5, <2>3, <3>1 DEF CallbackInv, PresentInv
      <4>2. SkipInv(n)'
        BY <1>1, <1>4, <1>5, <2>3, <4>1 DEF CallbackInv, SkipInv, PresentInv
      <4> QED  BY <1>1, <1>4, <1>5, <2>3, <3>2, <4>1, <4>2
               DEF CallbackInv, AllInv, Tracked, HasRun, Ran, workVars, Excused
    <3> QED  BY <3>3, <3>4, <3>5 DEF CallbackInv
  <2> QED  BY <2>1, <2>2, <2>3
<1>7. PackageInv'
  <2>1. latest' = latest /\ where \notin {"promoting", "promoted"} /\ \A n \in {} : Owner[n] = r
    BY <1>1
  <2> QED  BY <1>2, <2>1, PackageStep
<1>8. HistoryTypes'
  <2>1. callback' \in [Notifiers -> Callback]
    BY <1>1, <1>5
  <2>2. told' \in [Notifiers -> Version \cup {None}]
        /\ suppressed' \in [Notifiers -> SUBSET Version]
        /\ missed' \in [Notifiers -> SUBSET Version]
    BY <1>1, <1>4 DEF HistoryTypes
  <2> QED  BY <2>1, <2>2 DEF HistoryTypes
<1> QED  BY <1>1, <1>6, <1>7, <1>8, QuietLists DEF ChangesInv

LEMMA WritingChanges ==
  ASSUME IInv, ChangesInv, NEW r \in Realms,
         \/ CancelTransaction(r) \/ NotifyOthers(r)
         \/ \E ns \in (SUBSET Mine(r)) \ {{}} : SuppressNext(r, ns)
  PROVE  ChangesInv'
<1>1. /\ UNCHANGED <<latest, read, goal, package, notifier, told, missed, helper,
                     skipVersion, workVars>>
      /\ at[r] \in {"write", "committed"}
  BY DEF CancelTransaction, NotifyOthers, SuppressNext, fileVars, history, helperVars
<1>2. PICK where \in {"idle", "committing"} :
        /\ at' = [at EXCEPT ![r] = where]
        /\ where = "committing" => at[r] = "write"
  BY DEF CancelTransaction, NotifyOthers, SuppressNext
<1>3. at'[r] = where /\ \A q \in Realms : q # r => at'[q] = at[q]
  BY <1>2 DEF IInv, TypeInv
<1>4. HistoryTypes /\ ListInv /\ \A n \in Notifiers : CallbackInv(n) /\ Owner[n] \in Realms
  BY PipelineAssumption DEF ChangesInv
<1>5. /\ HistoryTypes'
      /\ \A n \in Notifiers :
            \/ callback'[n] = callback[n] /\ suppressed'[n] = suppressed[n]
            \/ /\ Owner[n] = r /\ where = "committing" /\ callback[n].present
               /\ callback'[n] = [callback[n] EXCEPT !.skip = TRUE]
               /\ suppressed'[n] = suppressed[n] \cup {latest + 1}
  <2>1. CASE CancelTransaction(r) \/ NotifyOthers(r)
    BY <1>4, <2>1 DEF CancelTransaction, NotifyOthers, history, HistoryTypes
  <2>2. ASSUME NEW ns \in SUBSET Mine(r), SuppressNext(r, ns) PROVE <1>5!1 /\ <1>5!2
    <3>1. /\ callback' = [n \in Notifiers |->
                  [callback[n] EXCEPT !.skip = (callback[n].skip \/ n \in ns)]]
          /\ suppressed' = [n \in Notifiers |->
                  IF n \in ns THEN suppressed[n] \cup {latest + 1} ELSE suppressed[n]]
          /\ at[r] = "write" /\ latest < MaxVersion /\ at'[r] = "committing"
      BY <1>3, <2>2 DEF SuppressNext, IInv, TypeInv
    <3>2. \A n \in ns : Owner[n] = r /\ callback[n].present
      BY <2>2 DEF Mine
    <3>3. ASSUME NEW n \in Notifiers
          PROVE  /\ callback'[n] \in Callback
                 /\ n \in ns => callback'[n] = [callback[n] EXCEPT !.skip = TRUE]
                 /\ n \notin ns => callback'[n] = callback[n]
      <4>1. callback[n] \in Callback /\ callback[n].skip \in BOOLEAN
        BY <1>4, CallbackTypes
      <4>2. callback'[n] = [callback[n] EXCEPT !.skip = (callback[n].skip \/ n \in ns)]
        BY <3>1
      <4> QED  BY <4>1, <4>2 DEF Callback
    <3>4. latest + 1 \in Version
      BY <3>1, PipelineAssumption DEF IInv, TypeInv, Version
    <3>5. HistoryTypes'
      <4>1. callback' \in [Notifiers -> Callback]
        BY <3>1, <3>3
      <4>2. suppressed' \in [Notifiers -> SUBSET Version]
        BY <1>4, <3>1, <3>4 DEF HistoryTypes
      <4> QED  BY <1>1, <1>4, <4>1, <4>2 DEF HistoryTypes
    <3> QED  BY <1>3, <3>1, <3>2, <3>3, <3>5
  <2> QED  BY <2>1, <2>2
<1>6. ASSUME NEW n \in Notifiers PROVE CallbackInv(n)'
  <2>1. CASE Owner[n] # r
    BY <1>1, <1>3, <1>4, <1>5, <2>1, StayStep
  <2>2. CASE Owner[n] = r
    <3>1. callback[n] \in Callback
      BY <1>4, CallbackTypes
    <3>2. /\ callback'[n].present = callback[n].present
          /\ callback'[n].initial = callback[n].initial
          /\ callback'[n].accumulated = callback[n].accumulated
          /\ ~callback[n].present => callback'[n] = callback[n]
      BY <1>5, <3>1 DEF Callback
    <3>3. ~Packed(n) /\ ~Packed(n)' /\ Position(n)' = Position(n)
      BY <1>1, <1>3, <2>2 DEF Packed, Position
    <3>4. PresentInv(n)' /\ TrackedInv(n)' /\ DeliverInv(n)'
      BY <1>1, <1>4, <2>2, <3>2, <3>3 DEF CallbackInv, PresentInv, TrackedInv, Tracked,
         DeliverInv, HasRun
    <3>5. PlaceInv(n)'
      BY <1>1, <1>2, <1>3, <1>4, <2>2, <3>2 DEF CallbackInv, PlaceInv
    <3>6. AllInv(n)' /\ SkipInv(n)'
      <4>1. /\ (Tracked(n)' <=> Tracked(n)) /\ (HasRun(n)' <=> HasRun(n)) /\ (Ran' <=> Ran)
            /\ suppressed[n] \subseteq suppressed'[n]
        BY <1>1, <1>5, <3>2, <3>3 DEF Tracked, HasRun, Ran, workVars
      <4>2. AllInv(n)'
        <5>1. Excused(n) \subseteq Excused(n)'
          BY <1>1, <4>1 DEF Excused
        <5> QED  BY <1>1, <1>4, <3>2, <3>3, <4>1, <5>1 DEF CallbackInv, AllInv
      <4>3. CASE callback'[n] = callback[n]
        <5>1. SkipInv(n)
          BY <1>4 DEF CallbackInv
        <5>2. notifier' = notifier /\ latest' = latest /\ skipVersion' = skipVersion
              /\ workVars' = workVars
          BY <1>1
        <5>3. at[Owner[n]] # "committing"
          BY <1>1, <2>2
        <5> QED  BY <1>1, <1>4, <4>1, <4>2, <4>3, <5>1, <5>2, <5>3, SkipStays
      <4>4. CASE ~(callback'[n] = callback[n])
        <5>1. /\ where = "committing" /\ latest + 1 \in suppressed'[n]
              /\ callback[n].present
          BY <1>5, <4>4
        <5>2. callback[n].initial /\ notifier[n].version = latest
          BY <1>2, <1>4, <2>2, <5>1 DEF CallbackInv, PlaceInv
        <5>3. /\ callback'[n].initial /\ at'[Owner[n]] = "committing"
              /\ notifier'[n].version + 1 \in suppressed'[n]
          BY <1>1, <1>3, <2>2, <3>2, <5>1, <5>2
        <5> QED  BY <4>2, <5>3 DEF SkipInv
      <4> QED  BY <4>2, <4>3, <4>4
    <3> QED  BY <3>4, <3>5, <3>6 DEF CallbackInv
  <2> QED  BY <2>1, <2>2
<1>7. PackageInv'
  <2>1. \A q \in Realms : at'[q] \in {"promoting", "promoted"} => at'[q] = at[q]
    BY <1>3
  <2> QED  BY <1>1, <2>1 DEF ChangesInv, PackageInv
<1> QED  BY <1>1, <1>5, <1>6, <1>7, QuietLists DEF ChangesInv

\* A commit, of a Realm whose callbacks have heard of everything before it, or
\* of another process while no Realm writes.
LEMMA CommitChanges ==
  ASSUME IInv, IInv', ChangesInv, (\E r \in Realms : CommitWrite(r)) \/ OtherCommits
  PROVE  ChangesInv'
<1>1. /\ UNCHANGED <<goal, package, notifier, callback, told, suppressed, helper, workVars>>
      /\ latest' = latest + 1
  BY DEF CommitWrite, OtherCommits, realmVars, history, helperVars
<1>2. HistoryTypes /\ \A n \in Notifiers : CallbackInv(n) /\ Owner[n] \in Realms
  BY PipelineAssumption DEF ChangesInv
<1>3. ListInv' /\ RunInv'
  BY <1>1, QuietLists
<1>4. ASSUME NEW r \in Realms, CommitWrite(r) PROVE ChangesInv'
  <2>1. /\ at[r] \in {"committing", "write"} /\ writer = r
        /\ at' = [at EXCEPT ![r] = "committed"] /\ read' = [read EXCEPT ![r] = latest + 1]
        /\ skipVersion' = SkipFor(r)
        /\ missed' = [n \in Notifiers |->
               IF Overwrites(r, n) THEN missed[n] \cup (skipVersion + 1 .. latest + 1)
                                   ELSE missed[n]]
    BY <1>4 DEF CommitWrite, IInv, ThreadInv
  <2>2. /\ at'[r] = "committed" /\ read'[r] = latest + 1
        /\ \A q \in Realms : q # r =>
              /\ at'[q] = at[q] /\ read'[q] = read[q]
              /\ at[q] \notin {"promoting", "promoted", "write", "committing"}
    BY <2>1 DEF IInv, TypeInv, ThreadInv
  <2>3. ASSUME NEW n \in Notifiers PROVE CallbackInv(n)'
    <3>1. missed[n] \subseteq missed'[n] /\ Excused(n) \subseteq Excused(n)'
      BY <1>1, <2>1 DEF Excused
    <3>2. SkipInv(n)'
      <4> SUFFICES ASSUME callback[n].present, callback[n].skip PROVE SkipInv(n)'
        BY <1>1 DEF SkipInv
      <4> DEFINE next == notifier[n].version + 1
      <4>1. /\ callback[n].initial /\ next \in suppressed[n] /\ SkipInv(n)
            /\ notifier[n].version \in Int /\ latest \in Int /\ skipVersion \in Int
            /\ skipVersion <= latest
        BY <1>2, NotifierTypes
           DEF CallbackInv, SkipInv, IInv, TypeInv, VersionInv, Version, None
      <4>2. CASE at[Owner[n]] = "committing"
        <5>1. Owner[n] = r /\ notifier[n].version = latest
          BY <1>2, <2>2, <4>2 DEF CallbackInv, PlaceInv
        <5>2. HasRun(n) /\ notifier[n].alive
          BY <1>2, <4>1 DEF CallbackInv, PresentInv, TrackedInv, Tracked
        <5>3. skipVersion' = latest + 1
          BY <2>1, <5>1, <5>2 DEF SkipFor, In, HasRun
        <5>4. Working' => work'.version < latest + 1
          <6>1. Working' => work'.version <= latest /\ work'.version \in Int
            BY <1>1 DEF IInv, TypeInv, WorkInv, Work, Working, Version, None, workVars
          <6> QED  BY <4>1, <6>1
        <5>5. next .. skipVersion' \subseteq Excused(n)'
          BY <1>1, <4>1, <5>1, <5>3 DEF Excused
        <5> QED  BY <1>1, <4>1, <5>1, <5>3, <5>4, <5>5 DEF SkipInv
      <4>3. CASE /\ next <= skipVersion /\ next .. skipVersion \subseteq Excused(n)
                 /\ Working => work.version < next
        <5>1. /\ next <= skipVersion' /\ next .. skipVersion' \subseteq Excused(n)'
          <6>1. CASE SkipFor(r) = skipVersion
            BY <2>1, <3>1, <4>3, <6>1
          <6>2. CASE SkipFor(r) # skipVersion
            <7>1. skipVersion' = latest + 1
              BY <2>1, <6>2 DEF SkipFor
            <7>2. skipVersion \in Excused(n)
              BY <4>1, <4>3
            <7>3. Overwrites(r, n)
              BY <6>2, <7>2 DEF Overwrites, Excused
            <7>4. skipVersion + 1 .. latest + 1 \subseteq Excused(n)'
              BY <2>1, <7>3 DEF Excused
            <7> QED  BY <3>1, <4>1, <4>3, <7>1, <7>4
          <6> QED  BY <6>1, <6>2
        <5>2. (Working' <=> Working) /\ work' = work
          BY <1>1 DEF Working, workVars
        <5> QED  BY <1>1, <4>1, <4>3, <5>1, <5>2 DEF SkipInv
      <4>4. CASE worker \in {"skipping", "skipped"} /\ next .. work.skip \subseteq Excused(n)
        BY <1>1, <3>1, <4>1, <4>4 DEF SkipInv, workVars
      <4> QED  BY <4>1, <4>2, <4>3, <4>4 DEF SkipInv
    <3>3. CASE Owner[n] # r
      BY <1>1, <1>2, <2>2, <3>1, <3>2, <3>3, StayStep
    <3>4. CASE Owner[n] = r
      <4>1. ~Packed(n) /\ ~Packed(n)' /\ Position(n) = told[n] /\ Position(n)' = told[n]
        BY <1>1, <2>1, <2>2, <3>4 DEF Packed, Position
      <4>2. callback[n].present => told[n] = latest /\ notifier[n].version = latest
        BY <1>2, <2>1, <3>4 DEF CallbackInv, PlaceInv
      <4>3. TrackedInv(n)'
        BY <1>1, <1>2, <2>2, <3>4, <4>1, <4>2 DEF CallbackInv, TrackedInv, Tracked, HasRun
      <4>4. PresentInv(n)' /\ PlaceInv(n)' /\ DeliverInv(n)'
        BY <1>1, <1>2, <2>2, <3>4, <4>1 DEF CallbackInv, PresentInv, PlaceInv, DeliverInv
      <4>5. AllInv(n)'
        BY <1>1, <1>2, <3>1, <4>1 DEF CallbackInv, AllInv, Tracked, HasRun, Ran, workVars
      <4> QED  BY <3>2, <4>3, <4>4, <4>5 DEF CallbackInv
    <3> QED  BY <3>3, <3>4
  <2>4. PackageInv'
    <3>1. \A q \in Realms : at'[q] \notin {"promoting", "promoted"}
      BY <2>2
    <3> QED  BY <1>1, <3>1 DEF ChangesInv, PackageInv
  <2>5. HistoryTypes'
    <3>1. latest + 1 \in Version
      BY <1>1 DEF IInv, TypeInv
    <3>2. skipVersion + 1 .. latest + 1 \subseteq Version
      BY <3>1, PipelineAssumption DEF IInv, TypeInv, Version, None
    <3> QED  BY <1>1, <1>2, <2>1, <3>2 DEF HistoryTypes
  <2> QED  BY <1>3, <2>3, <2>4, <2>5 DEF ChangesInv
<1>5. CASE OtherCommits
  <2>1. UNCHANGED <<read, at, skipVersion, missed>> /\ writer = NoOne
    BY <1>5 DEF OtherCommits, realmVars, helperVars, history
  <2>2. \A q \in Realms : at[q] \notin {"promoting", "promoted", "write", "committing"}
    BY <2>1, PipelineAssumption DEF IInv, ThreadInv
  <2>3. \A n \in Notifiers : CallbackInv(n)'
    BY <1>1, <1>2, <2>1, <2>2, StayStep
  <2>4. PackageInv'
    BY <1>1, <2>1, <2>2 DEF ChangesInv, PackageInv
  <2> QED  BY <1>1, <1>2, <1>3, <2>1, <2>3, <2>4 DEF ChangesInv, HistoryTypes
<1> QED  BY <1>4, <1>5

-----------------------------------------------------------------------------
(* What a callback hears of: notifiers and callbacks *)

LEMMA RegisterChanges ==
  ASSUME IInv, ChangesInv, NEW m \in Notifiers, Register(m) \/ Unregister(m)
  PROVE  ChangesInv'
<1>1. UNCHANGED <<latest, at, goal, package, read, callback, told, suppressed, missed, helper,
                  skipVersion, workVars>>
  BY DEF Register, Unregister, fileVars, realmVars, history, helperVars
<1>2. /\ HistoryTypes /\ ListInv /\ RunInv /\ PackageInv
      /\ \A n \in Notifiers : CallbackInv(n)
      /\ notifier \in [Notifiers -> Notifier]
  BY DEF ChangesInv, IInv, TypeInv
<1>3. /\ \A n \in Notifiers : n # m => notifier'[n] = notifier[n]
      /\ notifier'[m].hasRun = notifier[m].hasRun
      /\ \/ notifier[m].list = "none" /\ notifier'[m].list = "new"
         \/ /\ notifier'[m].list = notifier[m].list /\ ~notifier'[m].alive
            /\ notifier'[m].version = notifier[m].version /\ ~callback[m].present
  <2>1. notifier[m] \in Notifier
    BY <1>2
  <2>2. CASE Register(m)
    <3>1. /\ notifier[m].list = "none"
          /\ notifier' = [notifier EXCEPT ![m] = [notifier[m] EXCEPT !.list = "new",
                                         !.alive = TRUE, !.version = read[Owner[m]]]]
      BY <2>2 DEF Register
    <3> QED  BY <1>2, <2>1, <3>1 DEF Notifier
  <2>3. CASE Unregister(m)
    <3>1. /\ notifier' = [notifier EXCEPT ![m] = [notifier[m] EXCEPT !.alive = FALSE]]
          /\ ~callback[m].present
      BY <2>3 DEF Unregister
    <3> QED  BY <1>2, <2>1, <3>1 DEF Notifier
  <2> QED  BY <2>2, <2>3
<1>4. ~callback[m].present
  BY <1>2, <1>3 DEF CallbackInv, PresentInv, ListInv
<1>5. ASSUME NEW n \in Notifiers PROVE CallbackInv(n)'
  <2>1. (Packed(n)' <=> Packed(n)) /\ Position(n)' = Position(n) /\ (Tracked(n)' <=> Tracked(n))
    BY <1>1 DEF Packed, Position, Tracked
  <2>2. CASE n # m
    <3>1. notifier'[n] = notifier[n] /\ (HasRun(n)' <=> HasRun(n))
      BY <1>3, <2>2 DEF HasRun
    <3>2. PresentInv(n)' /\ PlaceInv(n)' /\ TrackedInv(n)' /\ DeliverInv(n)'
      BY <1>1, <1>2, <2>1, <3>1 DEF CallbackInv, PresentInv, PlaceInv, TrackedInv, DeliverInv
    <3>3. AllInv(n)' /\ SkipInv(n)'
      BY <1>1, <1>2, <2>1, <3>1
         DEF CallbackInv, AllInv, SkipInv, Ran, Working, workVars, Excused
    <3> QED  BY <3>2, <3>3 DEF CallbackInv
  <2>3. CASE n = m
    <3>1. ~callback'[n].present /\ ~callback'[n].initial /\ ~Tracked(n)'
      BY <1>1, <1>2, <1>4, <2>1, <2>3 DEF CallbackInv, PresentInv, Tracked
    <3>2. PresentInv(n)' /\ PlaceInv(n)' /\ TrackedInv(n)' /\ DeliverInv(n)'
      BY <1>1, <1>2, <1>4, <2>3, <3>1 DEF CallbackInv, PresentInv, PlaceInv, TrackedInv,
         DeliverInv
    <3> QED  BY <3>1, <3>2 DEF CallbackInv, AllInv, SkipInv
  <2> QED  BY <2>2, <2>3
<1>6. \A n \in Notifiers : /\ HasRun(n)' => HasRun(n)
                           /\ HasRun(n)' /\ notifier'[n].alive => notifier'[n] = notifier[n]
                           /\ HasRun(n)' => notifier'[n].version = notifier[n].version
  BY <1>2, <1>3 DEF HasRun, ListInv
<1>7. ListInv'
  <2>1. \A n \in Notifiers : notifier'[n].hasRun = notifier[n].hasRun
    BY <1>3
  <2>2. Working' => /\ \A n \in work.old : notifier'[n].hasRun
                    /\ \A n \in work.new : ~notifier'[n].hasRun
    <3>1. work.old \in SUBSET Notifiers /\ work.new \in SUBSET Notifiers
      BY DEF IInv, TypeInv, Work
    <3> QED  BY <1>1, <1>2, <2>1, <3>1 DEF ListInv, Working, workVars
  <2> QED  BY <1>1, <1>2, <1>3, <2>1, <2>2 DEF ListInv, workVars
<1>8. RunInv'
  <2>1. \A n \in Notifiers : notifier'[n].list = "main" /\ notifier'[n].alive =>
            notifier'[n] = notifier[n]
    BY <1>3
  <2>2. worker' = worker /\ work' = work /\ helper' = helper /\ (Ran' <=> Ran)
    BY <1>1 DEF workVars, Ran
  <2>3. worker' = "handover" =>
          /\ helper' = work'.version
          /\ \A n \in Notifiers : notifier'[n].list = "main" /\ notifier'[n].alive =>
                                  notifier'[n].previous = helper'
    BY <1>2, <2>1, <2>2 DEF RunInv
  <2>4. ASSUME NEW n \in Notifiers, HasRun(n)'
        PROVE  /\ notifier'[n].version <= helper'
               /\ ~Ran' => notifier'[n].version = helper'
               /\ \A k \in Notifiers : HasRun(k)' => notifier'[n].version = notifier'[k].version
               /\ notifier'[n].alive =>
                    /\ Ran' => /\ notifier'[n].previous = helper'
                               /\ notifier'[n].changes \subseteq notifier'[n].version + 1 .. helper'
                    /\ ~Ran' => /\ notifier'[n].previous = notifier'[n].version
                                /\ notifier'[n].changes = {}
    <3>1. HasRun(n) /\ notifier'[n].version = notifier[n].version
      BY <1>6, <2>4
    <3>2. CASE notifier'[n].alive
      <4>1. notifier'[n] = notifier[n]
        BY <1>6, <2>4, <3>2
      <4> QED  BY <1>2, <1>6, <2>2, <3>1, <4>1 DEF RunInv
    <3>3. CASE ~notifier'[n].alive
      BY <1>2, <1>6, <2>2, <3>1, <3>3 DEF RunInv
    <3> QED  BY <3>2, <3>3
  <2> QED  BY <1>2, <2>2, <2>3, <2>4 DEF RunInv
<1> QED  BY <1>1, <1>2, <1>5, <1>7, <1>8 DEF ChangesInv, HistoryTypes, PackageInv

LEMMA AddChangesStep ==
  ASSUME IInv, ChangesInv, NEW m \in Notifiers, AddCallback(m) \/ RemoveCallback(m)
  PROVE  ChangesInv'
<1>1. UNCHANGED <<latest, at, goal, package, read, notifier, helper, skipVersion, workVars>>
  BY DEF AddCallback, RemoveCallback, fileVars, realmVars, helperVars
<1>2. /\ HistoryTypes /\ PackageInv /\ \A n \in Notifiers : CallbackInv(n)
      /\ NoCallback \in Callback /\ ~NoCallback.present /\ ~NoCallback.initial /\ ~NoCallback.skip
  BY DEF ChangesInv, NoCallback, Callback
<1> DEFINE late == notifier[m].version + 1 .. notifier[m].previous
<1>3. /\ HistoryTypes'
      /\ \A n \in Notifiers : n # m => /\ callback'[n] = callback[n] /\ told'[n] = told[n]
                                      /\ suppressed'[n] = suppressed[n]
                                      /\ missed'[n] = missed[n]
      /\ \/ callback'[m] = NoCallback
         \/ /\ callback'[m] = [callback[m] EXCEPT !.present = TRUE] /\ told'[m] = told[m]
            /\ ~callback[m].present /\ notifier[m].alive /\ at[Owner[m]] = "idle"
            /\ notifier[m].hasRun => missed'[m] = late
  <2>1. callback[m] \in Callback
    BY <1>2, CallbackTypes
  <2>2. CASE AddCallback(m)
    <3>1. /\ callback' = [callback EXCEPT ![m] = [callback[m] EXCEPT !.present = TRUE]]
          /\ ~callback[m].present /\ notifier[m].alive /\ at[Owner[m]] = "idle"
          /\ missed' = [missed EXCEPT ![m] = IF notifier[m].hasRun THEN late ELSE {}]
          /\ UNCHANGED <<told, suppressed>>
      BY <2>2 DEF AddCallback
    <3>2. [callback[m] EXCEPT !.present = TRUE] \in Callback
      BY <2>1 DEF Callback
    <3>3. late \in SUBSET Version
      BY NotifierTypes, PipelineAssumption DEF Notifier, Version, None
    <3> HIDE DEF late
    <3> QED  BY <1>2, <3>1, <3>2, <3>3 DEF HistoryTypes
  <2>3. CASE RemoveCallback(m)
    BY <1>2, <2>3 DEF RemoveCallback, HistoryTypes
  <2> QED  BY <2>2, <2>3
<1>4. ASSUME NEW n \in Notifiers PROVE CallbackInv(n)'
  <2>1. CASE n # m
    BY <1>1, <1>2, <1>3, <2>1, StayStep
  <2>2. CASE n = m /\ callback'[m] = NoCallback
    <3>1. ~callback'[n].present /\ ~callback'[n].initial /\ ~callback'[n].skip
      BY <1>2, <2>2
    <3> QED  BY <3>1 DEF CallbackInv, PresentInv, PlaceInv, TrackedInv, Tracked, DeliverInv,
                AllInv, SkipInv
  <2>3. CASE n = m /\ callback'[m] # NoCallback
    <3>1. /\ callback'[n] = [callback[n] EXCEPT !.present = TRUE]
          /\ ~callback[n].present /\ notifier[n].alive /\ at[Owner[n]] = "idle"
          /\ notifier[n].hasRun => missed'[n] = late
      BY <1>3, <2>3
    <3>2. callback[n] \in Callback /\ ~callback[n].initial /\ ~callback[n].skip
      BY <1>2, <3>1, CallbackTypes DEF CallbackInv, PresentInv
    <3>3. callback'[n].present /\ ~callback'[n].initial /\ ~callback'[n].skip
      BY <3>1, <3>2 DEF Callback
    <3>4. ~Packed(n)'
      BY <1>1, <3>1 DEF Packed
    <3>5. Ran' /\ HasRun(n)' => notifier'[n].version + 1 .. helper' \subseteq missed'[n]
      BY <1>1, <2>3, <3>1 DEF ChangesInv, RunInv, HasRun, Ran, workVars
    <3>6. PresentInv(n)' /\ PlaceInv(n)' /\ TrackedInv(n)' /\ DeliverInv(n)'
      BY <1>1, <3>1, <3>3, <3>4 DEF PresentInv, PlaceInv, TrackedInv, Tracked, DeliverInv
    <3> QED  BY <3>3, <3>4, <3>5, <3>6 DEF CallbackInv, AllInv, SkipInv, Tracked
  <2> QED  BY <2>1, <2>2, <2>3
<1> QED  BY <1>1, <1>2, <1>3, <1>4, QuietLists DEF ChangesInv, PackageInv

-----------------------------------------------------------------------------
(* What a callback hears of: the worker *)

\* What every step of the worker does to a callback: the version of a notifier
\* that has run grows, and the changes up to there are added.
Served(n) ==
  /\ notifier[n].alive => notifier'[n].alive
  /\ callback'[n].present = callback[n].present
  /\ callback'[n].initial = callback[n].initial
  /\ callback'[n].deliver = callback[n].deliver
  /\ callback'[n].skip => callback[n].skip
  /\ notifier[n].alive /\ HasRun(n) =>
        /\ notifier'[n].list = "main" /\ notifier'[n].hasRun
        /\ notifier[n].version <= notifier'[n].version
        /\ callback'[n].accumulated \subseteq
              callback[n].accumulated \cup (notifier[n].version + 1 .. notifier'[n].version)

\* Nothing is left out of them but what the callback need not hear of.
ServedAll(n) == callback[n].present =>
  /\ Ran' /\ HasRun(n)' =>
        notifier'[n].version + 1 .. helper' \subseteq notifier'[n].changes \cup missed[n]
  /\ HasRun(n) => callback[n].accumulated \cup (notifier[n].version + 1 .. notifier'[n].version)
                    \subseteq callback'[n].accumulated \cup Excused(n)
  /\ SkipInv(n)'

LEMMA WorkerServes ==
  ASSUME IInv, IInv', ChangesInv, HistoryTypes', ListInv', RunInv',
         UNCHANGED <<latest, realmVars, told, suppressed, missed>>,
         \A n \in Notifiers : Served(n) /\ ServedAll(n)
  PROVE  ChangesInv'
<1>1. ASSUME NEW n \in Notifiers PROVE CallbackInv(n)'
  <2>1. /\ CallbackInv(n) /\ Served(n) /\ ServedAll(n)
        /\ UNCHANGED <<latest, read, at, goal, package, told, suppressed, missed>>
    BY <1>1 DEF ChangesInv, realmVars
  <2>2. (Packed(n)' <=> Packed(n)) /\ Position(n)' = Position(n) /\ (Tracked(n)' <=> Tracked(n))
    BY <2>1 DEF Packed, Position, Tracked, Served
  <2>3. /\ callback[n].present => notifier[n].alive
        /\ callback[n].initial => callback[n].present
        /\ Tracked(n) => HasRun(n)
        /\ at[Owner[n]] \in {"promoted", "write", "committing"} /\ callback[n].present =>
              Tracked(n)
    BY <2>1 DEF CallbackInv, PresentInv, PlaceInv, TrackedInv, Tracked, Packed
  <2>4. /\ notifier[n].version \in Int /\ notifier'[n].version \in Int /\ latest \in Int
        /\ notifier'[n].version <= latest
        /\ Owner[n] \in Realms /\ read[Owner[n]] \in Int
    <3>1. notifier'[n].version \in Int /\ notifier'[n].version <= latest'
      BY DEF IInv, TypeInv, VersionInv, Notifier, Version, None
    <3> QED  BY <2>1, <3>1, NotifierTypes, ThreadTypes
  <2>5. Position(n) \in Int
    <3>1. told[n] \in Int /\ goal[Owner[n]] \in Int
      BY CallbackTypes, ThreadTypes DEF ChangesInv
    <3> QED  BY <3>1 DEF Position
  <2>6. ASSUME Tracked(n)
        PROVE  /\ notifier'[n].list = "main" /\ notifier'[n].hasRun
               /\ notifier[n].version <= notifier'[n].version
               /\ callback'[n].accumulated \subseteq callback[n].accumulated
                     \cup (notifier[n].version + 1 .. notifier'[n].version)
    BY <2>1, <2>3, <2>6 DEF Served, Tracked
  <2>7. PresentInv(n)'
    BY <2>1 DEF Served, CallbackInv, PresentInv
  <2>8. PlaceInv(n)'
    <3>1. at[Owner[n]] \in {"promoted", "write", "committing"} /\ callback[n].present =>
             notifier'[n].version = latest
      BY <2>1, <2>3, <2>4, <2>6 DEF CallbackInv, PlaceInv
    <3> QED  BY <2>1, <3>1 DEF CallbackInv, PlaceInv, Served
  <2>9. TrackedInv(n)'
    <3> SUFFICES ASSUME Tracked(n) PROVE TrackedInv(n)'
      BY <2>2 DEF TrackedInv
    <3>1. /\ Position(n) <= notifier[n].version
          /\ \/ read[Owner[n]] <= notifier[n].version
             \/ read[Owner[n]] = notifier[n].version + 1 /\ Position(n) = notifier[n].version
          /\ callback[n].accumulated \subseteq Position(n) + 1 .. notifier[n].version
      BY <2>1 DEF CallbackInv, TrackedInv
    <3>2. /\ Position(n) <= notifier'[n].version
          /\ \/ read[Owner[n]] <= notifier'[n].version
             \/ read[Owner[n]] = notifier'[n].version + 1 /\ Position(n) = notifier'[n].version
      BY <2>4, <2>5, <2>6, <3>1
    <3>3. callback'[n].accumulated \subseteq Position(n) + 1 .. notifier'[n].version
      BY <2>4, <2>5, <2>6, <3>1
    <3> QED  BY <2>1, <2>2, <2>6, <3>2, <3>3 DEF TrackedInv, HasRun
  <2>10. DeliverInv(n)'
    BY <2>1, <2>2 DEF CallbackInv, DeliverInv, Served
  <2>11. AllInv(n)'
    <3>0. Excused(n)' = Excused(n) /\ missed'[n] = missed[n]
      BY <2>1 DEF Excused
    <3>1. /\ callback'[n].present = callback[n].present
          /\ callback'[n].initial = callback[n].initial
          /\ callback'[n].deliver = callback[n].deliver
      BY <2>1 DEF Served
    <3>2. Ran' /\ callback'[n].present /\ HasRun(n)' =>
             notifier'[n].version + 1 .. helper' \subseteq notifier'[n].changes \cup missed[n]
      BY <2>1, <3>1 DEF ServedAll
    <3>3. ASSUME Tracked(n)
          PROVE  Position(n) + 1 .. notifier'[n].version
                    \subseteq callback'[n].accumulated \cup Excused(n)
      <4>1. Position(n) + 1 .. notifier[n].version
               \subseteq callback[n].accumulated \cup Excused(n)
        BY <2>1, <3>3 DEF CallbackInv, AllInv
      <4>2. callback[n].accumulated \cup (notifier[n].version + 1 .. notifier'[n].version)
               \subseteq callback'[n].accumulated \cup Excused(n)
        BY <2>1, <2>3, <3>3 DEF ServedAll, Tracked
      <4>3. Position(n) + 1 .. notifier'[n].version \subseteq
               (Position(n) + 1 .. notifier[n].version)
                  \cup (notifier[n].version + 1 .. notifier'[n].version)
        BY <2>4, <2>5
      <4> QED  BY <4>1, <4>2, <4>3
    <3>4. callback[n].initial /\ Packed(n) => told[n] + 1 .. goal[Owner[n]]
             \subseteq callback[n].deliver \cup Excused(n)
      BY <2>1 DEF CallbackInv, AllInv
    <3> QED  BY <2>1, <2>2, <3>0, <3>1, <3>2, <3>3, <3>4 DEF AllInv
  <2>12. SkipInv(n)'
    BY <2>1 DEF Served, ServedAll, SkipInv
  <2> QED  BY <2>7, <2>8, <2>9, <2>10, <2>11, <2>12 DEF CallbackInv
<1>2. PackageInv'
  BY DEF ChangesInv, PackageInv, realmVars
<1> QED  BY <1>1, <1>2 DEF ChangesInv

\* A notifier that has run is in the main list, on which the worker works.
LEMMA OldHaveRun ==
  ASSUME IInv, ListInv, NEW n \in Notifiers, Working
  PROVE  /\ notifier[n].list = "main" <=> n \in work.old \cup work.new
         /\ HasRun(n) <=> n \in work.old
<1>1. In("main") = work.old \cup work.new
  BY DEF IInv, WorkInv
<1> QED  BY <1>1 DEF ListInv, HasRun, In

\* Who is to skip a handover has run.
LEMMA SkipHasRun ==
  ASSUME NEW n \in Notifiers, CallbackInv(n), callback[n].present, callback[n].skip
  PROVE  HasRun(n) /\ callback[n].initial
BY DEF CallbackInv, SkipInv, TrackedInv, Tracked

LEMMA StartRunChanges ==
  ASSUME IInv, IInv', ChangesInv, StartRun
  PROVE  ChangesInv'
<1> DEFINE old  == Live(notifier, "main")
           new  == Live(notifier, "new")
<1> DEFINE skip == Release(notifier, "main", skipVersion)
<1>1. /\ worker = "idle"
      /\ notifier' = [n \in Notifiers |->
             IF n \in new THEN [notifier[n] EXCEPT !.list = "main"]
                          ELSE Cleaned(notifier)[n]]
      /\ UNCHANGED <<latest, realmVars, callback, told, suppressed, missed>>
      /\ worker' \in {"running", "skipping", "signalling"}
      /\ old # {} => helper' = helper
      /\ worker' # "signalling" => work'.old = old /\ work'.new = new /\ work'.skip = skip
      /\ old # {} => worker' = IF skip = None THEN "running" ELSE "skipping"
  BY DEF StartRun, fileVars, history
<1>2. /\ HistoryTypes /\ ListInv /\ RunInv /\ \A n \in Notifiers : CallbackInv(n)
      /\ notifier \in [Notifiers -> Notifier]
  BY DEF ChangesInv, IInv, TypeInv
<1>3. ~Ran /\ ~Ran' /\ (Working' => work'.old = old /\ work'.new = new)
  BY <1>1 DEF Ran, Working
<1>4. ASSUME NEW n \in Notifiers
      PROVE  /\ n \in new => /\ notifier'[n].list = "main"
                             /\ notifier'[n].hasRun = notifier[n].hasRun
                             /\ notifier'[n].alive = notifier[n].alive
             /\ n \notin new => notifier'[n] = Cleaned(notifier)[n]
  <2>1. notifier[n] \in Notifier
    BY <1>2
  <2>2. notifier'[n] = IF n \in new THEN [notifier[n] EXCEPT !.list = "main"]
                                    ELSE Cleaned(notifier)[n]
    BY <1>1
  <2> QED  BY <2>1, <2>2 DEF Notifier
<1>5. /\ [NoNotifier EXCEPT !.list = "gone"].list = "gone"
      /\ ~[NoNotifier EXCEPT !.list = "gone"].alive
  BY DEF NoNotifier
<1>6. \A n \in Notifiers :
        Cleaned(notifier)[n] = IF n \in Dead(notifier, "main") \cup Dead(notifier, "new")
                               THEN [NoNotifier EXCEPT !.list = "gone"] ELSE notifier[n]
  BY DEF Cleaned
<1>7. ASSUME NEW n \in Notifiers
      PROVE  /\ n \in new => ~notifier[n].hasRun /\ notifier[n].alive
             /\ n \in old => notifier'[n] = notifier[n] /\ HasRun(n) /\ notifier[n].alive
             /\ n \notin old \cup new =>
                  \/ notifier'[n].list = "gone" /\ ~notifier'[n].alive
                  \/ notifier'[n] = notifier[n] /\ ~notifier[n].alive
                     /\ notifier[n].list \notin {"main", "new"}
  <2>1. notifier[n].alive \in BOOLEAN
    BY NotifierTypes
  <2>2. n \in old => notifier[n].hasRun
    BY <1>1 DEF Live, IInv, OneVersion, In
  <2>3. /\ n \in new <=> notifier[n].list = "new" /\ notifier[n].alive
        /\ n \in old <=> notifier[n].list = "main" /\ notifier[n].alive
        /\ n \in Dead(notifier, "main") \cup Dead(notifier, "new") <=>
              notifier[n].list \in {"main", "new"} /\ ~notifier[n].alive
    BY DEF Live, Dead
  <2> HIDE DEF old, new
  <2>4. n \in new => ~notifier[n].hasRun
    BY <1>2, <2>3 DEF ListInv
  <2>5. n \in old => notifier'[n] = notifier[n]
    BY <1>4, <1>6, <2>3
  <2>6. CASE n \notin old \cup new
    <3>1. notifier[n].alive => FALSE
      BY <1>2, <2>3, <2>6 DEF ListInv
    <3>2. CASE n \in Dead(notifier, "main") \cup Dead(notifier, "new")
      <4>1. notifier'[n] = [NoNotifier EXCEPT !.list = "gone"]
        BY <1>4, <1>6, <2>6, <3>2
      <4> QED  BY <1>5, <2>6, <4>1
    <3>3. CASE n \notin Dead(notifier, "main") \cup Dead(notifier, "new")
      <4>1. notifier'[n] = notifier[n]
        BY <1>4, <1>6, <2>6, <3>3
      <4>2. notifier[n].list \notin {"main", "new"}
        BY <2>1, <2>3, <3>1, <3>3
      <4> QED  BY <2>1, <2>6, <3>1, <4>1, <4>2
    <3> QED  BY <3>2, <3>3
  <2> QED  BY <2>2, <2>3, <2>4, <2>5, <2>6 DEF HasRun
<1>8. ListInv'
  <2>1. old \subseteq Notifiers /\ new \subseteq Notifiers
    BY DEF Live
  <2>2. Working' => /\ \A n \in work'.old : notifier'[n].hasRun
                    /\ \A n \in work'.new : ~notifier'[n].hasRun
    BY <1>3, <1>4, <1>7, <2>1 DEF HasRun
  <2>3. ASSUME NEW n \in Notifiers
        PROVE  /\ notifier'[n].alive => notifier'[n].list \in {"new", "main"}
               /\ notifier'[n].list \in {"none", "new"} => ~notifier'[n].hasRun
    BY <1>2, <1>4, <1>7 DEF ListInv, HasRun
  <2> QED  BY <2>2, <2>3 DEF ListInv
<1>9. \A n \in Notifiers : HasRun(n)' => n \in old
  BY <1>4, <1>7 DEF HasRun
<1>10. RunInv'
  <2>1. worker' \notin {"skipped", "handover"}
    BY <1>1
  <2>2. ASSUME NEW n \in Notifiers, HasRun(n)'
        PROVE  /\ HasRun(n) /\ notifier'[n] = notifier[n] /\ notifier[n].alive
               /\ notifier'[n].version = helper' /\ helper' = helper /\ helper \in Int
    <3>1. n \in old
      BY <1>9, <2>2
    <3>2. helper \in Int
      BY DEF IInv, TypeInv, Version, None
    <3> QED  BY <1>1, <1>2, <1>3, <1>7, <3>1, <3>2 DEF RunInv
  <2>3. \A n \in Notifiers : HasRun(n)' =>
          /\ notifier'[n].version = helper' /\ notifier'[n].version <= helper'
          /\ notifier'[n].previous = notifier'[n].version /\ notifier'[n].changes = {}
    BY <1>2, <1>3, <2>2 DEF RunInv
  <2> QED  BY <1>3, <2>1, <2>3 DEF RunInv
<1>11. \A n \in Notifiers : Served(n)
  <2> SUFFICES ASSUME NEW n \in Notifiers PROVE Served(n)
    OBVIOUS
  <2>1. notifier[n].alive => n \in old \cup new
    BY <1>2 DEF ListInv, Live
  <2>2. notifier[n].alive => notifier'[n].alive
    BY <1>4, <1>7, <2>1
  <2>3. notifier[n].alive /\ HasRun(n) => notifier'[n] = notifier[n]
    BY <1>7, <2>1 DEF HasRun
  <2>4. notifier[n].version \in Int
    BY NotifierTypes
  <2> QED  BY <1>1, <2>2, <2>3, <2>4 DEF Served, HasRun
<1>12. ASSUME NEW n \in Notifiers, callback[n].present PROVE ServedAll(n)
  <2>1. notifier[n].alive /\ CallbackInv(n) /\ notifier[n].version \in Int
        /\ notifier[n].version >= 0
    BY <1>2, <1>12, NotifierTypes DEF CallbackInv, PresentInv, Notifier, Version, None
  <2>2. HasRun(n) => n \in old /\ notifier'[n] = notifier[n]
    BY <1>7, <2>1 DEF HasRun, Live
  <2>3. SkipInv(n)'
    <3> SUFFICES ASSUME callback[n].skip PROVE SkipInv(n)'
      BY <1>1 DEF SkipInv
    <3>1. HasRun(n) /\ callback[n].initial
      BY <1>12, <2>1, SkipHasRun
    <3> DEFINE next == notifier[n].version + 1
    <3>2. /\ next \in suppressed[n]
          /\ \/ at[Owner[n]] = "committing"
             \/ next <= skipVersion /\ next .. skipVersion \subseteq Excused(n)
      BY <1>1, <1>12, <2>1 DEF CallbackInv, SkipInv
    <3>3. skip = skipVersion
      BY <2>2, <3>1 DEF Release, Emptied
    <3>4. next <= skipVersion => skipVersion # None
      BY <2>1 DEF None, IInv, TypeInv, Version
    <3>5. skipVersion # None => worker' = "skipping" /\ work'.skip = skipVersion
      BY <1>1, <2>2, <3>1, <3>3
    <3>6. /\ notifier'[n].version + 1 = next /\ callback' = callback
          /\ suppressed' = suppressed /\ at' = at /\ Excused(n)' = Excused(n)
      BY <1>1, <2>2, <3>1 DEF realmVars, Excused
    <3> HIDE DEF next
    <3> QED  BY <3>1, <3>2, <3>4, <3>5, <3>6 DEF SkipInv
  <2>4. HasRun(n) => notifier[n].version + 1 .. notifier'[n].version = {}
    BY <2>1, <2>2
  <2> QED  BY <1>1, <1>3, <2>3, <2>4 DEF ServedAll
<1>13. \A n \in Notifiers : ServedAll(n)
  BY <1>12 DEF ServedAll
<1> QED  BY <1>1, <1>2, <1>8, <1>10, <1>11, <1>13, WorkerServes DEF HistoryTypes

LEMMA SignalChanges ==
  ASSUME IInv, IInv', ChangesInv, SignalRealms
  PROVE  ChangesInv'
<1>1. /\ worker = "signalling" /\ worker' = "idle"
      /\ UNCHANGED <<latest, realmVars, notifier, callback, helper, skipVersion, work, told,
                     suppressed, missed>>
  BY DEF SignalRealms, fileVars, helperVars, history
<1>2. ListInv' /\ RunInv'
  BY <1>1 DEF ChangesInv, ListInv, RunInv, HasRun, Ran, Working
<1>3. \A n \in Notifiers : Served(n)
  BY <1>1, NotifierTypes DEF Served, HasRun
<1>4. ASSUME NEW n \in Notifiers PROVE ServedAll(n)
  <2>1. ~Ran' /\ ~Working' /\ at' = at /\ HasRun(n)' = HasRun(n)
    BY <1>1 DEF Ran, Working, realmVars, HasRun
  <2>2. SkipInv(n) => SkipInv(n)'
    BY <1>1, <2>1 DEF SkipInv, Excused
  <2>3. notifier[n].version + 1 .. notifier'[n].version = {}
    BY <1>1, NotifierTypes
  <2> QED  BY <1>1, <2>1, <2>2, <2>3 DEF ChangesInv, CallbackInv, ServedAll
<1> QED  BY <1>1, <1>2, <1>3, <1>4, WorkerServes DEF ChangesInv, HistoryTypes

\* What a run at version v does to a notifier.
LEMMA RunOne ==
  ASSUME IInv, NEW n \in Notifiers, NEW v \in Version, notifier'[n] = Run(n, v)
  PROVE  /\ notifier'[n].list = notifier[n].list /\ notifier'[n].alive = notifier[n].alive
         /\ notifier'[n].hasRun = notifier[n].hasRun
         /\ notifier'[n].version = notifier[n].version
         /\ notifier[n].alive =>
              /\ notifier'[n].previous = v
              /\ \/ notifier[n].hasRun /\ notifier[n].previous = v /\ notifier'[n] = notifier[n]
                 \/ ~notifier[n].hasRun
                 \/ notifier'[n].changes = IF HaveCallback(n)
                                           THEN notifier[n].previous + 1 .. v
                                           ELSE notifier[n].changes
<1> DEFINE m == notifier[n]
<1>1. m \in Notifier
  BY NotifierTypes
<1>2. CASE ~m.alive \/ (m.hasRun /\ m.previous = v)
  <2>1. notifier'[n] = m
    BY <1>2 DEF Run
  <2> QED  BY <1>2, <2>1
<1>3. CASE ~(~m.alive \/ (m.hasRun /\ m.previous = v))
  <2> DEFINE cs == IF m.hasRun /\ HaveCallback(n) THEN m.previous + 1 .. v ELSE m.changes
  <2>1. notifier'[n] = [m EXCEPT !.previous = v, !.changes = cs]
    BY <1>3 DEF Run
  <2> HIDE DEF cs
  <2>2. /\ notifier'[n].list = m.list /\ notifier'[n].alive = m.alive
        /\ notifier'[n].hasRun = m.hasRun /\ notifier'[n].version = m.version
        /\ notifier'[n].previous = v /\ notifier'[n].changes = cs
    BY <1>1, <2>1 DEF Notifier
  <2> QED  BY <2>2 DEF cs
<1> QED  BY <1>2, <1>3

LEMMA RunChanges ==
  ASSUME IInv, IInv', ChangesInv, RunToSkip \/ RunToVersion
  PROVE  ChangesInv'
<1>1. /\ UNCHANGED <<latest, realmVars, callback, skipVersion, work, told, suppressed, missed>>
      /\ worker \in {"skipping", "running"} /\ Working /\ Working' /\ ~Ran /\ Ran'
      /\ worker = "skipping" => worker' = "skipped"
  BY DEF RunToSkip, RunToVersion, fileVars, history, Working, Ran
<1>2. /\ HistoryTypes /\ ListInv /\ RunInv /\ work \in Work
      /\ helper \in Int /\ latest \in Int
  BY DEF ChangesInv, IInv, TypeInv, Version, None
<1>3. PICK v \in Version, ns \in SUBSET Notifiers :
        /\ helper' = v /\ RunNotifiers(ns, v) /\ helper <= v
        /\ \/ worker' = "skipped" /\ v = work.skip /\ ns = work.old
           \/ worker' = "handover" /\ v = work.version /\ ns = work.old \cup work.new
  <2>1. CASE RunToSkip
    <3>1. work.skip # None /\ helper <= work.skip
      BY <1>1, <2>1 DEF IInv, WorkInv, WorkerForward, RunToSkip
    <3> QED  BY <1>2, <2>1, <3>1 DEF RunToSkip, Work
  <2>2. CASE RunToVersion
    <3>1. work.version # None /\ helper <= work.version
      BY <1>1, <2>2 DEF IInv, WorkInv, WorkerForward, RunToVersion
    <3> QED  BY <1>2, <2>2, <3>1 DEF RunToVersion, Work
  <2> QED  BY <2>1, <2>2
<1>4. v \in Int
  BY DEF Version
<1>5. ASSUME NEW n \in Notifiers
      PROVE  /\ n \in ns => notifier'[n] = Run(n, v)
             /\ n \notin ns => notifier'[n] = notifier[n]
             /\ notifier'[n].list = notifier[n].list /\ notifier'[n].alive = notifier[n].alive
             /\ notifier'[n].hasRun = notifier[n].hasRun
             /\ notifier'[n].version = notifier[n].version
  <2>1. notifier'[n] = IF n \in ns THEN Run(n, v) ELSE notifier[n]
    BY <1>3 DEF RunNotifiers
  <2> QED  BY <2>1, RunOne
<1>6. ASSUME NEW n \in Notifiers, notifier[n].alive, n \in ns
      PROVE  /\ notifier'[n].previous = v
             /\ HasRun(n) => notifier'[n].changes \subseteq notifier[n].version + 1 .. v
             /\ HasRun(n) /\ callback[n].present =>
                   notifier'[n].changes = notifier[n].version + 1 .. v
  <2>1. /\ notifier'[n].previous = v
        /\ \/ notifier[n].previous = v /\ notifier'[n] = notifier[n]
           \/ ~notifier[n].hasRun
           \/ notifier'[n].changes = IF HaveCallback(n) THEN notifier[n].previous + 1 .. v
                                                        ELSE notifier[n].changes
    BY <1>5, <1>6, RunOne
  <2>2. HasRun(n) => notifier[n].previous = notifier[n].version /\ notifier[n].changes = {}
    BY <1>1, <1>2, <1>6 DEF RunInv
  <2>3. notifier[n].previous = v /\ HasRun(n) => notifier[n].version + 1 .. v = {}
    BY <1>4, <2>2
  <2> QED  BY <2>1, <2>2, <2>3 DEF HasRun, HaveCallback
<1>7. ListInv'
  <2>1. work' = work /\ work.old \in SUBSET Notifiers /\ work.new \in SUBSET Notifiers
    BY <1>1, <1>2 DEF Work
  <2>2. Working' => /\ \A n \in work'.old : notifier'[n].hasRun
                    /\ \A n \in work'.new : ~notifier'[n].hasRun
    BY <1>1, <1>2, <1>5, <2>1 DEF ListInv
  <2> QED  BY <1>2, <1>5, <2>2 DEF ListInv
<1>8. RunInv'
  <2>1. /\ worker' = "skipped" => helper' = work'.skip
        /\ worker' = "handover" => helper' = work'.version
    BY <1>1, <1>3
  <2>2. worker' = "handover" => \A n \in Notifiers :
            notifier'[n].list = "main" /\ notifier'[n].alive => notifier'[n].previous = helper'
    BY <1>1, <1>2, <1>3, <1>5, <1>6, OldHaveRun
  <2>3. ASSUME NEW n \in Notifiers, HasRun(n)'
        PROVE  /\ HasRun(n) /\ n \in ns /\ notifier'[n].version = notifier[n].version
               /\ notifier[n].version = helper /\ notifier[n].version <= helper'
               /\ notifier'[n].alive = notifier[n].alive
    <3>1. HasRun(n)
      BY <1>5, <2>3 DEF HasRun
    <3>2. n \in ns
      BY <1>1, <1>2, <1>3, <3>1, OldHaveRun
    <3>3. notifier[n].version = helper
      BY <1>1, <1>2, <3>1 DEF RunInv
    <3> QED  BY <1>3, <1>5, <3>1, <3>2, <3>3
  <2>4. \A n, k \in Notifiers : HasRun(n)' /\ HasRun(k)' =>
            notifier'[n].version = notifier'[k].version
    BY <2>3
  <2>5. \A n \in Notifiers : HasRun(n)' =>
          /\ notifier'[n].version <= helper'
          /\ notifier'[n].alive =>
               /\ notifier'[n].previous = helper'
               /\ notifier'[n].changes \subseteq notifier'[n].version + 1 .. helper'
    BY <1>3, <1>6, <2>3
  <2> QED  BY <1>1, <2>1, <2>2, <2>4, <2>5 DEF RunInv
<1>9. \A n \in Notifiers : Served(n)
  <2> SUFFICES ASSUME NEW n \in Notifiers PROVE Served(n)
    OBVIOUS
  <2>1. notifier[n].version \in Int
    BY NotifierTypes
  <2> QED  BY <1>1, <1>5, <2>1 DEF Served, HasRun
<1>10. ASSUME NEW n \in Notifiers, callback[n].present PROVE ServedAll(n)
  <2>1. notifier[n].alive /\ SkipInv(n) /\ notifier[n].version \in Int
    BY <1>10, NotifierTypes DEF ChangesInv, CallbackInv, PresentInv
  <2>2. notifier'[n].version = notifier[n].version /\ (HasRun(n)' <=> HasRun(n))
    BY <1>5 DEF HasRun
  <2>3. HasRun(n) => notifier'[n].version + 1 .. helper' = notifier'[n].changes
    <3>1. HasRun(n) => n \in ns
      BY <1>1, <1>2, <1>3, OldHaveRun
    <3> QED  BY <1>3, <1>6, <1>10, <2>1, <2>2, <3>1
  <2>4. notifier[n].version + 1 .. notifier'[n].version = {}
    BY <2>1, <2>2
  <2>5. SkipInv(n)'
    BY <1>1, <2>1, <2>2 DEF SkipInv, realmVars, Excused
  <2> QED  BY <1>1, <2>2, <2>3, <2>4, <2>5 DEF ServedAll
<1>11. \A n \in Notifiers : ServedAll(n)
  BY <1>10 DEF ServedAll
<1> QED  BY <1>1, <1>2, <1>7, <1>8, <1>9, <1>11, WorkerServes DEF HistoryTypes

\* What a handover adds to a callback.
LEMMA Added ==
  ASSUME IInv, HistoryTypes, NEW ns, HandOver(ns), NEW n \in Notifiers
  PROVE  /\ callback'[n] \in Callback
         /\ callback'[n].present = callback[n].present
         /\ callback'[n].initial = callback[n].initial
         /\ callback'[n].deliver = callback[n].deliver
         /\ n \notin ns => callback'[n] = callback[n]
         /\ n \in ns =>
              /\ ~callback'[n].skip
              /\ callback'[n].accumulated = IF ~callback[n].present \/ callback[n].skip
                                            THEN callback[n].accumulated
                                            ELSE callback[n].accumulated \cup notifier[n].changes
<1>1. callback[n] \in Callback /\ notifier[n].changes \in SUBSET Version
  BY CallbackTypes, NotifierTypes
<1>2. callback'[n] = IF n \in ns THEN AddChanges(n) ELSE callback[n]
  BY DEF HandOver
<1> DEFINE acc == IF ~callback[n].present \/ callback[n].skip THEN callback[n].accumulated
                  ELSE callback[n].accumulated \cup notifier[n].changes
<1>3. acc \in SUBSET Version
  BY <1>1 DEF Callback
<1>4. AddChanges(n) = [callback[n] EXCEPT !.skip = FALSE, !.accumulated = acc]
  BY DEF AddChanges
<1> HIDE DEF acc
<1>5. n \in ns => /\ callback'[n] \in Callback /\ ~callback'[n].skip
                  /\ callback'[n].present = callback[n].present
                  /\ callback'[n].initial = callback[n].initial
                  /\ callback'[n].deliver = callback[n].deliver
                  /\ callback'[n].accumulated = acc
  BY <1>1, <1>2, <1>3, <1>4 DEF Callback
<1> QED  BY <1>1, <1>2, <1>5 DEF acc

LEMMA AddedTypes ==
  ASSUME IInv, HistoryTypes, NEW ns, HandOver(ns), UNCHANGED history
  PROVE  HistoryTypes'
<1>1. \A n \in Notifiers : callback'[n] \in Callback
  BY Added
<1>2. callback' = [n \in Notifiers |-> callback'[n]]
  BY DEF HandOver
<1> QED  BY <1>1, <1>2 DEF HistoryTypes, history

\* What a handover makes of the notifiers it is for.
LEMMA HandedOverOne ==
  ASSUME IInv, NEW ns, NEW n \in ns, n \in Notifiers
  PROVE  /\ HandedOver(ns)[n].version = helper /\ HandedOver(ns)[n].hasRun
         /\ HandedOver(ns)[n].list = notifier[n].list
         /\ HandedOver(ns)[n].alive = notifier[n].alive
         /\ HandedOver(ns)[n].previous = notifier[n].previous
         /\ HandedOver(ns)[n].changes = {}
<1>1. notifier[n] \in Notifier
  BY NotifierTypes
<1>2. HandedOver(ns)[n] = [notifier[n] EXCEPT !.version = helper, !.hasRun = TRUE, !.changes = {}]
  BY DEF HandedOver
<1> QED  BY <1>1, <1>2 DEF Notifier

\* A handover leaves out nothing but a version to skip.
LEMMA HandoverLeaves ==
  ASSUME IInv, ChangesInv, Ran, NEW ns, HandOver(ns), NEW n \in Notifiers, n \in ns,
         callback[n].present, HasRun(n)
  PROVE  callback[n].accumulated \cup (notifier[n].version + 1 .. helper)
            \subseteq callback'[n].accumulated \cup Excused(n)
<1> DEFINE next == notifier[n].version + 1
<1>1. /\ HistoryTypes /\ AllInv(n) /\ SkipInv(n) /\ PlaceInv(n)
      /\ notifier[n].version \in Int /\ helper \in Int /\ latest \in Int
      /\ notifier[n].version <= helper /\ helper <= latest
  BY NotifierTypes DEF ChangesInv, CallbackInv, RunInv, IInv, TypeInv, VersionInv, Version, None
<1>2. next .. helper \subseteq notifier[n].changes \cup Excused(n)
  BY <1>1 DEF AllInv, Excused
<1>3. CASE ~callback[n].skip
  <2>1. callback'[n].accumulated = callback[n].accumulated \cup notifier[n].changes
    BY <1>1, <1>3, Added
  <2> QED  BY <1>2, <2>1
<1>4. CASE callback[n].skip
  <2>1. callback'[n].accumulated = callback[n].accumulated
    BY <1>1, <1>4, Added
  <2>2. CASE at[Owner[n]] = "committing"
    <3>1. next .. helper = {}
      BY <1>1, <2>2 DEF PlaceInv
    <3> QED  BY <2>1, <3>1
  <2>3. CASE next <= skipVersion /\ (Working => work.version < next)
    <3>1. /\ Working /\ work.version \in Int /\ work.skip \in Int
          /\ helper = work.version \/ helper = work.skip
          /\ helper <= work.version
      BY DEF Ran, Working, ChangesInv, RunInv, IInv, WorkerForward, TypeInv, Work,
         Version, None
    <3>2. next .. helper = {}
      BY <1>1, <2>3, <3>1
    <3> QED  BY <2>1, <3>2
  <2>4. CASE worker \in {"skipping", "skipped"} /\ next .. work.skip \subseteq Excused(n)
    <3>1. helper = work.skip
      BY <2>4 DEF Ran, ChangesInv, RunInv
    <3> QED  BY <2>1, <2>4, <3>1
  <2> QED  BY <1>1, <1>4, <2>2, <2>3, <2>4 DEF SkipInv
<1> QED  BY <1>3, <1>4

LEMMA HandoverSkippedChanges ==
  ASSUME IInv, IInv', ChangesInv, HandoverSkipped
  PROVE  ChangesInv'
<1>1. /\ worker = "skipped" /\ worker' = "running" /\ notifier' = HandedOver(work.old)
      /\ HandOver(work.old) /\ UNCHANGED <<latest, realmVars, helper, work, told, history>>
      /\ Working /\ Working' /\ Ran /\ ~Ran'
  BY DEF HandoverSkipped, fileVars, helperVars, history, Working, Ran
<1>2. /\ HistoryTypes /\ ListInv /\ RunInv /\ work.old \in SUBSET Notifiers
      /\ work.new \in SUBSET Notifiers /\ helper \in Int
  BY DEF ChangesInv, IInv, TypeInv, Work, Version, None
<1>3. \A n \in work.old : /\ notifier'[n].version = helper /\ notifier'[n].hasRun
                          /\ notifier'[n].list = notifier[n].list
                          /\ notifier'[n].alive = notifier[n].alive
                          /\ notifier'[n].previous = notifier[n].previous
                          /\ notifier'[n].changes = {}
  BY <1>1, <1>2, HandedOverOne
<1>4. \A n \in Notifiers \ work.old : notifier'[n] = notifier[n]
  BY <1>1 DEF HandedOver
<1>5. \A n \in work.old : notifier[n].list = "main" /\ HasRun(n)
  BY <1>1, <1>2, OldHaveRun DEF HasRun
<1>6. ASSUME NEW n \in Notifiers
      PROVE  /\ notifier'[n].list = notifier[n].list /\ notifier'[n].alive = notifier[n].alive
             /\ HasRun(n)' <=> n \in work.old
  <2>1. CASE n \in work.old
    BY <1>3, <1>5, <2>1 DEF HasRun
  <2>2. CASE n \notin work.old
    BY <1>1, <1>2, <1>4, <2>2, OldHaveRun DEF HasRun
  <2> QED  BY <2>1, <2>2
<1>7. ListInv'
  <2>1. \A n \in Notifiers : notifier'[n].list \in {"none", "new"} => ~notifier'[n].hasRun
    BY <1>2, <1>4, <1>5, <1>6 DEF ListInv
  <2>2. /\ \A n \in work'.old : notifier'[n].hasRun
        /\ \A n \in work'.new : ~notifier'[n].hasRun
    <3>1. \A n \in work.new : n \notin work.old
      BY <1>1, <1>2 DEF ListInv
    <3> QED  BY <1>1, <1>2, <1>3, <1>4, <3>1 DEF ListInv
  <2> QED  BY <1>2, <1>6, <2>1, <2>2 DEF ListInv
<1>8. RunInv'
  <2>1. \A n \in Notifiers : HasRun(n)' =>
          /\ notifier'[n].version = helper' /\ notifier'[n].version <= helper'
          /\ notifier'[n].changes = {}
          /\ notifier'[n].alive => notifier'[n].previous = notifier'[n].version
    BY <1>1, <1>2, <1>3, <1>5, <1>6 DEF RunInv
  <2> QED  BY <1>1, <2>1 DEF RunInv
<1>9. \A n \in Notifiers : Served(n)
  <2> SUFFICES ASSUME NEW n \in Notifiers PROVE Served(n)
    OBVIOUS
  <2>1. notifier[n].version \in Int
    BY NotifierTypes
  <2>2. /\ callback'[n].present = callback[n].present
        /\ callback'[n].initial = callback[n].initial
        /\ callback'[n].deliver = callback[n].deliver
        /\ callback'[n].skip => callback[n].skip
        /\ callback'[n].accumulated \subseteq callback[n].accumulated \cup
              (IF n \in work.old THEN notifier[n].changes ELSE {})
    BY <1>1, <1>2, Added
  <2>3. notifier[n].alive /\ HasRun(n) =>
          /\ n \in work.old /\ notifier'[n].version = helper
          /\ notifier[n].version <= helper
          /\ notifier[n].changes \subseteq notifier[n].version + 1 .. helper
    BY <1>1, <1>2, <1>3, OldHaveRun DEF RunInv
  <2> QED  BY <1>3, <1>5, <1>6, <2>2, <2>3 DEF Served, HasRun
<1>10. HistoryTypes'
  BY <1>1, <1>2, AddedTypes
<1>11. ASSUME NEW n \in Notifiers, callback[n].present PROVE ServedAll(n)
  <2>1. CallbackInv(n) /\ callback'[n].present
    BY <1>1, <1>2, <1>11, Added DEF ChangesInv
  <2>2. HasRun(n) <=> n \in work.old
    BY <1>1, <1>2, OldHaveRun
  <2>3. SkipInv(n)'
    <3>1. n \in work.old => ~callback'[n].skip
      BY <1>1, <1>2, Added
    <3>2. n \notin work.old => callback'[n] = callback[n] /\ ~callback[n].skip
      BY <1>1, <1>2, <1>11, <2>1, <2>2, Added, SkipHasRun, CallbackTypes
    <3> QED  BY <3>1, <3>2 DEF SkipInv
  <2>4. HasRun(n) =>
           callback[n].accumulated \cup (notifier[n].version + 1 .. notifier'[n].version)
              \subseteq callback'[n].accumulated \cup Excused(n)
    BY <1>1, <1>3, <1>11, <2>2, HandoverLeaves
  <2> QED  BY <1>1, <2>3, <2>4 DEF ServedAll
<1>12. \A n \in Notifiers : ServedAll(n)
  BY <1>11 DEF ServedAll
<1> QED  BY <1>1, <1>7, <1>8, <1>9, <1>10, <1>12, WorkerServes DEF history

LEMMA HandoverChanges ==
  ASSUME IInv, IInv', ChangesInv, Handover
  PROVE  ChangesInv'
<1> DEFINE ns == work.old \cup work.new
           nf == HandedOver(ns)
<1>1. /\ worker = "handover" /\ worker' = "signalling" /\ notifier' = Cleaned(nf)
      /\ helper' = Release(nf, "main", helper)
      /\ HandOver(ns) /\ UNCHANGED <<latest, realmVars, told, history>>
      /\ Working /\ ~Working' /\ Ran /\ ~Ran'
  BY DEF Handover, fileVars, history, Working, Ran
<1>2. /\ HistoryTypes /\ ListInv /\ RunInv /\ ns \in SUBSET Notifiers /\ helper \in Int
  BY DEF ChangesInv, IInv, TypeInv, Work, Version, None
<1>3. \A n \in ns : /\ nf[n].version = helper /\ nf[n].hasRun
                    /\ nf[n].list = notifier[n].list /\ nf[n].alive = notifier[n].alive
                    /\ nf[n].previous = notifier[n].previous /\ nf[n].changes = {}
  BY <1>2, HandedOverOne
<1>4. \A n \in Notifiers \ ns : nf[n] = notifier[n]
  BY DEF HandedOver
<1>5. \A n \in Notifiers : notifier[n].list = "main" <=> n \in ns
  BY <1>1, <1>2, OldHaveRun
<1>6. nf \in [Notifiers -> Notifier]
  BY <1>2, HandedOverType
<1> HIDE DEF nf, ns
<1>7. ASSUME NEW n \in Notifiers
      PROVE  /\ nf[n].list = notifier[n].list /\ nf[n].alive = notifier[n].alive
             /\ notifier[n].alive => notifier'[n] = nf[n]
             /\ ~notifier[n].alive => /\ ~notifier'[n].alive
                                      /\ notifier'[n].list \notin {"main", "new"}
                                      /\ notifier'[n].list = "gone" \/ notifier'[n] = notifier[n]
  <2>1. nf[n].list = notifier[n].list /\ nf[n].alive = notifier[n].alive
        /\ nf[n].alive \in BOOLEAN
    BY <1>3, <1>4, NotifierTypes
  <2>2. notifier'[n] = IF n \in Dead(nf, "main") \cup Dead(nf, "new")
                       THEN [NoNotifier EXCEPT !.list = "gone"] ELSE nf[n]
    BY <1>1 DEF Cleaned
  <2>3. n \in Dead(nf, "main") \cup Dead(nf, "new") <=>
           nf[n].list \in {"main", "new"} /\ ~nf[n].alive
    BY DEF Dead
  <2>4. /\ [NoNotifier EXCEPT !.list = "gone"].list = "gone"
        /\ ~[NoNotifier EXCEPT !.list = "gone"].alive
    BY DEF NoNotifier
  <2>5. CASE notifier[n].alive
    BY <2>1, <2>2, <2>3, <2>5
  <2>6. CASE ~notifier[n].alive /\ nf[n].list \in {"main", "new"}
    <3>1. notifier'[n] = [NoNotifier EXCEPT !.list = "gone"]
      BY <2>1, <2>2, <2>3, <2>6
    <3> QED  BY <2>1, <2>4, <2>6, <3>1
  <2>7. CASE ~notifier[n].alive /\ nf[n].list \notin {"main", "new"}
    <3>1. notifier'[n] = nf[n]
      BY <2>2, <2>3, <2>7
    <3>2. nf[n] = notifier[n]
      BY <1>4, <1>5, <2>1, <2>7
    <3> QED  BY <2>1, <2>7, <3>1, <3>2
  <2> QED  BY <2>5, <2>6, <2>7
<1>8. ASSUME NEW n \in Notifiers, HasRun(n)'
      PROVE  /\ n \in ns /\ notifier[n].alive /\ notifier'[n] = nf[n]
             /\ notifier'[n].version = helper' /\ notifier'[n].version <= helper'
             /\ notifier'[n].previous = notifier'[n].version /\ notifier'[n].changes = {}
  <2>1. notifier[n].alive /\ notifier'[n] = nf[n] /\ n \in ns
    BY <1>5, <1>7, <1>8 DEF HasRun
  <2>2. Live(nf, "main") # {}
    BY <1>5, <1>7, <2>1 DEF Live
  <2>3. helper' = helper
    <3>1. helper # None => {k \in Notifiers : nf[k].list = "main"} # {}
      BY <2>2 DEF Live
    <3> QED  BY <1>1, <2>2, <3>1, ReleaseHeld
  <2>4. notifier[n].previous = helper
    BY <1>1, <1>2, <1>5, <2>1 DEF RunInv
  <2> QED  BY <1>2, <1>3, <2>1, <2>3, <2>4
<1>9. ListInv'
  <2>1. ASSUME NEW n \in Notifiers
        PROVE  /\ notifier'[n].alive => notifier'[n].list \in {"new", "main"}
               /\ notifier'[n].list \in {"none", "new"} => ~notifier'[n].hasRun
    <3>1. CASE notifier[n].alive
      <4>1. notifier'[n] = nf[n] /\ notifier[n].list \in {"new", "main"}
        BY <1>2, <1>7, <3>1 DEF ListInv
      <4>2. notifier[n].list = "new" => nf[n] = notifier[n]
        BY <1>4, <1>5
      <4> QED  BY <1>2, <1>7, <4>1, <4>2 DEF ListInv
    <3>2. CASE ~notifier[n].alive
      BY <1>2, <1>7, <3>2 DEF ListInv
    <3> QED  BY <3>1, <3>2
  <2> QED  BY <1>1, <2>1 DEF ListInv
<1>10. RunInv'
  <2>1. \A n, k \in Notifiers : HasRun(n)' /\ HasRun(k)' =>
            notifier'[n].version = notifier'[k].version
    BY <1>8
  <2> QED  BY <1>1, <1>8, <2>1 DEF RunInv
<1>11. \A n \in Notifiers : Served(n)
  <2> SUFFICES ASSUME NEW n \in Notifiers PROVE Served(n)
    OBVIOUS
  <2>1. /\ callback'[n].present = callback[n].present
        /\ callback'[n].initial = callback[n].initial
        /\ callback'[n].deliver = callback[n].deliver
        /\ callback'[n].skip => callback[n].skip
        /\ callback'[n].accumulated \subseteq callback[n].accumulated \cup
              (IF n \in ns THEN notifier[n].changes ELSE {})
    BY <1>1, <1>2, Added
  <2>2. notifier[n].alive /\ HasRun(n) =>
          /\ n \in ns /\ notifier'[n] = nf[n] /\ nf[n].list = "main"
          /\ nf[n].hasRun /\ nf[n].version = helper
          /\ notifier[n].version <= helper
          /\ notifier[n].changes \subseteq notifier[n].version + 1 .. helper
    BY <1>1, <1>2, <1>3, <1>5, <1>7 DEF RunInv, HasRun
  <2> QED  BY <1>7, <2>1, <2>2 DEF Served, HasRun
<1>12. HistoryTypes'
  BY <1>1, <1>2, AddedTypes
<1>13. ASSUME NEW n \in Notifiers, callback[n].present PROVE ServedAll(n)
  <2>1. CallbackInv(n) /\ callback'[n].present /\ notifier[n].alive
    BY <1>1, <1>2, <1>13, Added DEF ChangesInv, CallbackInv, PresentInv
  <2>2. HasRun(n) => n \in ns /\ notifier'[n].version = helper
    BY <1>3, <1>5, <1>7, <2>1 DEF HasRun
  <2>3. SkipInv(n)'
    <3>1. n \in ns => ~callback'[n].skip
      BY <1>1, <1>2, Added
    <3>2. n \notin ns => callback'[n] = callback[n] /\ ~callback[n].skip
      BY <1>1, <1>2, <1>13, <2>1, <2>2, Added, SkipHasRun, CallbackTypes
    <3> QED  BY <3>1, <3>2 DEF SkipInv
  <2>4. HasRun(n) =>
           callback[n].accumulated \cup (notifier[n].version + 1 .. notifier'[n].version)
              \subseteq callback'[n].accumulated \cup Excused(n)
    BY <1>1, <1>13, <2>2, HandoverLeaves
  <2> QED  BY <1>1, <2>3, <2>4 DEF ServedAll
<1>14. \A n \in Notifiers : ServedAll(n)
  BY <1>13 DEF ServedAll
<1> QED  BY <1>1, <1>9, <1>10, <1>11, <1>12, <1>14, WorkerServes DEF history

-----------------------------------------------------------------------------
(* What a callback hears of: the specification *)

LEMMA InitChanges == Init => ChangesInv
<1> SUFFICES ASSUME Init PROVE ChangesInv
  OBVIOUS
<1>1. /\ NoCallback \in Callback /\ ~NoCallback.present /\ ~NoCallback.initial
      /\ ~NoCallback.skip
  BY DEF NoCallback, Callback
<1>2. NoNotifier.list = "none" /\ ~NoNotifier.alive /\ ~NoNotifier.hasRun
  BY DEF NoNotifier
<1>3. HistoryTypes
  BY <1>1 DEF Init, HistoryTypes
<1>4. ListInv /\ RunInv
  BY <1>2 DEF Init, ListInv, RunInv, HasRun, Working
<1>5. PackageInv
  BY DEF Init, PackageInv
<1>6. \A n \in Notifiers : CallbackInv(n)
  <2> SUFFICES ASSUME NEW n \in Notifiers PROVE CallbackInv(n)
    OBVIOUS
  <2>1. ~callback[n].present /\ ~callback[n].initial /\ ~callback[n].skip
    BY <1>1 DEF Init
  <2> QED  BY <2>1 DEF CallbackInv, PresentInv, PlaceInv, TrackedInv, DeliverInv, Tracked,
              AllInv, SkipInv
<1> QED  BY <1>3, <1>4, <1>5, <1>6 DEF ChangesInv

LEMMA NextChanges == IInv /\ ChangesInv /\ [Next]_vars => ChangesInv'
<1> SUFFICES ASSUME IInv, ChangesInv, [Next]_vars PROVE ChangesInv'
  OBVIOUS
<1>1. IInv'
  BY NextInv
<1>2. CASE UNCHANGED <<latest, realmVars, notifier, callback, helper, skipVersion, workVars,
                       history>>
  <2>1. UNCHANGED <<latest, read, at, goal, package, notifier, callback, told, suppressed,
                    missed, helper, skipVersion, workVars>>
    BY <1>2 DEF realmVars, history
  <2>2. \A n \in Notifiers : CallbackInv(n)'
    BY <2>1, StayStep DEF ChangesInv
  <2> QED
    BY <1>2, <2>1, <2>2, QuietLists DEF ChangesInv, HistoryTypes, PackageInv
<1>3. ASSUME NEW n \in Notifiers,
             Register(n) \/ AddCallback(n) \/ RemoveCallback(n) \/ Unregister(n)
      PROVE  ChangesInv'
  BY <1>3, RegisterChanges, AddChangesStep
<1>4. ASSUME NEW r \in Realms,
             \/ Notify(r) \/ StartRefresh(r) \/ BeginWrite(r) \/ EndWait(r)
             \/ Deliver(r) \/ Promote(r) \/ CancelTransaction(r)
             \/ \E ns \in (SUBSET Mine(r)) \ {{}} : SuppressNext(r, ns)
             \/ CommitWrite(r) \/ NotifyOthers(r)
      PROVE  ChangesInv'
  BY <1>4, NotifyChanges, WaitChanges, EndWaitChanges, AdvanceChanges, WritingChanges,
     CommitChanges, <1>1
<1>5. CASE OtherCommits
  BY <1>1, <1>5, CommitChanges
<1>6. CASE OtherNotifies
  BY <1>2, <1>6 DEF OtherNotifies, helperVars
<1>7. CASE Worker
  BY <1>1, <1>7, StartRunChanges, RunChanges, HandoverSkippedChanges, HandoverChanges,
     SignalChanges DEF Worker
<1>8. CASE UNCHANGED vars
  BY <1>2, <1>8 DEF vars, fileVars, helperVars
<1> QED  BY <1>3, <1>4, <1>5, <1>6, <1>7, <1>8 DEF Next

THEOREM PipelineChanges == Spec => []ChangesInv
<1>1. Init => ChangesInv
  BY InitChanges
<1>2. IInv /\ ChangesInv /\ [Next]_vars => ChangesInv'
  BY NextChanges
<1> QED  BY <1>1, <1>2, PipelineInvariant, PTL DEF Spec

\* What a callback is told was not told it before and is what its Realm is
\* going to show: for any Realms, notifiers, callbacks that come and go, and
\* commits (add_changes, package_for_delivery, deliver, after_advance).
THEOREM PipelineHearsOnce == Spec => []HearsOnce
<1>1. ChangesInv => HearsOnce
  BY DEF ChangesInv, PackageInv, CallbackInv, DeliverInv, Packed, HearsOnce, Delivering
<1> QED  BY <1>1, PipelineChanges, PTL

\* Nothing that changed is missing from what a callback is told, but for the
\* versions it was not to hear of, those the worker had run when the callback
\* was added, for which it had computed no changes (HaveCallback in Run), and
\* those skipped with a version at which the worker was to stop for it, but
\* which the commit of another Realm overwrote (SkipFor): for any Realms,
\* notifiers, callbacks that come and go, and commits (commit_write, add_changes,
\* package_for_delivery, deliver, after_advance).
THEOREM PipelineHearsAll == Spec => []HearsAll
<1>1. ChangesInv => HearsAll
  BY DEF ChangesInv, PackageInv, CallbackInv, AllInv, Packed, HearsAll, Delivering, Excused
<1> QED  BY <1>1, PipelineChanges, PTL

=============================================================================
