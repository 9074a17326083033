---------------------------- MODULE SyncSession ----------------------------
(***************************************************************************)
(* The synchronisation sessions of one Realm file and one user:            *)
(* SyncSession (sync_session.cpp), the table of SyncManager                *)
(* (sync_manager.cpp), SyncUser (sync_user.cpp) and the token handle of    *)
(* the binding (RLMSyncSessionRefreshHandle.mm).                           *)
(*                                                                         *)
(* A thread runs one section under a session's m_state_mutex as one        *)
(* action; what it does after releasing that mutex is in todo[t], a        *)
(* sequence of steps the other threads interleave with.  The mutexes of    *)
(* the manager and of the user are held over several sections and are      *)
(* variables.  The thread Loop runs the event loop of the sync client.     *)
(***************************************************************************)
EXTENDS Naturals, Sequences, Bags

CONSTANTS
    Threads,          \* threads of the application and of the binding
    Loop,             \* the thread that calls Client::run()
    Waits,            \* completion callbacks the application registers
    Policies,         \* values of SyncConfig::stop_policy to start from
    MaxSessions,      \* bound: SyncSession objects created for the path
    MaxCalls,         \* bound: calls and events from outside
    MaxVersion,       \* bound: local commits
    None

ASSUME SyncSessionAssumption ==
    /\ Loop \notin Threads
    /\ Policies \subseteq {"Immediately", "LiveIndefinitely", "AfterChangesUploaded"}
    /\ MaxSessions \in Nat \ {0} /\ MaxCalls \in Nat /\ MaxVersion \in Nat
    /\ None \notin 1..MaxSessions /\ None \notin Threads \cup {Loop}

VARIABLES
    policy,         \* m_config.stop_policy
    cancelWaits,    \* m_config.cancel_waits_on_nonfatal_error
    ses,            \* sequence of the SyncSession objects created so far
    refs,           \* holders of the current ExternalReference of each object
    registered,     \* SyncManager::m_sessions[path]: an object or None
    managerLock,    \* holder of SyncManager::m_session_mutex
    user,           \* SyncUser::m_state
    userSession,    \* SyncUser::m_sessions[path] (weak)
    waitingSession, \* SyncUser::m_waiting_sessions[path] (weak)
    userLock,       \* holder of SyncUser::m_mutex
    handle,         \* the refresh handle of the path and whether it owns its session
    ops,            \* wait operations the sync client has not completed
    version,        \* local commits
    uploaded,       \* commits the server has acknowledged
    answer,         \* the results each callback has been called with
    todo,           \* what each thread has yet to do
    aborted,        \* an assertion has failed and the process is gone
    calls           \* calls and events so far

managerVars == <<registered, managerLock>>
userVars == <<user, userSession, waitingSession, userLock>>
config == <<policy, cancelWaits>>
vars == <<config, ses, refs, managerVars, userVars, handle, ops, version,
          uploaded, answer, todo, aborted, calls>>

Directions == {"upload", "download"}
AllThreads == Threads \cup {Loop}
NewSession ==
    [state |-> "inactive", client |-> 0, made |-> 0, known |-> 0, deferred |-> 0,
     deferredClose |-> FALSE, deaths |-> 0, waits |-> [d \in Directions |-> {}]]
NoHandle == [session |-> None, strong |-> FALSE]
Step(do, s) == [do |-> do, s |-> s]

-----------------------------------------------------------------------------
(* Threads and lifetimes *)

\* A thread replaces the step it is at (none if it starts a call) by `steps'.
Then(t, steps) ==
    todo' = [todo EXCEPT ![t] = steps \o (IF @ = <<>> THEN <<>> ELSE Tail(@))]
At(t, do) == ~aborted /\ todo[t] # <<>> /\ Head(todo[t]).do = do
Session(t) == Head(todo[t]).s
Call(t) == ~aborted /\ todo[t] = <<>> /\ calls < MaxCalls /\ calls' = calls + 1

\* A shared_ptr keeps object s: the table, an external reference, the handle
\* while it is strong, or a call in progress on some thread.
Live(s) ==
    /\ s # None
    /\ \/ registered = s
       \/ refs[s] > 0
       \/ handle.session = s /\ handle.strong
       \/ \E t \in AllThreads : \E i \in DOMAIN todo[t] : todo[t][i].s = s
LiveSessions == {s \in DOMAIN ses : Live(s)}

\* A wait operation given to m_session: it ends when what the client knew of
\* then is uploaded, and carries what its handler captured.
Op(kind, s, x) ==
    [kind |-> kind, s |-> s, client |-> x.client,
     target |-> IF kind = "download" THEN 0 ELSE x.known,
     death |-> IF kind = "death" THEN x.deaths ELSE 0]
WaitOpsNone(s, x) == EmptyBag
WaitOps(s, x) == SetToBag({Op(d, s, x) : d \in {e \in Directions : x.waits[e] # {}}})

Called(s, dirs, how) ==
    [w \in Waits |-> IF \E d \in dirs : w \in ses[s].waits[d]
                     THEN Append(answer[w], how) ELSE answer[w]]
NoWaits == [d \in Directions |-> {}]

Init ==
    /\ policy \in Policies /\ cancelWaits \in BOOLEAN
    /\ ses = <<>> /\ refs = <<>>
    /\ registered = None /\ managerLock = None
    /\ user = "Active" /\ userSession = None /\ waitingSession = None /\ userLock = None
    /\ handle = NoHandle
    /\ ops = EmptyBag
    /\ version = 0 /\ uploaded = 0
    /\ answer = [w \in Waits |-> <<>>]
    /\ todo = [t \in AllThreads |-> <<>>]
    /\ aborted = FALSE /\ calls = 0

-----------------------------------------------------------------------------
(* Sections under m_state_mutex: the handlers of the four states *)

\* The section leaves session s as x, gives the client more operations and the
\* thread more steps.
Section(t, s, x, more, steps) ==
    /\ ses' = [ses EXCEPT ![s] = x]
    /\ ops' = ops (+) more
    /\ Then(t, steps)
    /\ UNCHANGED <<answer, aborted>>
Nothing(t, s) == Section(t, s, ses[s], EmptyBag, <<>>)

\* What Inactive::enter_state leaves of a session.
StoppedHalf(x) == [x EXCEPT !.state = "inactive", !.waits = NoWaits]
Stopped(x) == [x EXCEPT !.state = "inactive", !.client = 0, !.waits = NoWaits]

\* Inactive::enter_state: the callbacks are taken and will be cancelled,
\* m_session is destroyed, and unregister() runs without the mutex.
\* advance_state() asserts that the state is another one.
AdvanceInactive(t, s, rest) ==
    \/ /\ ses[s].state = "inactive"
       /\ aborted' = TRUE
       /\ UNCHANGED <<ses, ops, answer, todo>>
    \/ /\ ses[s].state # "inactive"
       /\ ses' = [ses EXCEPT ![s] = Stopped(@)]
       /\ answer' = Called(s, Directions, "cancelled")
       /\ Then(t, <<Step("unregister", s)>> \o rest)
       /\ UNCHANGED <<ops, aborted>>

\* The death is not counted.
AdvanceDyingAgain(t, s, x, more) ==
    LET y == [x EXCEPT !.state = "dying"]
    IN  Section(t, s, y, more (+) SetToBag({Op("death", s, y)}), <<>>)

\* Dying::enter_state counts the death and waits for the uploads.
AdvanceDying(t, s, x, more) ==
    LET y == [x EXCEPT !.state = "dying", !.deaths = @ + 1]
    IN  Section(t, s, y, more (+) SetToBag({Op("death", s, y)}), <<>>)

\* Active::enter_state registers the callbacks that wait.
AdvanceActive(t, s) ==
    LET x == [ses[s] EXCEPT !.state = "active"]
    IN  Section(t, s, x, WaitOps(s, x), <<>>)

\* Active::access_token_expired and Inactive::revive_if_needed.
AdvanceWaiting(t, s) ==
    Section(t, s, [ses[s] EXCEPT !.state = "waiting", !.deferredClose = FALSE],
            EmptyBag, <<Step("bind", s)>>)

\* The close() of each state.
Close(t, s) ==
    \/ /\ ses[s].state \in {"waiting", "active"} /\ policy = "Immediately"
       /\ AdvanceInactive(t, s, <<>>)
    \/ /\ ses[s].state = "waiting" /\ policy # "Immediately"
       /\ Section(t, s, [ses[s] EXCEPT !.deferredClose = TRUE], EmptyBag, <<>>)
    \/ /\ ses[s].state = "active" /\ policy = "AfterChangesUploaded"
       /\ AdvanceDying(t, s, ses[s], EmptyBag)
    \/ /\ \/ ses[s].state = "active" /\ policy = "LiveIndefinitely"
          \/ ses[s].state = "dying"
       /\ Nothing(t, s)
    \/ /\ ses[s].state = "inactive"
       /\ Section(t, s, ses[s], EmptyBag, <<Step("unregister", s)>>)

\* The log_out() of each state.
CloseNow(t, s) ==
    \/ ses[s].state # "inactive" /\ AdvanceInactive(t, s, <<>>)
    \/ ses[s].state = "inactive" /\ Nothing(t, s)

\* SyncSession::revive_if_needed
Revive(t) ==
    /\ At(t, "revive")
    /\ LET s == Session(t) IN
       \/ ses[s].state = "inactive" /\ AdvanceWaiting(t, s)
       \/ /\ ses[s].state = "waiting"
          /\ Section(t, s, [ses[s] EXCEPT !.deferredClose = FALSE], EmptyBag, <<>>)
       \/ ses[s].state = "dying" /\ AdvanceActive(t, s)
       \/ ses[s].state = "active" /\ Nothing(t, s)
    /\ UNCHANGED <<config, refs, managerVars, userVars, handle, version, uploaded, calls>>

\* SyncSession::did_drop_external_reference, from ~ExternalReference.
Dropped(t) ==
    /\ At(t, "dropped")
    /\ LET s == Session(t) IN
       \/ refs[s] > 0 /\ Nothing(t, s)
       \/ refs[s] = 0 /\ Close(t, s)
    /\ UNCHANGED <<config, refs, managerVars, userVars, handle, version, uploaded, calls>>

\* SyncSession::log_out
LogOutSession(t) ==
    /\ At(t, "logOut")
    /\ CloseNow(t, Session(t))
    /\ UNCHANGED <<config, refs, managerVars, userVars, handle, version, uploaded, calls>>

\* SyncSession::update_configuration: inactive until it stays so, then revived.
Configure(t) ==
    /\ At(t, "configure")
    /\ LET s == Session(t) IN
       \/ ses[s].state # "inactive" /\ AdvanceInactive(t, s, <<Step("configure", s)>>)
       \/ /\ ses[s].state = "inactive"
          /\ Section(t, s, ses[s], EmptyBag, <<Step("revive", s)>>)
    /\ UNCHANGED <<config, refs, managerVars, userVars, handle, version, uploaded, calls>>

-----------------------------------------------------------------------------
(* SyncManager *)

\* The end of SyncManager::get_session: its lock_guard.
UnlockManager(t) ==
    /\ At(t, "unlockManager")
    /\ managerLock' = None
    /\ Then(t, <<>>)
    /\ UNCHANGED <<config, ses, refs, registered, userVars, handle, ops, version,
                   uploaded, answer, aborted, calls>>

\* SyncManager::get_session holds the mutex to its end.  A new session is
\* referenced before it is registered with the user, an existing one after.
GetSession(t) ==
    /\ Call(t)
    /\ managerLock = None /\ managerLock' = t
    /\ \/ /\ registered # None
          /\ Then(t, <<Step("register", registered), Step("reference", registered),
                       Step("unlockManager", registered)>>)
          /\ UNCHANGED <<ses, refs, registered>>
       \/ LET s == Len(ses) + 1 IN
          /\ registered = None /\ s <= MaxSessions
          /\ ses' = Append(ses, NewSession)
          /\ refs' = Append(refs, 1)
          /\ registered' = s
          /\ Then(t, <<Step("register", s), Step("unlockManager", s)>>)
    /\ UNCHANGED <<config, userVars, handle, ops, version, uploaded, answer, aborted>>

\* SyncSession::external_reference
Reference(t) ==
    /\ At(t, "reference")
    /\ refs' = [refs EXCEPT ![Session(t)] = @ + 1]
    /\ Then(t, <<>>)
    /\ UNCHANGED <<config, ses, managerVars, userVars, handle, ops, version,
                   uploaded, answer, aborted, calls>>

\* The reference get_session has made and not yet returned.
Returning(s) ==
    /\ managerLock # None /\ todo[managerLock] # <<>> /\ Session(managerLock) = s
    /\ ~ \E i \in DOMAIN todo[managerLock] : todo[managerLock][i].do = "reference"

\* A holder lets its reference go; the last one runs ~ExternalReference.
DropReference(t) ==
    /\ Call(t)
    /\ \E s \in DOMAIN ses :
          /\ refs[s] > (IF Returning(s) THEN 1 ELSE 0)
          /\ refs' = [refs EXCEPT ![s] = @ - 1]
          /\ Then(t, IF refs[s] = 1 THEN <<Step("dropped", s)>> ELSE <<>>)
    /\ UNCHANGED <<config, ses, managerVars, userVars, handle, ops, version,
                   uploaded, answer, aborted>>

\* The external references are not looked at.
UnregisterAlways(t) ==
    /\ At(t, "unregister")
    /\ managerLock = None
    /\ aborted' = (registered = None)
    /\ registered' = None
    /\ Then(t, <<>>)
    /\ UNCHANGED <<config, ses, refs, managerLock, userVars, handle, ops, version,
                   uploaded, answer, calls>>

\* SyncManager::unregister_session, which asserts that the path has a session.
Unregister(t) ==
    /\ At(t, "unregister")
    /\ managerLock = None
    /\ \/ /\ registered = None
          /\ aborted' = TRUE
          /\ UNCHANGED <<registered, todo>>
       \/ /\ registered # None
          /\ registered' = IF refs[registered] > 0 THEN registered ELSE None
          /\ Then(t, <<>>)
          /\ UNCHANGED aborted
    /\ UNCHANGED <<config, ses, refs, managerLock, userVars, handle, ops, version,
                   uploaded, answer, calls>>

-----------------------------------------------------------------------------
(* SyncUser *)

\* SyncUser::register_session releases the user's mutex before it revives.
Register(t) ==
    /\ At(t, "register")
    /\ userLock = None
    /\ LET s == Session(t) IN
       \/ user = "Active" /\ userSession' = s /\ Then(t, <<Step("revive", s)>>)
          /\ UNCHANGED waitingSession
       \/ user = "LoggedOut" /\ waitingSession' = s /\ Then(t, <<>>) /\ UNCHANGED userSession
       \/ user = "Error" /\ Then(t, <<>>) /\ UNCHANGED <<userSession, waitingSession>>
    /\ UNCHANGED <<config, ses, refs, managerVars, user, userLock, handle, ops, version,
                   uploaded, answer, aborted, calls>>

\* SyncUser::log_out keeps its mutex while the sessions log out, and the
\* binding's logOut then invalidates the refresh handles.
LogOut(t) ==
    /\ Call(t)
    /\ userLock = None /\ user # "LoggedOut"
    /\ user' = "LoggedOut" /\ userLock' = t
    /\ Then(t, (IF Live(userSession)
                THEN <<Step("logOut", userSession), Step("endLogOut", userSession)>>
                ELSE <<Step("endLogOut", None)>>) \o <<Step("invalidateHandles", None)>>)
    /\ UNCHANGED <<config, ses, refs, managerVars, userSession, waitingSession, handle,
                   ops, version, uploaded, answer, aborted>>
EndLogOut(t) ==
    /\ At(t, "endLogOut")
    /\ userLock' = None
    /\ waitingSession' = IF Session(t) # None THEN Session(t) ELSE waitingSession
    /\ userSession' = None
    /\ Then(t, <<>>)
    /\ UNCHANGED <<config, ses, refs, managerVars, user, handle, ops, version,
                   uploaded, answer, aborted, calls>>
InvalidateHandles(t) ==
    /\ At(t, "invalidateHandles")
    /\ handle' = NoHandle
    /\ Then(t, <<>>)
    /\ UNCHANGED <<config, ses, refs, managerVars, userVars, ops, version,
                   uploaded, answer, aborted, calls>>

\* SyncUser::update_refresh_token of a user who is logged out.
LogIn(t) ==
    /\ Call(t)
    /\ userLock = None /\ user = "LoggedOut"
    /\ user' = "Active" /\ waitingSession' = None
    /\ userSession' = IF Live(waitingSession) THEN waitingSession ELSE userSession
    /\ Then(t, IF Live(waitingSession) THEN <<Step("revive", waitingSession)>> ELSE <<>>)
    /\ UNCHANGED <<config, ses, refs, managerVars, userLock, handle, ops, version,
                   uploaded, answer, aborted>>

\* SyncUser::invalidate, from handle_error.
Invalidate(t) ==
    /\ At(t, "invalidate")
    /\ userLock = None /\ user' = "Error"
    /\ Then(t, <<>>)
    /\ UNCHANGED <<config, ses, refs, managerVars, userSession, waitingSession, userLock,
                   handle, ops, version, uploaded, answer, aborted, calls>>

-----------------------------------------------------------------------------
(* The binding: tokens, suspend and resume, header changes, reconnection *)

\* bindHandler: a new handle owns the session until its token arrives and
\* replaces the handle of the path.
Bind(t) ==
    /\ At(t, "bind")
    /\ handle' = [session |-> Session(t), strong |-> TRUE]
    /\ Then(t, <<>>)
    /\ UNCHANGED <<config, ses, refs, managerVars, userVars, ops, version, uploaded,
                   answer, aborted, calls>>

\* The server answers with a token: SyncSession::refresh_access_token creates
\* and binds m_session, or refreshes it, and runs the deferred close.
TokenArrives(t) ==
    /\ Call(t)
    /\ Live(handle.session)
    /\ handle' = [handle EXCEPT !.strong = FALSE]
    /\ LET s == handle.session
           x == ses[s]
           y == [x EXCEPT !.state = "active", !.deferred = 0,
                          !.client = IF @ = 0 THEN x.made + 1 ELSE @,
                          !.made = IF x.client = 0 THEN @ + 1 ELSE @,
                          !.known = IF x.client = 0 THEN version
                                    ELSE IF x.deferred > 0 THEN x.deferred ELSE @]
       IN  \/ /\ x.state = "waiting"
              /\ x.deferredClose /\ policy = "AfterChangesUploaded"
              /\ AdvanceDying(t, s, y, WaitOps(s, y))
           \/ /\ x.state = "waiting"
              /\ ~(x.deferredClose /\ policy = "AfterChangesUploaded")
              /\ Section(t, s, y, WaitOps(s, y), <<>>)
           \/ x.state # "waiting" /\ Nothing(t, s)
    /\ UNCHANGED <<config, refs, managerVars, userVars, version, uploaded>>

\* The request fails: a network error gives up ownership and tries again, an
\* answer that makes no sense, or a dead session, ends the handle, any other
\* error also logs out the session the handle still owns.
TokenFails(t) ==
    /\ Call(t)
    /\ handle.session # None
    /\ \/ handle' = [handle EXCEPT !.strong = FALSE] /\ Then(t, <<>>)
       \/ handle' = NoHandle /\ Then(t, <<>>)
       \/ /\ handle' = NoHandle
          /\ Then(t, IF handle.strong THEN <<Step("logOut", handle.session)>> ELSE <<>>)
    /\ UNCHANGED <<config, ses, refs, managerVars, userVars, ops, version, uploaded,
                   answer, aborted>>

\* RLMSyncSession's suspend and resume, and a change of the request headers.
CallSession(t) ==
    /\ Call(t)
    /\ \/ \E s \in LiveSessions, do \in {"logOut", "revive"} : Then(t, <<Step(do, s)>>)
       \/ /\ user = "Active" /\ userLock = None /\ Live(userSession)
          /\ Then(t, <<Step("configure", userSession)>>)
    /\ UNCHANGED <<config, ses, refs, managerVars, userVars, handle, ops, version,
                   uploaded, answer, aborted>>

\* SyncManager::reconnect: a session that waits for its token asks again.
Reconnect(t) ==
    /\ Call(t)
    /\ managerLock = None /\ registered # None
    /\ ses[registered].state = "waiting"
    /\ handle' = [session |-> registered, strong |-> TRUE]
    /\ UNCHANGED <<config, ses, refs, managerVars, userVars, ops, version, uploaded,
                   answer, todo, aborted>>

\* SyncSession::wait_for_upload_completion and wait_for_download_completion:
\* the client is asked only if no callback is waiting yet.
WaitFor(t) ==
    /\ Call(t)
    /\ \E s \in LiveSessions, w \in Waits, d \in Directions :
          LET x == ses[s]
              running == x.state \in {"active", "dying"} /\ x.waits[d] = {}
          IN  /\ answer[w] = <<>> /\ \A r \in DOMAIN ses, e \in Directions : w \notin ses[r].waits[e]
              /\ Section(t, s, [x EXCEPT !.waits[d] = @ \cup {w}],
                         IF running THEN SetToBag({Op(d, s, x)}) ELSE EmptyBag, <<>>)
    /\ UNCHANGED <<config, refs, managerVars, userVars, handle, version, uploaded>>

\* A write transaction and SyncSession::nonsync_transact_notify: told at once,
\* kept until the token arrives, or dropped.
Commit(t) ==
    /\ Call(t)
    /\ version < MaxVersion /\ version' = version + 1
    /\ \E s \in DOMAIN ses :
          LET x == ses[s] IN
          /\ refs[s] > 0
          /\ Section(t, s, [x EXCEPT
                !.known = IF x.state = "active" THEN version' ELSE @,
                !.deferred = IF x.state = "waiting" THEN version' ELSE @], EmptyBag, <<>>)
    /\ UNCHANGED <<config, refs, managerVars, userVars, handle, uploaded>>

-----------------------------------------------------------------------------
(* The event loop of the sync client *)

\* A connected session uploads what it knows of, or more.
Upload ==
    /\ ~aborted
    /\ \E s \in LiveSessions : ses[s].client # 0
    /\ uploaded < version /\ uploaded' = uploaded + 1
    /\ UNCHANGED <<config, ses, refs, managerVars, userVars, handle, ops, version,
                   answer, todo, aborted, calls>>

\* The client calls the handler of an operation that is complete or whose
\* session has been destroyed.
CompleteWait ==
    /\ ~aborted /\ todo[Loop] = <<>>
    /\ \E op \in BagToSet(ops) :
          LET x == ses[op.s]
              gone == ~Live(op.s) \/ x.client # op.client
          IN  /\ gone \/ uploaded >= op.target
              /\ ops' = ops (-) SetToBag({op})
              /\ \/ /\ op.kind \in Directions /\ Live(op.s)
                    /\ ses' = [ses EXCEPT ![op.s].waits[op.kind] = {}]
                    /\ answer' = Called(op.s, {op.kind}, IF gone THEN "cancelled" ELSE "ok")
                    /\ UNCHANGED <<todo, aborted>>
                 \/ /\ op.kind = "death" /\ Live(op.s)
                    /\ x.state = "dying" /\ x.deaths = op.death
                    /\ ses' = [ses EXCEPT ![op.s] = Stopped(@)]
                    /\ answer' = Called(op.s, Directions, "cancelled")
                    /\ Then(Loop, <<Step("unregister", op.s)>>)
                    /\ UNCHANGED aborted
                 \/ /\ \/ ~Live(op.s)
                       \/ op.kind = "death" /\ ~(x.state = "dying" /\ x.deaths = op.death)
                    /\ UNCHANGED <<ses, answer, todo, aborted>>
    /\ UNCHANGED <<config, refs, managerVars, userVars, handle, version, uploaded, calls>>

\* The kinds of error handle_error tells apart.
Fatal == {"closeFile", "otherFatal", "authentication"}
Errors == Fatal \cup {"tokenExpired", "nonfatal"}

\* SyncSession::handle_error, first section: a dying session takes the error.
ReceiveError ==
    /\ Call(Loop)
    /\ \E s \in LiveSessions, kind \in Errors :
          /\ ses[s].client # 0
          /\ \/ ses[s].state = "dying" /\ kind \in Fatal /\ AdvanceInactive(Loop, s, <<>>)
             \/ ses[s].state = "dying" /\ kind \notin Fatal /\ Nothing(Loop, s)
             \/ /\ ses[s].state # "dying"
                /\ Section(Loop, s, ses[s], EmptyBag, <<Step(kind, s)>>)
    /\ UNCHANGED <<config, refs, managerVars, userVars, handle, version, uploaded>>

\* The callbacks are copied, not moved.
CancelCopies(s, steps) ==
    /\ answer' = Called(s, Directions, "failed")
    /\ Then(Loop, steps)
    /\ UNCHANGED <<ses, ops, aborted>>

\* cancel_pending_waits
CancelWaits(s, steps) ==
    /\ ses' = [ses EXCEPT ![s].waits = NoWaits]
    /\ answer' = Called(s, Directions, "failed")
    /\ Then(Loop, steps)
    /\ UNCHANGED <<ops, aborted>>

\* handle_error, second section: the state may have changed since the first.
HandleError ==
    /\ \E kind \in Errors : At(Loop, kind)
    /\ LET s == Session(Loop) IN
       \/ At(Loop, "tokenExpired") /\ ses[s].state = "active" /\ AdvanceWaiting(Loop, s)
       \/ At(Loop, "tokenExpired") /\ ses[s].state # "active" /\ Nothing(Loop, s)
       \/ At(Loop, "authentication")
          /\ CancelWaits(s, <<Step("invalidate", s), Step("nonfatal", s)>>)
       \/ At(Loop, "closeFile") /\ AdvanceInactive(Loop, s, <<>>)
       \/ At(Loop, "otherFatal") /\ CancelWaits(s, <<>>)
       \/ At(Loop, "nonfatal") /\ cancelWaits /\ CancelWaits(s, <<>>)
       \/ At(Loop, "nonfatal") /\ ~cancelWaits /\ Nothing(Loop, s)
    /\ UNCHANGED <<config, refs, managerVars, userVars, handle, version, uploaded, calls>>

Next ==
    \/ \E t \in AllThreads :
          \/ Revive(t) \/ Dropped(t) \/ LogOutSession(t) \/ Configure(t)
          \/ UnlockManager(t) \/ Reference(t) \/ Unregister(t) \/ Register(t)
          \/ EndLogOut(t) \/ InvalidateHandles(t) \/ Invalidate(t) \/ Bind(t)
    \/ \E t \in Threads :
          \/ GetSession(t) \/ DropReference(t) \/ LogOut(t) \/ LogIn(t)
          \/ TokenArrives(t) \/ TokenFails(t) \/ CallSession(t) \/ Reconnect(t)
          \/ WaitFor(t) \/ Commit(t)
    \/ Upload \/ CompleteWait \/ ReceiveError \/ HandleError

Spec == Init /\ [][Next]_vars

-----------------------------------------------------------------------------
(* Properties *)

TypeOK ==
    /\ Len(ses) <= MaxSessions /\ DOMAIN refs = DOMAIN ses
    /\ \A s \in DOMAIN ses :
          /\ refs[s] \in Nat
          /\ ses[s] \in [state : {"waiting", "active", "dying", "inactive"}, client : Nat,
                         made : Nat, known : 0..MaxVersion, deferred : 0..MaxVersion,
                         deferredClose : BOOLEAN, deaths : Nat,
                         waits : [Directions -> SUBSET Waits]]
    /\ registered \in DOMAIN ses \cup {None}
    /\ {userSession, waitingSession, handle.session} \subseteq DOMAIN ses \cup {None}
    /\ {managerLock, userLock} \subseteq AllThreads \cup {None}
    /\ user \in {"Active", "LoggedOut", "Error"}
    /\ uploaded \in 0..version /\ version \in 0..MaxVersion

Running(s) == ses[s].state \in {"active", "dying"}

\* A completion callback is called once at most, although the handler of a wait
\* operation, an error, a log out, a last upload and a new configuration all
\* call the callbacks that wait, on different threads.
AnsweredOnce == \A w \in Waits : Len(answer[w]) <= 1

\* No waiting callback is forgotten: while a session runs, the m_session it has
\* now still owes it the end of a wait operation in each direction in which
\* callbacks wait, whatever revivals, expired tokens and cancelled waits came
\* before (sync_session.cpp:213-221, 848-862).
WaitIsRegistered ==
    \A s \in LiveSessions, d \in Directions :
        Running(s) /\ ses[s].waits[d] # {} =>
            \E op \in BagToSet(ops) : op.kind = d /\ op.s = s /\ op.client = ses[s].client

\* The handlers of the running states use m_session without looking: it is
\* there, and an inactive session has let go of it (sync_session.cpp:272, 337, 954).
RunningHasClient ==
    \A s \in DOMAIN ses : /\ Running(s) => ses[s].client # 0
                         /\ ses[s].state = "inactive" => ses[s].client = 0

\* Whoever holds an external reference holds the object in the manager's table,
\* so that the next get_session for the path shares it instead of starting a
\* second session, although objects are unregistered by path and after their
\* mutex is released (sync_manager.cpp:489-502).
ReferencedIsRegistered == \A s \in DOMAIN ses : refs[s] > 0 => registered = s

\* A dying session that ends because its uploads are complete has uploaded all
\* the client knew of when it last began to die, not at an earlier death it was
\* revived from (sync_session.cpp:299-309).
DyingUploadsAll ==
    [][\A s \in DOMAIN ses :
          ses[s].state = "dying" /\ ses'[s].state = "inactive" /\ ops' # ops
              => uploaded >= ses[s].known]_vars

\* No assertion of sync_session.cpp:769 or sync_manager.cpp:493 fails.
NeverAborts == ~aborted
=============================================================================
