--------------------------- MODULE NotifierCallbacks ---------------------------
(***************************************************************************)
(* The callbacks of one CollectionNotifier of the Realm object store       *)
(* (Pods/Realm/Realm/ObjectStore/src/impl/collection_notifier.cpp).        *)
(*                                                                         *)
(* The thread of the Realm adds callbacks, packages the notifier and loops *)
(* over the callbacks in for_each_callback; the worker adds the changes of *)
(* each version; any thread removes callbacks.  All of them take           *)
(* m_callback_mutex, but the loop releases it while user code runs, and    *)
(* user code may add and remove callbacks.  The loop survives that through *)
(* m_callback_index and m_callback_count, which remove_callback adjusts.   *)
(*                                                                         *)
(* size_t is modelled by Int, a negative number standing for its value     *)
(* modulo 2^64; npos, here noIndex, is -1.  A change set is the set of the *)
(* versions whose changes it holds.                                        *)
(***************************************************************************)
EXTENDS Integers, Sequences, FiniteSets, SequencesExt

CONSTANTS
    MaxTokens,      \* bound: callbacks ever added
    MaxVersion      \* bound: versions the worker has changes for

ASSUME CallbackAssumption == MaxTokens \in Nat /\ MaxVersion \in Nat

noIndex == -1  \* npos
Tokens  == 0 .. MaxTokens - 1
Version == 1 .. MaxVersion
Callback == [token : Tokens, accumulated : SUBSET Version,
             deliver : SUBSET Version, initial : BOOLEAN, skip : BOOLEAN]

VARIABLES
    callbacks,      \* m_callbacks
    index,          \* m_callback_index
    count,          \* m_callback_count
    nextToken,      \* m_next_token
    have,           \* m_have_callbacks
    error,          \* m_error
    held,           \* whether the loop holds m_callback_mutex
    at,             \* where the thread of the Realm is
    pass,           \* the loop it runs: "before", "after" or "error"
    current,        \* token of the callback whose user code runs
    version,        \* the last version the worker has changes for
    packaged,       \* history: the tokens present when packaged
    uncounted,      \* history: callbacks added after packaging that were
                    \* removed before the delivery ended
    called,         \* history: the tokens called in this pass, in order
    missed,         \* history: packaged callbacks a pass ended before
    due,            \* history: per token, the versions it is to hear of
    got             \* history: per token, the versions it heard of

shared  == <<callbacks, index, count, nextToken, have, error>>
history == <<packaged, uncounted, called, missed, due, got>>
vars    == <<shared, held, at, pass, current, version, history>>

Present == {callbacks[i].token : i \in DOMAIN callbacks}
Position(t) == CHOOSE i \in DOMAIN callbacks : callbacks[i].token = t
Delivering == at # "idle"

Init ==
    /\ callbacks = <<>> /\ index = noIndex /\ count = noIndex /\ nextToken = 0
    /\ have = FALSE /\ error = FALSE
    /\ held = FALSE /\ at = "idle" /\ pass = "after" /\ current = noIndex
    /\ version = 0
    /\ packaged = {} /\ uncounted = 0 /\ called = <<>> /\ missed = {}
    /\ due = [t \in Tokens |-> {}] /\ got = [t \in Tokens |-> {}]

-----------------------------------------------------------------------------
(* add_callback, on the thread of the Realm, in user code or outside of a  *)
(* delivery.  The worker is woken only when no loop is running.            *)
AddCallback ==
    /\ ~held /\ at \in {"idle", "user"} /\ nextToken \in Tokens
    /\ callbacks' = Append(callbacks,
           [token |-> nextToken, accumulated |-> {}, deliver |-> {},
            initial |-> FALSE, skip |-> FALSE])
    /\ nextToken' = nextToken + 1
    /\ have' = (index = noIndex \/ have)
    /\ UNCHANGED <<index, count, error, held, at, pass, current, version,
                   history>>

(* A loop in progress has one callback less before it, if the one removed  *)
(* was called already.                                                     *)
IndexPast(idx) ==       \* a bug: the callback that removes itself is missed
    IF index # noIndex /\ index > idx THEN index - 1 ELSE index
IndexAfter(idx) == IF index # noIndex /\ index >= idx THEN index - 1 ELSE index

CountKept  == count     \* a bug: the count is left to the next package
CountAfter == count - 1

(* What remove_callback does under the lock: the count goes down for a     *)
(* callback that was added after packaging, too.                           *)
Erase(t) ==
    LET idx == Position(t) - 1
    IN  /\ index' = IndexAfter(idx)
        /\ count' = CountAfter
        /\ callbacks' = RemoveAt(callbacks, idx + 1)
        /\ have' = (callbacks' # <<>>)
        /\ uncounted' = IF Delivering /\ t \notin packaged
                        THEN uncounted + 1 ELSE uncounted
        /\ UNCHANGED <<nextToken, error, packaged, called, missed, due, got>>

RemoveCallback(t) ==
    /\ ~held
    /\ Erase(t)
    /\ UNCHANGED <<held, at, pass, current, version>>

(* suppress_next_notification, in a write transaction: everything before   *)
(* it has been delivered.                                                  *)
SuppressNext(t) ==
    LET i == Position(t)
    IN  /\ ~held /\ at = "idle"
        /\ callbacks[i].accumulated = {}
        /\ callbacks' = [callbacks EXCEPT ![i].skip = TRUE]
        /\ UNCHANGED <<index, count, nextToken, have, error, held, at, pass,
                       current, version, history>>

AccumulateLast(cb, changes) ==      \* a bug: assigned, not merged
    IF cb.skip THEN [cb EXCEPT !.skip = FALSE]
               ELSE [cb EXCEPT !.accumulated = changes]
Accumulate(cb, changes) ==
    IF cb.skip THEN [cb EXCEPT !.skip = FALSE]
               ELSE [cb EXCEPT !.accumulated = @ \cup changes]

(* add_changes, on the worker: the changes of a new version, if there are  *)
(* any for this collection, go to every callback that does not skip them.  *)
AddChanges ==
    /\ ~held /\ ~error /\ version < MaxVersion
    /\ version' = version + 1
    /\ \E changes \in {{}, {version'}} :
          /\ callbacks' = [i \in DOMAIN callbacks |->
                               Accumulate(callbacks[i], changes)]
          /\ due' = [t \in Tokens |->
                 IF \E i \in DOMAIN callbacks :
                       callbacks[i].token = t /\ ~callbacks[i].skip
                 THEN due[t] \cup changes ELSE due[t]]
    /\ UNCHANGED <<index, count, nextToken, have, error, held, at, pass,
                   current, packaged, uncounted, called, missed, got>>

(* package_for_delivery                                                    *)
Package ==
    /\ ~held /\ at = "idle" /\ ~error
    /\ callbacks' = [i \in DOMAIN callbacks |->
           [callbacks[i] EXCEPT !.deliver = callbacks[i].accumulated,
                                !.accumulated = {}]]
    /\ count' = Len(callbacks)
    /\ packaged' = Present /\ uncounted' = 0 /\ called' = <<>>
    /\ at' = "packaged"
    /\ UNCHANGED <<index, nextToken, have, error, held, pass, current, version,
                   missed, due, got>>

-----------------------------------------------------------------------------
(* for_each_callback                                                       *)

(* It is entered for before_advance, if the Realm is going to advance, and *)
(* for after_advance.                                                      *)
StartLoop(p) ==
    /\ ~held
    /\ \/ at = "packaged" /\ p \in {"before", "after"}
       \/ at = "advanced" /\ p = "after"
    /\ pass' = p
    /\ called' = <<>>
    /\ held' = TRUE /\ at' = "loop"
    /\ UNCHANGED <<shared, current, version, packaged, uncounted, missed, due,
                   got>>

(* deliver_error: an error takes the place of every later delivery.        *)
DeliverError ==
    /\ ~held /\ at = "idle" /\ ~error
    /\ error' = TRUE
    /\ count' = Len(callbacks)
    /\ packaged' = Present /\ uncounted' = 0
    /\ pass' = "error" /\ called' = <<>>
    /\ held' = TRUE /\ at' = "loop"
    /\ UNCHANGED <<callbacks, index, nextToken, have, current, version, missed,
                   due, got>>

(* m_callback_index < m_callback_count, a comparison of size_t             *)
InLoopAll(i) == i < Len(callbacks)  \* a bug: the loop runs over m_callbacks
InLoopShort(i) == count < 0 \/ i + 1 < count    \* a bug: one turn too few
InLoop(i) == count < 0 \/ i < count

(* The early returns of the two lambdas.                                   *)
NothingToSay(cb) ==
    \/ pass = "before" /\ cb.deliver = {}
    \/ pass = "after" /\ cb.initial /\ cb.deliver = {}

(* The lambda reads the callback and releases the lock to call it.         *)
Call(i) ==
    /\ callbacks' = IF pass = "after"
                    THEN [callbacks EXCEPT ![i + 1].initial = TRUE,
                                           ![i + 1].deliver = {}]
                    ELSE callbacks
    /\ got' = IF pass = "after"
              THEN [got EXCEPT ![callbacks[i + 1].token] =
                                   @ \cup callbacks[i + 1].deliver]
              ELSE got
    /\ called' = Append(called, callbacks[i + 1].token)
    /\ current' = callbacks[i + 1].token
    /\ held' = FALSE /\ at' = "user"

(* The packaged callbacks from m_callback_index on.                        *)
Behind == {callbacks[j].token : j \in {k \in DOMAIN callbacks : k > index + 1}}
              \cap packaged

(* One turn of the loop, from ++m_callback_index on.  Reading m_callbacks  *)
(* past its end is undefined; the model stops there.                       *)
Iterate ==
    /\ at = "loop"
    /\ LET i == index + 1
       IN  \/ /\ ~InLoop(i)
              /\ index' = noIndex
              /\ held' = FALSE
              /\ at' = IF pass = "before" THEN "advanced" ELSE "idle"
              /\ missed' = IF pass = "before" THEN missed ELSE missed \cup Behind
              /\ UNCHANGED <<callbacks, current, called, got>>
           \/ /\ InLoop(i) /\ i >= Len(callbacks)
              /\ at' = "undefined"
              /\ UNCHANGED <<callbacks, index, held, current, called, missed,
                             got>>
           \/ /\ InLoop(i) /\ i < Len(callbacks)
              /\ index' = i
              /\ IF NothingToSay(callbacks[i + 1])
                 THEN UNCHANGED <<callbacks, held, at, current, called, got>>
                 ELSE Call(i)
              /\ UNCHANGED missed
    /\ UNCHANGED <<count, nextToken, have, error, pass, version, packaged,
                   uncounted, due>>

(* The user code returns; deliver_error then removes the callback, if it   *)
(* is still there.                                                         *)
Return ==
    /\ at = "user" /\ ~held
    /\ IF pass = "error"
       THEN at' = "remove" /\ UNCHANGED held
       ELSE at' = "loop" /\ held' = TRUE
    /\ UNCHANGED <<shared, pass, current, version, history>>

RemoveAfterError ==
    /\ at = "remove" /\ ~held
    /\ IF current \in Present
       THEN Erase(current)
       ELSE UNCHANGED <<shared, history>>
    /\ at' = "loop" /\ held' = TRUE
    /\ UNCHANGED <<pass, current, version>>

Next ==
    \/ AddCallback
    \/ \E t \in Present : RemoveCallback(t)
    \/ \E t \in Present : SuppressNext(t)
    \/ AddChanges
    \/ Package
    \/ \E p \in {"before", "after"} : StartLoop(p)
    \/ DeliverError
    \/ Iterate
    \/ Return
    \/ RemoveAfterError

Spec == Init /\ [][Next]_vars

-----------------------------------------------------------------------------
TypeOK ==
    /\ callbacks \in Seq(Callback)
    /\ index \in Int /\ index >= noIndex
    /\ count \in Int
    /\ nextToken \in 0 .. MaxTokens
    /\ have \in BOOLEAN /\ error \in BOOLEAN /\ held \in BOOLEAN
    /\ at \in {"idle", "packaged", "loop", "user", "advanced", "remove",
               "undefined"}
    /\ pass \in {"before", "after", "error"}
    /\ current \in Tokens \cup {noIndex}
    /\ version \in 0 .. MaxVersion
    /\ packaged \subseteq Tokens /\ uncounted \in Nat
    /\ called \in Seq(Tokens) /\ missed \subseteq Tokens
    /\ due \in [Tokens -> SUBSET Version] /\ got \in [Tokens -> SUBSET Version]

(* m_have_callbacks is read without the lock to decide whether the worker  *)
(* computes changes at all.  add_callback sets it only when no loop runs,  *)
(* remove_callback clears it with the last callback: still it is never     *)
(* FALSE while there is a callback, because removing the last one inside a *)
(* loop takes the index back to noIndex.                                   *)
HaveIsExact == have <=> callbacks # <<>>

(* m_callback_count falls short of the packaged callbacks that are still   *)
(* there by one for every callback that was added after packaging and      *)
(* removed before the delivery ended, and by nothing else.                 *)
CountLacksUncounted ==
    Delivering => count = Cardinality(packaged \cap Present) - uncounted

(* The count has wrapped: more callbacks that it never counted were        *)
(* removed than counted ones are left.                                     *)
Wrapped == uncounted > Cardinality(packaged \cap Present)

(* The loop reads m_callbacks past its end in that case only.              *)
LoopStaysInside == at = "undefined" => Wrapped

(* Whatever is added and removed while user code runs, a pass calls no     *)
(* callback twice and calls them in order; it calls one that was added     *)
(* after packaging only if the count has wrapped.                          *)
CalledOnce ==
    /\ \A i, j \in DOMAIN called : i < j => called[i] < called[j]
    /\ Delivering => ToSet(called) \subseteq packaged \/ Wrapped

(* The changes of a version a live callback is to hear of are where the    *)
(* next pass finds them until they are delivered, and are delivered once,  *)
(* unless a pass has missed the callback.                                  *)
NoChangeIsLost ==
    \A i \in DOMAIN callbacks :
        LET cb == callbacks[i]
        IN  /\ ~error /\ cb.token \notin missed =>
                   due[cb.token] = got[cb.token] \cup cb.deliver \cup cb.accumulated
            /\ got[cb.token] \cap (cb.deliver \cup cb.accumulated) = {}

(* A pass misses at most one packaged callback for each uncounted one that *)
(* was removed, and none if nobody removes one added during the delivery.  *)
MissedForRemoved == [][Cardinality(missed' \ missed) <= uncounted]_vars

-----------------------------------------------------------------------------
(* What the header says of m_callback_count and the code does not keep.    *)

(* "The number of callbacks which were present when the notifier was       *)
(* packaged for delivery which are still present."                         *)
CountIsPackagedStillPresent ==
    Delivering => count = Cardinality(packaged \cap Present)
=============================================================================
