----------------------- MODULE NotifierCallbacks_proofs -----------------------
(***************************************************************************)
(* Proofs about NotifierCallbacks for any number of callbacks and          *)
(* versions and any clients: first of m_callback_index and                 *)
(* m_have_callbacks, then of the loop and m_callback_count, which also     *)
(* goes down for callbacks it never counted.                               *)
(***************************************************************************)
EXTENDS NotifierCallbacks, SeqLemmas, FiniteSetTheorems, FunctionTheorems, TLAPS

-----------------------------------------------------------------------------
(* The invariants *)

InPass  == at \in {"loop", "user", "remove"}
Outside == at \in {"idle", "packaged", "advanced"}

\* The index stays below the number of callbacks, so that removing the last
\* callback takes it back to noIndex.
IndexInv == index < Len(callbacks) /\ (Outside => index = noIndex)

BaseInv == TypeOK /\ IndexInv /\ HaveIsExact

\* Tokens ascend, and none is reused.
TokenInv ==
  /\ \A i, j \in DOMAIN callbacks : i < j => callbacks[i].token < callbacks[j].token
  /\ \A i \in DOMAIN callbacks : callbacks[i].token < nextToken
  /\ \A t \in packaged : t < nextToken
  /\ \A k \in DOMAIN called : called[k] < nextToken

\* How many packaged callbacks are left, which are the first ones.
Boundary == count + uncounted
CountInv == Delivering =>
  /\ Boundary \in 0 .. Len(callbacks)
  /\ \A i \in DOMAIN callbacks : callbacks[i].token \in packaged <=> i <= Boundary

\* Past the end of m_callbacks the loop gets with a negative count only.
StopInv == at = "undefined" => count < 0

\* The callbacks behind the index are behind those that were called.
CallInv ==
  /\ \A i, j \in DOMAIN called : i < j => called[i] < called[j]
  /\ Delivering /\ count >= 0 => \A k \in DOMAIN called : called[k] \in packaged
  /\ InPass => \A k \in DOMAIN called, i \in DOMAIN callbacks :
                  i > index + 1 => called[k] < callbacks[i].token

\* Each change is in one place, or the callback was missed, and a token not yet
\* given has none.
ChangeInv ==
  /\ \A i \in DOMAIN callbacks :
        LET cb == callbacks[i]
        IN  /\ got[cb.token] \cup cb.deliver \cup cb.accumulated \subseteq due[cb.token]
            /\ cb.token \notin missed =>
                  due[cb.token] = got[cb.token] \cup cb.deliver \cup cb.accumulated
            /\ got[cb.token] \cap (cb.deliver \cup cb.accumulated) = {}
            /\ cb.deliver \cap cb.accumulated = {}
  /\ \A t \in Tokens : /\ due[t] \subseteq 1 .. version /\ got[t] \subseteq 1 .. version
                       /\ t >= nextToken => due[t] = {} /\ got[t] = {}

\* What a pass has delivered, and what was not packaged, is not delivered later.
Spent(i) == \/ at = "idle" /\ callbacks[i].token \notin missed
            \/ InPass /\ pass = "error" /\ callbacks[i].token \notin missed
            \/ Delivering /\ i > Boundary
            \/ InPass /\ pass = "after" /\ i <= index + 1
DeliverInv == \A i \in DOMAIN callbacks : Spent(i) => callbacks[i].deliver = {}

LoopInv == StopInv /\ TokenInv /\ CountInv /\ CallInv /\ ChangeInv /\ DeliverInv

-----------------------------------------------------------------------------
(* Sequences of callbacks *)

LEMMA CallbacksAre ==
  ASSUME TypeOK
  PROVE  /\ Len(callbacks) \in Nat /\ DOMAIN callbacks = 1 .. Len(callbacks)
         /\ (callbacks = <<>> <=> Len(callbacks) = 0)
         /\ \A i \in DOMAIN callbacks :
               callbacks[i] \in Callback /\ callbacks[i].token \in Tokens
<1>1. callbacks \in Seq(Callback)
  BY DEF TypeOK
<1>2. /\ Len(callbacks) \in Nat /\ DOMAIN callbacks = 1 .. Len(callbacks)
      /\ (callbacks = <<>> <=> Len(callbacks) = 0)
  BY <1>1, SeqLen
<1>3. \A i \in DOMAIN callbacks : callbacks[i] \in Callback
  BY <1>1, <1>2, ElementOfSeq
<1> QED  BY <1>2, <1>3 DEF Callback

\* A callback found by its token.
LEMMA Found ==
  ASSUME TypeOK, NEW t \in Present
  PROVE  Position(t) \in DOMAIN callbacks /\ callbacks[Position(t)].token = t
BY DEF Present, Position

\* remove_callback takes one callback out and those behind it move up.
LEMMA Erased ==
  ASSUME TypeOK, NEW t \in Present, Erase(t)
  PROVE  LET p == Position(t)
         IN  /\ callbacks' \in Seq(Callback) /\ p \in 1 .. Len(callbacks)
             /\ callbacks[p].token = t
             /\ Len(callbacks') = Len(callbacks) - 1
             /\ \A j \in 1 .. Len(callbacks) - 1 :
                   callbacks'[j] = IF j < p THEN callbacks[j] ELSE callbacks[j + 1]
             /\ index' = IF index # noIndex /\ index >= p - 1 THEN index - 1 ELSE index
             /\ count' = count - 1 /\ have' = (callbacks' # <<>>)
             /\ nextToken' = nextToken /\ error' = error
             /\ uncounted' = IF Delivering /\ t \notin packaged
                             THEN uncounted + 1 ELSE uncounted
             /\ UNCHANGED <<packaged, called, missed, due, got>>
<1> DEFINE p == Position(t)
<1>1. p \in DOMAIN callbacks /\ callbacks[p].token = t
  BY Found
<1>2. DOMAIN callbacks = 1 .. Len(callbacks) /\ Len(callbacks) \in Nat
  BY CallbacksAre
<1>3. callbacks \in Seq(Callback)
  BY DEF TypeOK
<1>4. callbacks' = RemoveAt(callbacks, p)
  <2>1. (p - 1) + 1 = p
    BY <1>1, <1>2
  <2>2. callbacks' = RemoveAt(callbacks, (p - 1) + 1)
    BY DEF Erase
  <2> QED  BY <2>1, <2>2
<1>5. /\ index' = IF index # noIndex /\ index >= p - 1 THEN index - 1 ELSE index
      /\ count' = count - 1 /\ have' = (callbacks' # <<>>)
      /\ nextToken' = nextToken /\ error' = error
      /\ uncounted' = IF Delivering /\ t \notin packaged THEN uncounted + 1 ELSE uncounted
      /\ UNCHANGED <<packaged, called, missed, due, got>>
  BY DEF Erase, IndexAfter, CountAfter
<1> HIDE DEF p
<1>6. /\ callbacks' \in Seq(Callback) /\ Len(callbacks') = Len(callbacks) - 1
      /\ \A j \in 1 .. Len(callbacks) - 1 :
            callbacks'[j] = IF j < p THEN callbacks[j] ELSE callbacks[j + 1]
  BY <1>1, <1>3, <1>4, RemoveAtSeq
<1>7. p \in 1 .. Len(callbacks)
  BY <1>1, <1>2
<1> QED  BY <1>1, <1>5, <1>6, <1>7 DEF p

\* One callback more, at the end.
LEMMA Added ==
  ASSUME TypeOK, AddCallback
  PROVE  /\ callbacks' \in Seq(Callback) /\ Len(callbacks') = Len(callbacks) + 1
         /\ \A j \in 1 .. Len(callbacks) : callbacks'[j] = callbacks[j]
         /\ LET cb == callbacks'[Len(callbacks) + 1]
            IN  cb.token = nextToken /\ cb.deliver = {} /\ cb.accumulated = {}
<1> DEFINE new == [token |-> nextToken, accumulated |-> {}, deliver |-> {},
                   initial |-> FALSE, skip |-> FALSE]
<1>1. new \in Callback
  BY DEF Callback, AddCallback
<1>2. callbacks' = Append(callbacks, new) /\ callbacks \in Seq(Callback)
  BY DEF AddCallback, TypeOK
<1>3. new.token = nextToken /\ new.deliver = {} /\ new.accumulated = {}
  OBVIOUS
<1> HIDE DEF new
<1>4. /\ callbacks' \in Seq(Callback) /\ Len(callbacks') = Len(callbacks) + 1
      /\ \A j \in 1 .. Len(callbacks) : callbacks'[j] = callbacks[j]
      /\ callbacks'[Len(callbacks) + 1] = new
  BY <1>1, <1>2, AppendProperties
<1> QED  BY <1>3, <1>4

-----------------------------------------------------------------------------
(* The index and m_have_callbacks *)

\* Steps that leave the index and the places of the callbacks alone.
LEMMA BaseStep ==
  ASSUME BaseInv, TypeOK', Len(callbacks') = Len(callbacks),
         UNCHANGED <<index, have>>, Outside' => Outside
  PROVE  BaseInv'
<1>1. callbacks = <<>> <=> callbacks' = <<>>
  <2>1. callbacks \in Seq(Callback) /\ callbacks' \in Seq(Callback)
    BY DEF TypeOK, BaseInv
  <2> QED  BY <2>1, SeqLen
<1> QED  BY <1>1 DEF BaseInv, IndexInv, HaveIsExact

LEMMA BaseErase ==
  ASSUME BaseInv, NEW t \in Present, Erase(t), Outside' => Outside,
         at' \in {"idle", "packaged", "loop", "user", "advanced", "remove", "undefined"},
         held' \in BOOLEAN, UNCHANGED <<pass, current, version>>
  PROVE  BaseInv'
<1> DEFINE p == Position(t)
<1>1. TypeOK /\ index < Len(callbacks)
  BY DEF BaseInv, IndexInv
<1>2. /\ callbacks' \in Seq(Callback) /\ p \in 1 .. Len(callbacks)
      /\ Len(callbacks') = Len(callbacks) - 1
      /\ index' = IF index # noIndex /\ index >= p - 1 THEN index - 1 ELSE index
      /\ count' = count - 1 /\ have' = (callbacks' # <<>>)
      /\ nextToken' = nextToken /\ error' = error
      /\ uncounted' = IF Delivering /\ t \notin packaged THEN uncounted + 1 ELSE uncounted
      /\ UNCHANGED <<packaged, called, missed, due, got>>
  BY <1>1, Erased
<1> HIDE DEF p
<1>3. /\ index \in Int /\ index >= noIndex /\ Len(callbacks) \in Nat /\ count \in Int
  BY <1>1, CallbacksAre DEF TypeOK
<1>4. /\ index' \in Int /\ index' >= noIndex /\ index' < Len(callbacks')
      /\ index = noIndex => index' = noIndex
  BY <1>1, <1>2, <1>3 DEF noIndex
<1>5. TypeOK'
  <2>1. callbacks' \in Seq(Callback) /\ count' \in Int /\ have' \in BOOLEAN
    BY <1>2, <1>3
  <2>2. uncounted' \in Nat
    BY <1>1, <1>2 DEF TypeOK
  <2> QED  BY <1>1, <1>2, <1>4, <2>1, <2>2 DEF TypeOK
<1>6. IndexInv'
  BY <1>4 DEF BaseInv, IndexInv
<1>7. HaveIsExact'
  BY <1>2 DEF HaveIsExact
<1> QED  BY <1>5, <1>6, <1>7 DEF BaseInv

LEMMA BaseAdd ==
  ASSUME BaseInv, AddCallback
  PROVE  BaseInv'
<1>1. TypeOK /\ index < Len(callbacks) /\ (Outside => index = noIndex)
  BY DEF BaseInv, IndexInv
<1>2. callbacks' \in Seq(Callback) /\ Len(callbacks') = Len(callbacks) + 1
  BY <1>1, Added
<1>3. Len(callbacks) \in Nat /\ (callbacks = <<>> <=> Len(callbacks) = 0) /\ index \in Int
      /\ index >= noIndex
  BY <1>1, CallbacksAre DEF TypeOK
<1>4. callbacks' # <<>>
  BY <1>2, <1>3, SeqLen
<1>5. have'
  <2>1. index # noIndex => callbacks # <<>>
    BY <1>1, <1>3 DEF noIndex
  <2> QED  BY <2>1 DEF BaseInv, HaveIsExact, AddCallback
<1>6. TypeOK'
  <2>1. nextToken' \in 0 .. MaxTokens /\ have' \in BOOLEAN
    BY <1>1, CallbackAssumption DEF AddCallback, Tokens, TypeOK
  <2> QED  BY <1>1, <1>2, <2>1 DEF TypeOK, AddCallback, history
<1>7. IndexInv'
  BY <1>1, <1>2, <1>3 DEF IndexInv, AddCallback, Outside
<1> QED  BY <1>4, <1>5, <1>6, <1>7 DEF BaseInv, HaveIsExact

\* What SuppressNext, AddChanges and Package make of the callbacks.
LEMMA SkipType ==
  ASSUME TypeOK, NEW t \in Present
  PROVE  LET cs == [callbacks EXCEPT ![Position(t)].skip = TRUE]
         IN  /\ cs \in Seq(Callback) /\ Len(cs) = Len(callbacks)
             /\ \A i \in DOMAIN callbacks :
                   /\ cs[i].token = callbacks[i].token
                   /\ cs[i].deliver = callbacks[i].deliver
                   /\ cs[i].accumulated = callbacks[i].accumulated
<1> DEFINE i == Position(t)
           cb == [callbacks[i] EXCEPT !.skip = TRUE]
<1>1. i \in DOMAIN callbacks /\ callbacks[i] \in Callback /\ callbacks \in Seq(Callback)
      /\ DOMAIN callbacks = 1 .. Len(callbacks)
  BY Found, CallbacksAre DEF TypeOK
<1>2. /\ cb \in Callback /\ cb.token = callbacks[i].token
      /\ cb.deliver = callbacks[i].deliver /\ cb.accumulated = callbacks[i].accumulated
  BY <1>1 DEF Callback
<1>3. [callbacks EXCEPT ![i].skip = TRUE] = [callbacks EXCEPT ![i] = cb]
  BY <1>1
<1> HIDE DEF cb, i
<1> SUFFICES LET cs == [callbacks EXCEPT ![i] = cb]
             IN  /\ cs \in Seq(Callback) /\ Len(cs) = Len(callbacks)
                 /\ \A j \in DOMAIN callbacks :
                       /\ cs[j].token = callbacks[j].token
                       /\ cs[j].deliver = callbacks[j].deliver
                       /\ cs[j].accumulated = callbacks[j].accumulated
  BY <1>3 DEF i
<1> QED  BY <1>1, <1>2, ReplaceAtSeq

LEMMA AccumulateType ==
  ASSUME NEW cb \in Callback, NEW cs \in SUBSET Version
  PROVE  /\ Accumulate(cb, cs) \in Callback
         /\ Accumulate(cb, cs).token = cb.token
         /\ Accumulate(cb, cs).deliver = cb.deliver
         /\ Accumulate(cb, cs).accumulated =
                IF cb.skip THEN cb.accumulated ELSE cb.accumulated \cup cs
BY DEF Accumulate, Callback

LEMMA ChangesType ==
  ASSUME TypeOK, NEW cs \in SUBSET Version,
         callbacks' = [i \in DOMAIN callbacks |-> Accumulate(callbacks[i], cs)]
  PROVE  callbacks' \in Seq(Callback) /\ Len(callbacks') = Len(callbacks)
<1>1. callbacks' \in [1 .. Len(callbacks) -> Callback] /\ Len(callbacks) \in Nat
  BY CallbacksAre, AccumulateType
<1> QED  BY <1>1, FunctionIsSeq

LEMMA PackageType ==
  ASSUME TypeOK,
         callbacks' = [i \in DOMAIN callbacks |->
             [callbacks[i] EXCEPT !.deliver = callbacks[i].accumulated, !.accumulated = {}]]
  PROVE  /\ callbacks' \in Seq(Callback) /\ Len(callbacks') = Len(callbacks)
         /\ \A i \in DOMAIN callbacks :
               /\ callbacks'[i].token = callbacks[i].token
               /\ callbacks'[i].deliver = callbacks[i].accumulated
               /\ callbacks'[i].accumulated = {}
<1>1. \A cb \in Callback :
        LET c == [cb EXCEPT !.deliver = cb.accumulated, !.accumulated = {}]
        IN  /\ c \in Callback /\ c.token = cb.token
            /\ c.deliver = cb.accumulated /\ c.accumulated = {}
  BY DEF Callback
<1>2. \A i \in DOMAIN callbacks : callbacks[i] \in Callback
  BY CallbacksAre
<1>3. callbacks' \in [1 .. Len(callbacks) -> Callback] /\ Len(callbacks) \in Nat
  BY <1>1, <1>2, CallbacksAre
<1>4. callbacks' \in Seq(Callback) /\ Len(callbacks') = Len(callbacks)
  BY <1>3, FunctionIsSeq
<1> QED  BY <1>1, <1>2, <1>4

\* The callback whose user code runs has heard.
LEMMA CallType ==
  ASSUME TypeOK, NEW i \in Int, i + 1 \in DOMAIN callbacks, Call(i)
  PROVE  /\ callbacks' \in Seq(Callback) /\ Len(callbacks') = Len(callbacks)
         /\ \A j \in DOMAIN callbacks :
               /\ callbacks'[j].token = callbacks[j].token
               /\ callbacks'[j].accumulated = callbacks[j].accumulated
               /\ callbacks'[j].deliver = IF pass = "after" /\ j = i + 1 THEN {}
                                          ELSE callbacks[j].deliver
<1> DEFINE k == i + 1
           cb == [callbacks[k] EXCEPT !.initial = TRUE, !.deliver = {}]
<1>1. /\ k \in DOMAIN callbacks /\ callbacks[k] \in Callback /\ callbacks \in Seq(Callback)
      /\ DOMAIN callbacks = 1 .. Len(callbacks)
  BY CallbacksAre DEF TypeOK
<1>2. /\ cb \in Callback /\ cb.token = callbacks[k].token
      /\ cb.deliver = {} /\ cb.accumulated = callbacks[k].accumulated
  BY <1>1 DEF Callback
<1>3. callbacks' = IF pass = "after" THEN [callbacks EXCEPT ![k] = cb] ELSE callbacks
  BY <1>1 DEF Call
<1>4. k = i + 1
  OBVIOUS
<1> HIDE DEF cb, k
<1>5. CASE pass = "after"
  <2>1. callbacks' = [callbacks EXCEPT ![k] = cb]
    BY <1>3, <1>5
  <2>2. /\ callbacks' \in Seq(Callback) /\ Len(callbacks') = Len(callbacks)
        /\ \A j \in 1 .. Len(callbacks) : callbacks'[j] = IF j = k THEN cb ELSE callbacks[j]
    BY <1>1, <1>2, <2>1, ReplaceAtSeq
  <2> QED  BY <1>1, <1>2, <1>4, <1>5, <2>2
<1>6. CASE pass # "after"
  BY <1>1, <1>3, <1>6
<1> QED  BY <1>5, <1>6

LEMMA BaseIterate ==
  ASSUME BaseInv, Iterate
  PROVE  BaseInv'
<1>1. /\ TypeOK /\ index < Len(callbacks) /\ (Outside => index = noIndex) /\ HaveIsExact
      /\ index \in Int /\ index >= noIndex /\ Len(callbacks) \in Nat
      /\ DOMAIN callbacks = 1 .. Len(callbacks)
  BY CallbacksAre DEF BaseInv, IndexInv, TypeOK
<1>0. TypeOK
  BY DEF BaseInv
<1> DEFINE i == index + 1
<1>2. UNCHANGED <<count, nextToken, have, error, pass, version, packaged, uncounted, due>>
  BY DEF Iterate
<1>3. CASE /\ index' = noIndex /\ held' = FALSE
           /\ at' = IF pass = "before" THEN "advanced" ELSE "idle"
           /\ missed' = IF pass = "before" THEN missed ELSE missed \cup Behind
           /\ UNCHANGED <<callbacks, current, called, got>>
  <2>3. index' \in Int /\ index' >= noIndex
    BY <1>3 DEF noIndex
  <2>4. at' \in {"advanced", "idle"}
    BY <1>3
  <2>5. missed' \subseteq Tokens
    BY <1>0, <1>3 DEF TypeOK, Behind
  <2>1. TypeOK'
    BY <1>0, <1>2, <1>3, <2>3, <2>4, <2>5 DEF TypeOK
  <2>2. noIndex < Len(callbacks)
    BY <1>1 DEF noIndex
  <2> QED  BY <1>1, <1>2, <1>3, <2>1, <2>2 DEF BaseInv, IndexInv, HaveIsExact
<1>4. CASE /\ at' = "undefined"
           /\ UNCHANGED <<callbacks, index, held, current, called, missed, got>>
  <2>1. TypeOK'
    BY <1>1, <1>2, <1>4 DEF TypeOK
  <2> QED  BY <1>2, <1>4, <2>1, BaseStep DEF Outside
<1>5. CASE /\ i < Len(callbacks) /\ index' = i
           /\ UNCHANGED <<callbacks, held, at, current, called, missed, got>>
  <2>1. TypeOK'
    <3>1. index' \in Int /\ index' >= noIndex
      BY <1>1, <1>5 DEF noIndex
    <3> QED  BY <1>0, <1>2, <1>5, <3>1 DEF TypeOK
  <2>2. at = "loop"
    BY DEF Iterate
  <2> QED  BY <1>1, <1>2, <1>5, <2>1, <2>2 DEF BaseInv, IndexInv, HaveIsExact, Outside
<1>6. CASE i < Len(callbacks) /\ index' = i /\ Call(i) /\ UNCHANGED missed
  <2>1. i \in Int /\ i + 1 \in DOMAIN callbacks
    BY <1>1, <1>6 DEF noIndex
  <2>2. callbacks' \in Seq(Callback) /\ Len(callbacks') = Len(callbacks)
    BY <1>1, <1>6, <2>1, CallType
  <2>3. callbacks[i + 1] \in Callback /\ callbacks[i + 1].token \in Tokens
    BY <1>1, <2>1, CallbacksAre
  <2>4. got' \in [Tokens -> SUBSET Version]
    BY <1>1, <1>6, <2>3 DEF Call, TypeOK, Callback
  <2>5. called' \in Seq(Tokens)
    BY <1>1, <1>6, <2>3, AppendProperties DEF Call, TypeOK
  <2>6. current' \in Tokens /\ held' = FALSE /\ at' = "user"
    BY <1>6, <2>3 DEF Call
  <2>7. i >= noIndex
    BY <1>1 DEF noIndex
  <2>8. TypeOK'
    BY <1>1, <1>2, <1>6, <2>1, <2>2, <2>4, <2>5, <2>6, <2>7 DEF TypeOK
  <2>9. callbacks' # <<>> /\ callbacks # <<>>
    <3>1. callbacks \in Seq(Callback) /\ Len(callbacks) # 0
      BY <1>1, <1>6 DEF noIndex, TypeOK
    <3> QED  BY <2>2, <3>1, SeqLen
  <2> QED  BY <1>1, <1>2, <1>6, <2>2, <2>6, <2>8, <2>9 DEF BaseInv, IndexInv, HaveIsExact, Outside
<1> QED  BY <1>3, <1>4, <1>5, <1>6 DEF Iterate

LEMMA BaseInit == Init => BaseInv
<1> SUFFICES ASSUME Init PROVE BaseInv
  OBVIOUS
<1>1. callbacks = <<>> /\ Len(callbacks) = 0
  BY DEF Init
<1>2. <<>> \in Seq(Callback) /\ <<>> \in Seq(Tokens)
  BY EmptySeq
<1>3. callbacks \in Seq(Callback) /\ called \in Seq(Tokens)
  BY <1>2 DEF Init
<1>4. index \in Int /\ index >= noIndex /\ count \in Int /\ nextToken \in 0 .. MaxTokens
      /\ version \in 0 .. MaxVersion
  BY CallbackAssumption DEF Init, noIndex
<1>5. /\ due \in [Tokens -> SUBSET Version] /\ got \in [Tokens -> SUBSET Version]
      /\ packaged \subseteq Tokens /\ current \in Tokens \cup {noIndex}
      /\ uncounted \in Nat /\ missed \subseteq Tokens
  BY DEF Init
<1>6. have \in BOOLEAN /\ error \in BOOLEAN /\ held \in BOOLEAN /\ at = "idle" /\ pass = "after"
  BY DEF Init
<1>7. TypeOK
  BY <1>3, <1>4, <1>5, <1>6 DEF TypeOK
<1> QED  BY <1>1, <1>7 DEF Init, BaseInv, IndexInv, HaveIsExact, noIndex

LEMMA BaseNext == BaseInv /\ [Next]_vars => BaseInv'
<1> SUFFICES ASSUME BaseInv, [Next]_vars PROVE BaseInv'
  OBVIOUS
<1>1. TypeOK
  BY DEF BaseInv
<1>2. CASE UNCHANGED vars
  <2>1. TypeOK'
    BY <1>1, <1>2 DEF TypeOK, vars, shared, history
  <2> QED  BY <1>2, <2>1, BaseStep DEF vars, shared, Outside
<1>3. ASSUME NEW t \in Present, RemoveCallback(t)
      PROVE  BaseInv'
  BY <1>1, <1>3, BaseErase DEF RemoveCallback, Outside, TypeOK
<1>4. ASSUME NEW t \in Present, SuppressNext(t)
      PROVE  BaseInv'
  <2>1. callbacks' = [callbacks EXCEPT ![Position(t)].skip = TRUE]
        /\ UNCHANGED <<index, count, nextToken, have, error, held, at, pass,
                       current, version, packaged, uncounted, called, missed, due, got>>
    BY <1>4 DEF SuppressNext, history
  <2>2. callbacks' \in Seq(Callback) /\ Len(callbacks') = Len(callbacks)
    BY <1>1, <2>1, SkipType
  <2>3. TypeOK'
    BY <1>1, <2>1, <2>2 DEF TypeOK
  <2> QED  BY <2>1, <2>2, <2>3, BaseStep DEF Outside
<1>5. CASE AddChanges
  <2>1. version' \in Version /\ version' \in 0 .. MaxVersion
    BY <1>1, <1>5, CallbackAssumption DEF AddChanges, TypeOK, Version
  <2>2. PICK cs \in {{}, {version'}} :
          /\ callbacks' = [i \in DOMAIN callbacks |-> Accumulate(callbacks[i], cs)]
          /\ due' = [t \in Tokens |->
                 IF \E i \in DOMAIN callbacks :
                       callbacks[i].token = t /\ ~callbacks[i].skip
                 THEN due[t] \cup cs ELSE due[t]]
    BY <1>5 DEF AddChanges
  <2>3. cs \in SUBSET Version
    BY <2>1
  <2>4. callbacks' \in Seq(Callback) /\ Len(callbacks') = Len(callbacks)
    BY <1>1, <2>2, <2>3, ChangesType
  <2>5. due' \in [Tokens -> SUBSET Version]
    BY <1>1, <2>2, <2>3 DEF TypeOK
  <2>6. TypeOK'
    BY <1>1, <1>5, <2>1, <2>4, <2>5 DEF TypeOK, AddChanges
  <2> QED  BY <1>5, <2>4, <2>6, BaseStep DEF AddChanges, Outside
<1>6. CASE Package
  <2>1. callbacks' \in Seq(Callback) /\ Len(callbacks') = Len(callbacks)
    BY <1>1, <1>6, PackageType DEF Package
  <2>2. Present \subseteq Tokens /\ Len(callbacks) \in Int /\ <<>> \in Seq(Tokens)
    BY <1>1, CallbacksAre, EmptySeq DEF Present
  <2>3. TypeOK'
    BY <1>1, <1>6, <2>1, <2>2 DEF TypeOK, Package
  <2> QED  BY <1>6, <2>1, <2>3, BaseStep DEF Package, Outside
<1>7. ASSUME (\E p \in {"before", "after"} : StartLoop(p)) \/ DeliverError
      PROVE  BaseInv'
  <2>1. Present \subseteq Tokens /\ Len(callbacks) \in Int /\ <<>> \in Seq(Tokens)
    BY <1>1, CallbacksAre, EmptySeq DEF Present
  <2>2. /\ UNCHANGED <<callbacks, index, nextToken, have, current, version, missed, due, got>>
        /\ held' = TRUE /\ at' = "loop" /\ called' = <<>>
        /\ pass' \in {"before", "after", "error"} /\ error' \in BOOLEAN
        /\ count' \in Int /\ packaged' \subseteq Tokens /\ uncounted' \in Nat
    <3>1. CASE DeliverError
      BY <1>1, <2>1, <3>1 DEF DeliverError, TypeOK
    <3>2. ASSUME NEW p \in {"before", "after"}, StartLoop(p)
          PROVE  /\ UNCHANGED <<callbacks, index, nextToken, have, current, version, missed, due, got>>
                 /\ held' = TRUE /\ at' = "loop" /\ called' = <<>>
                 /\ pass' \in {"before", "after", "error"} /\ error' \in BOOLEAN
                 /\ count' \in Int /\ packaged' \subseteq Tokens /\ uncounted' \in Nat
      BY <1>1, <2>1, <3>2 DEF StartLoop, shared, TypeOK
    <3> QED  BY <1>7, <3>1, <3>2
  <2>3. TypeOK'
    BY <1>1, <2>1, <2>2 DEF TypeOK
  <2> QED  BY <2>2, <2>3, BaseStep DEF Outside
<1>8. CASE Return
  <2>1. /\ UNCHANGED <<shared, pass, current, version, history>>
        /\ at' \in {"remove", "loop"} /\ held' \in BOOLEAN
    BY <1>1, <1>8 DEF Return, TypeOK
  <2>2. TypeOK'
    BY <1>1, <2>1 DEF TypeOK, shared, history
  <2> QED  BY <2>1, <2>2, BaseStep DEF shared, Outside
<1>9. CASE RemoveAfterError
  <2>1. at' = "loop" /\ held' = TRUE /\ UNCHANGED <<pass, current, version>>
    BY <1>9 DEF RemoveAfterError
  <2>2. CASE current \in Present /\ Erase(current)
    BY <2>1, <2>2, BaseErase DEF Outside
  <2>3. CASE UNCHANGED <<shared, history>>
    <3>1. TypeOK'
      BY <1>1, <2>1, <2>3 DEF TypeOK, shared, history
    <3> QED  BY <2>1, <2>3, <3>1, BaseStep DEF shared, Outside
  <2> QED  BY <1>9, <2>2, <2>3 DEF RemoveAfterError
<1> QED
  BY <1>2, <1>3, <1>4, <1>5, <1>6, <1>7, <1>8, <1>9, BaseAdd, BaseIterate DEF Next

-----------------------------------------------------------------------------
(* The loop *)

\* Both invariants, opened.
LEMMA Opened ==
  ASSUME BaseInv
  PROVE  /\ Len(callbacks) \in Nat /\ DOMAIN callbacks = 1 .. Len(callbacks)
         /\ index \in Int /\ index >= -1 /\ index < Len(callbacks) /\ count \in Int
         /\ nextToken \in Int /\ version \in Nat
         /\ \A i \in DOMAIN callbacks :
               callbacks[i].token \in Tokens /\ callbacks[i].token \in Int
         /\ \A t \in Tokens : t \in Int
         /\ packaged \subseteq Tokens /\ uncounted \in Nat
         /\ called \in Seq(Tokens) /\ Len(called) \in Nat /\ DOMAIN called = 1 .. Len(called)
         /\ \A k \in DOMAIN called : called[k] \in Tokens
         /\ at \in {"idle", "packaged", "loop", "user", "advanced", "remove", "undefined"}
<1>1. TypeOK /\ index < Len(callbacks)
  BY DEF BaseInv, IndexInv
<1>2. called \in Seq(Tokens)
  BY <1>1 DEF TypeOK
<1>3. Len(called) \in Nat /\ DOMAIN called = 1 .. Len(called)
  BY <1>2, SeqLen
<1>4. \A k \in DOMAIN called : called[k] \in Tokens
  BY <1>2, <1>3, ElementOfSeq
<1>5. \A t \in Tokens : t \in Int
  BY CallbackAssumption DEF Tokens
<1>6. /\ index \in Int /\ index >= -1 /\ count \in Int /\ nextToken \in Int /\ version \in Nat
      /\ packaged \subseteq Tokens /\ uncounted \in Nat
      /\ at \in {"idle", "packaged", "loop", "user", "advanced", "remove", "undefined"}
  BY <1>1, CallbackAssumption DEF TypeOK, noIndex
<1> QED  BY <1>1, <1>2, <1>3, <1>4, <1>5, <1>6, CallbacksAre

\* Steps that leave the callbacks where they are, with their changes.
LEMMA LoopFrame ==
  ASSUME BaseInv, LoopInv, Len(callbacks') = Len(callbacks), DOMAIN callbacks' = DOMAIN callbacks,
         \A i \in DOMAIN callbacks : /\ callbacks'[i].token = callbacks[i].token
                                     /\ callbacks'[i].deliver = callbacks[i].deliver
                                     /\ callbacks'[i].accumulated = callbacks[i].accumulated,
         UNCHANGED <<index, count, nextToken, pass, current, version, history>>,
         at' = at \/ (at = "user" /\ at' \in {"remove", "loop"})
  PROVE  LoopInv'
<1>1. /\ (at' = "undefined" <=> at = "undefined") /\ (Delivering' <=> Delivering)
      /\ (InPass' <=> InPass) /\ (at' = "idle" <=> at = "idle")
  BY DEF Delivering, InPass
<1>2. TokenInv'
  BY DEF LoopInv, TokenInv, history
<1>3. CountInv'
  BY <1>1 DEF LoopInv, CountInv, Boundary, history
<1>4. CallInv'
  BY <1>1 DEF LoopInv, CallInv, history
<1>5. ChangeInv'
  BY DEF LoopInv, ChangeInv, history
<1>6. DeliverInv'
  BY <1>1 DEF LoopInv, DeliverInv, Spent, Boundary, history
<1> QED  BY <1>1, <1>2, <1>3, <1>4, <1>5, <1>6 DEF LoopInv, StopInv

LEMMA LoopErase ==
  ASSUME BaseInv, BaseInv', LoopInv, NEW t \in Present, Erase(t),
         UNCHANGED <<pass, current, version>>,
         at' = at \/ (at = "remove" /\ at' = "loop")
  PROVE  LoopInv'
<1> DEFINE p == Position(t)
           Old(j) == IF j < p THEN j ELSE j + 1
<1>1. TypeOK
  BY DEF BaseInv
<1>2. /\ p \in 1 .. Len(callbacks) /\ callbacks[p].token = t
      /\ Len(callbacks') = Len(callbacks) - 1
      /\ \A j \in 1 .. Len(callbacks) - 1 :
            callbacks'[j] = IF j < p THEN callbacks[j] ELSE callbacks[j + 1]
      /\ index' = IF index # noIndex /\ index >= p - 1 THEN index - 1 ELSE index
      /\ count' = count - 1 /\ nextToken' = nextToken
      /\ uncounted' = IF Delivering /\ t \notin packaged THEN uncounted + 1 ELSE uncounted
      /\ UNCHANGED <<packaged, called, missed, due, got>>
  BY <1>1, Erased
<1> HIDE DEF p
<1>3. /\ Len(callbacks) \in Nat /\ DOMAIN callbacks = 1 .. Len(callbacks)
      /\ index \in Int /\ index >= -1 /\ count \in Int /\ DOMAIN callbacks' = 1 .. Len(callbacks')
      /\ p \in Int /\ uncounted \in Nat /\ Boundary \in Int /\ Boundary' \in Int
  BY <1>2, Opened DEF Boundary
<1>4. \A j \in DOMAIN callbacks' :
        /\ j \in Int /\ Old(j) \in DOMAIN callbacks /\ callbacks'[j] = callbacks[Old(j)]
  BY <1>2, <1>3
<1>5. \A j, k \in DOMAIN callbacks' : j < k => Old(j) < Old(k)
  BY <1>2, <1>3
<1>6. \A j \in DOMAIN callbacks' : /\ j > index' + 1 => Old(j) > index + 1
                                   /\ j <= index' + 1 => Old(j) <= index + 1
  BY <1>2, <1>3 DEF noIndex
<1>7. Delivering => Boundary' = IF p <= Boundary THEN Boundary - 1 ELSE Boundary
  <2>1. Delivering => (t \in packaged <=> p <= Boundary)
    BY <1>2, <1>3 DEF LoopInv, CountInv
  <2> QED  BY <1>2, <1>3, <2>1 DEF Boundary
<1>8. Delivering => \A j \in DOMAIN callbacks' : j <= Boundary' <=> Old(j) <= Boundary
  BY <1>2, <1>3, <1>7
<1> HIDE DEF Old
<1>9. /\ (at' = "undefined" <=> at = "undefined") /\ (Delivering' <=> Delivering)
      /\ (InPass' <=> InPass) /\ (at' = "idle" <=> at = "idle")
  BY DEF Delivering, InPass
<1>10. TokenInv'
  BY <1>2, <1>4, <1>5 DEF LoopInv, TokenInv
<1>11. CountInv'
  <2>1. SUFFICES ASSUME Delivering
                 PROVE  /\ Boundary' \in 0 .. Len(callbacks')
                        /\ \A j \in DOMAIN callbacks' :
                              callbacks'[j].token \in packaged' <=> j <= Boundary'
    BY <1>9 DEF CountInv
  <2>2. /\ Boundary \in 0 .. Len(callbacks)
        /\ \A i \in DOMAIN callbacks : callbacks[i].token \in packaged <=> i <= Boundary
    BY <2>1 DEF LoopInv, CountInv
  <2>3. Boundary' \in 0 .. Len(callbacks')
    BY <1>2, <1>3, <1>7, <2>1, <2>2
  <2>4. \A j \in DOMAIN callbacks' : callbacks'[j].token \in packaged' <=> j <= Boundary'
    BY <1>2, <1>4, <1>8, <2>1, <2>2
  <2> QED  BY <2>3, <2>4
<1>12. CallInv'
  <2>1. count' >= 0 => count >= 0
    BY <1>2, <1>3
  <2>2. \A i, j \in DOMAIN called' : i < j => called'[i] < called'[j]
    BY <1>2 DEF LoopInv, CallInv
  <2>3. Delivering' /\ count' >= 0 => \A k \in DOMAIN called' : called'[k] \in packaged'
    BY <1>2, <1>9, <2>1 DEF LoopInv, CallInv
  <2>4. InPass' => \A k \in DOMAIN called', i \in DOMAIN callbacks' :
                      i > index' + 1 => called'[k] < callbacks'[i].token
    BY <1>2, <1>4, <1>6, <1>9 DEF LoopInv, CallInv
  <2> QED  BY <2>2, <2>3, <2>4 DEF CallInv
<1>13. ChangeInv'
  <2>1. UNCHANGED <<due, got, missed, version, nextToken>>
    BY <1>2
  <2> QED  BY <1>4, <2>1 DEF LoopInv, ChangeInv
<1>14. DeliverInv'
  <2>1. ASSUME NEW j \in DOMAIN callbacks', Spent(j)'
        PROVE  Spent(Old(j))
    <3>1. Delivering /\ j > Boundary' => Old(j) > Boundary
      <4>1. j \in Int /\ Old(j) \in Int
        BY <1>3, <1>4, <2>1
      <4> QED  BY <1>3, <1>8, <2>1, <4>1
    <3> QED  BY <1>2, <1>4, <1>6, <1>9, <2>1, <3>1 DEF Spent
  <2> QED  BY <1>4, <2>1 DEF LoopInv, DeliverInv
<1>15. StopInv'
  BY <1>2, <1>3, <1>9 DEF LoopInv, StopInv
<1> QED  BY <1>10, <1>11, <1>12, <1>13, <1>14, <1>15 DEF LoopInv

LEMMA LoopAdd ==
  ASSUME BaseInv, BaseInv', LoopInv, AddCallback
  PROVE  LoopInv'
<1> DEFINE n == Len(callbacks) + 1
<1>1. TypeOK
  BY DEF BaseInv
<1>2. /\ Len(callbacks') = n /\ \A j \in 1 .. Len(callbacks) : callbacks'[j] = callbacks[j]
      /\ callbacks'[n].token = nextToken /\ callbacks'[n].deliver = {}
      /\ callbacks'[n].accumulated = {}
  BY <1>1, Added
<1>3. /\ Len(callbacks) \in Nat /\ DOMAIN callbacks = 1 .. Len(callbacks)
      /\ DOMAIN callbacks' = 1 .. Len(callbacks')
      /\ index \in Int /\ count \in Int /\ nextToken \in Int /\ uncounted \in Nat
      /\ \A i \in DOMAIN callbacks : callbacks[i].token \in Int
      /\ \A k \in DOMAIN called : called[k] \in Int
      /\ \A t \in packaged : t \in Int
  BY Opened
<1>4. /\ UNCHANGED <<index, count, at, pass, current, version, history>>
      /\ nextToken' = nextToken + 1 /\ nextToken \in Tokens
  BY DEF AddCallback
<1>5. \A j \in DOMAIN callbacks' : (j \in DOMAIN callbacks /\ callbacks'[j] = callbacks[j]) \/ j = n
  BY <1>2, <1>3
<1>6. n \in Int /\ \A i \in DOMAIN callbacks : i < n /\ i \in Int
  BY <1>3
<1> HIDE DEF n
<1>7. TokenInv'
  <2>1. ASSUME NEW i \in DOMAIN callbacks', NEW j \in DOMAIN callbacks', i < j
        PROVE  callbacks'[i].token < callbacks'[j].token
    BY <1>2, <1>5, <1>6, <2>1 DEF LoopInv, TokenInv
  <2>2. ASSUME NEW i \in DOMAIN callbacks'
        PROVE  callbacks'[i].token < nextToken'
    BY <1>2, <1>3, <1>4, <1>5 DEF LoopInv, TokenInv
  <2>3. \A t \in packaged' : t < nextToken'
    BY <1>3, <1>4 DEF LoopInv, TokenInv, history
  <2>4. \A k \in DOMAIN called' : called'[k] < nextToken'
    BY <1>3, <1>4 DEF LoopInv, TokenInv, history
  <2> QED  BY <2>1, <2>2, <2>3, <2>4 DEF TokenInv
<1>8. nextToken \notin packaged
  BY <1>3 DEF LoopInv, TokenInv
<1>9. CountInv'
  <2>1. SUFFICES ASSUME Delivering
                 PROVE  /\ Boundary \in 0 .. Len(callbacks')
                        /\ \A j \in DOMAIN callbacks' :
                              callbacks'[j].token \in packaged <=> j <= Boundary
    BY <1>4 DEF CountInv, Boundary, Delivering, history
  <2>2. /\ Boundary \in 0 .. Len(callbacks)
        /\ \A i \in DOMAIN callbacks : callbacks[i].token \in packaged <=> i <= Boundary
    BY <2>1 DEF LoopInv, CountInv
  <2>3. Boundary \in 0 .. Len(callbacks') /\ ~(n <= Boundary)
    BY <1>2, <1>3, <2>2 DEF n
  <2> QED  BY <1>2, <1>5, <1>8, <2>2, <2>3
<1>10. CallInv'
  <2>1. ASSUME InPass, NEW k \in DOMAIN called
        PROVE  called[k] < nextToken
    BY <2>1 DEF LoopInv, TokenInv
  <2>2. \A k \in DOMAIN called, i \in DOMAIN callbacks' :
           InPass /\ i > index + 1 => called[k] < callbacks'[i].token
    BY <1>2, <1>5, <2>1 DEF LoopInv, CallInv
  <2> QED  BY <1>4, <2>2 DEF LoopInv, CallInv, InPass, Delivering, history
<1>11. ChangeInv'
  <2>1. due[nextToken] = {} /\ got[nextToken] = {}
    BY <1>3, <1>4 DEF LoopInv, ChangeInv
  <2>2. \A t \in Tokens : t \in Int
    BY Opened
  <2>3. \A t \in Tokens : t >= nextToken' => t >= nextToken
    BY <1>3, <1>4, <2>2
  <2> QED  BY <1>2, <1>4, <1>5, <2>1, <2>3 DEF LoopInv, ChangeInv, history
<1>12. DeliverInv'
  BY <1>2, <1>4, <1>5 DEF LoopInv, DeliverInv, Spent, Boundary, InPass, Delivering, history
<1> QED  BY <1>4, <1>7, <1>9, <1>10, <1>11, <1>12 DEF LoopInv, StopInv

LEMMA LoopPackage ==
  ASSUME BaseInv, BaseInv', LoopInv, Package
  PROVE  LoopInv'
<1>1. TypeOK
  BY DEF BaseInv
<1>2. /\ at = "idle" /\ at' = "packaged" /\ count' = Len(callbacks) /\ packaged' = Present
      /\ called' = <<>> /\ uncounted' = 0 /\ UNCHANGED <<nextToken, version, missed, due, got>>
  BY DEF Package
<1>3. /\ Len(callbacks') = Len(callbacks)
      /\ \A i \in DOMAIN callbacks : /\ callbacks'[i].token = callbacks[i].token
                                     /\ callbacks'[i].deliver = callbacks[i].accumulated
                                     /\ callbacks'[i].accumulated = {}
  BY <1>1, PackageType DEF Package
<1>4. /\ Len(callbacks) \in Nat /\ DOMAIN callbacks = 1 .. Len(callbacks)
      /\ DOMAIN callbacks' = 1 .. Len(callbacks')
  BY Opened
<1>5. DOMAIN callbacks' = DOMAIN callbacks
  BY <1>3, <1>4
<1>6. \A i \in DOMAIN callbacks : callbacks[i].token \in Present
  BY DEF Present
<1>7. \A i \in DOMAIN callbacks : callbacks[i].token \notin missed => callbacks[i].deliver = {}
  BY <1>2 DEF LoopInv, DeliverInv, Spent
<1>8. \A i \in DOMAIN callbacks : i \in Int /\ i <= Len(callbacks) /\ ~(i > Len(callbacks))
  BY <1>4
<1>0. DOMAIN called' = {} /\ Boundary' = Len(callbacks)
  BY <1>2, <1>4 DEF Boundary
<1>9. TokenInv'
  BY <1>0, <1>2, <1>3, <1>5 DEF LoopInv, TokenInv, Present
<1>10. CountInv'
  BY <1>0, <1>2, <1>3, <1>4, <1>5, <1>6, <1>8 DEF CountInv
<1>11. CallInv'
  BY <1>0 DEF CallInv
<1>12. ChangeInv'
  BY <1>2, <1>3, <1>5, <1>7 DEF LoopInv, ChangeInv
<1>13. DeliverInv'
  BY <1>0, <1>2, <1>5, <1>8 DEF DeliverInv, Spent, InPass
<1> QED  BY <1>2, <1>9, <1>10, <1>11, <1>12, <1>13 DEF LoopInv, StopInv

LEMMA LoopChanges ==
  ASSUME BaseInv, BaseInv', LoopInv, AddChanges
  PROVE  LoopInv'
<1>1. TypeOK
  BY DEF BaseInv
<1>2. /\ version' = version + 1 /\ version' \in Version
      /\ UNCHANGED <<index, count, nextToken, at, pass, current, packaged, uncounted, called,
                     missed, got>>
  BY <1>1, CallbackAssumption DEF AddChanges, TypeOK, Version
<1>3. PICK cs \in {{}, {version'}} :
        /\ callbacks' = [i \in DOMAIN callbacks |-> Accumulate(callbacks[i], cs)]
        /\ due' = [t \in Tokens |->
               IF \E i \in DOMAIN callbacks : callbacks[i].token = t /\ ~callbacks[i].skip
               THEN due[t] \cup cs ELSE due[t]]
  BY DEF AddChanges
<1>4. cs \in SUBSET Version /\ DOMAIN callbacks' = DOMAIN callbacks
  BY <1>2, <1>3
<1>5. \A i \in DOMAIN callbacks :
        /\ callbacks'[i].token = callbacks[i].token
        /\ callbacks'[i].deliver = callbacks[i].deliver
        /\ callbacks'[i].accumulated =
               IF callbacks[i].skip THEN callbacks[i].accumulated
                                    ELSE callbacks[i].accumulated \cup cs
  BY <1>1, <1>3, <1>4, AccumulateType, CallbacksAre
<1>6. Len(callbacks') = Len(callbacks)
  BY <1>1, <1>3, <1>4, ChangesType
<1>7. TokenInv' /\ CountInv' /\ CallInv' /\ DeliverInv'
  BY <1>2, <1>4, <1>5, <1>6
     DEF LoopInv, TokenInv, CountInv, CallInv, DeliverInv, Spent, Boundary, InPass, Delivering
<1>8. \A i, j \in DOMAIN callbacks : callbacks[i].token = callbacks[j].token => i = j
  <2>1. /\ DOMAIN callbacks = 1 .. Len(callbacks) /\ Len(callbacks) \in Nat
        /\ \A i \in DOMAIN callbacks : callbacks[i].token \in Int
    BY Opened
  <2>2. \A i, j \in DOMAIN callbacks : i < j \/ j < i \/ i = j
    BY <2>1
  <2> QED  BY <2>1, <2>2 DEF LoopInv, TokenInv
<1>9. \A t \in Tokens : /\ due[t] \subseteq 1 .. version /\ got[t] \subseteq 1 .. version
                        /\ t >= nextToken => due[t] = {} /\ got[t] = {}
  BY DEF LoopInv, ChangeInv
<1>10. /\ version \in Nat /\ version' \notin 1 .. version /\ 1 .. version \subseteq 1 .. version'
       /\ version' \in 1 .. version' /\ cs \subseteq 1 .. version'
  <2>1. version \in Nat
    BY Opened
  <2> QED  BY <1>2, <1>3, <2>1
<1>11. ChangeInv'
  <2>1. ASSUME NEW i \in DOMAIN callbacks
        PROVE  LET cb == callbacks'[i]
               IN  /\ got'[cb.token] \cup cb.deliver \cup cb.accumulated \subseteq due'[cb.token]
                   /\ cb.token \notin missed' =>
                         due'[cb.token] = got'[cb.token] \cup cb.deliver \cup cb.accumulated
                   /\ got'[cb.token] \cap (cb.deliver \cup cb.accumulated) = {}
                   /\ cb.deliver \cap cb.accumulated = {}
    <3> DEFINE t == callbacks[i].token
    <3>1. t \in Tokens
      BY Opened
    <3>2. /\ got[t] \cup callbacks[i].deliver \cup callbacks[i].accumulated \subseteq due[t]
          /\ t \notin missed =>
                due[t] = got[t] \cup callbacks[i].deliver \cup callbacks[i].accumulated
          /\ got[t] \cap (callbacks[i].deliver \cup callbacks[i].accumulated) = {}
          /\ callbacks[i].deliver \cap callbacks[i].accumulated = {}
      BY DEF LoopInv, ChangeInv
    <3>3. due'[t] = IF callbacks[i].skip THEN due[t] ELSE due[t] \cup cs
      BY <1>3, <1>8, <3>1
    <3>4. got[t] \cap cs = {} /\ callbacks[i].deliver \cap cs = {}
      BY <1>3, <1>9, <1>10, <3>1, <3>2
    <3> HIDE DEF t
    <3>5. callbacks'[i].token = t
      BY <1>5 DEF t
    <3>6. CASE callbacks[i].skip
      BY <1>2, <1>5, <3>2, <3>3, <3>5, <3>6
    <3>7. CASE ~callbacks[i].skip
      BY <1>2, <1>5, <3>2, <3>3, <3>4, <3>5, <3>7
    <3> QED  BY <3>6, <3>7
  <2>2. ASSUME NEW t \in Tokens
        PROVE  /\ due'[t] \subseteq 1 .. version' /\ got'[t] \subseteq 1 .. version'
               /\ t >= nextToken' => due'[t] = {} /\ got'[t] = {}
    <3>1. due'[t] = due[t] \/ due'[t] = due[t] \cup cs
      BY <1>3
    <3>2. ASSUME t >= nextToken PROVE due'[t] = due[t]
      <4>1. \A i \in DOMAIN callbacks : callbacks[i].token # t
        BY <3>2, Opened DEF LoopInv, TokenInv
      <4> QED  BY <1>3, <4>1
    <3> QED  BY <1>2, <1>9, <1>10, <3>1, <3>2
  <2> QED  BY <1>4, <2>1, <2>2 DEF ChangeInv
<1> QED  BY <1>2, <1>7, <1>11 DEF LoopInv, StopInv

\* A pass begins, of a package or of an error.
LEMMA LoopStart ==
  ASSUME BaseInv, BaseInv', LoopInv, (\E p \in {"before", "after"} : StartLoop(p)) \/ DeliverError
  PROVE  LoopInv'
<1>1. /\ UNCHANGED <<callbacks, index, nextToken, version, missed, due, got>>
      /\ at' = "loop" /\ called' = <<>>
  BY DEF StartLoop, DeliverError, shared
<1>2. /\ Len(callbacks) \in Nat /\ DOMAIN callbacks = 1 .. Len(callbacks)
      /\ \A i \in DOMAIN callbacks : i \in Int /\ i <= Len(callbacks) /\ ~(i > Len(callbacks))
  <2>1. Len(callbacks) \in Nat /\ DOMAIN callbacks = 1 .. Len(callbacks)
    BY Opened
  <2> QED  BY <2>1
<1>3. DOMAIN called' = {}
  BY <1>1
<1>4. CallInv' /\ ChangeInv'
  BY <1>1, <1>3 DEF LoopInv, CallInv, ChangeInv
<1>5. CASE DeliverError
  <2>1. at = "idle" /\ count' = Len(callbacks) /\ packaged' = Present /\ uncounted' = 0
        /\ pass' = "error"
    BY <1>5 DEF DeliverError
  <2>2. \A i \in DOMAIN callbacks : /\ callbacks[i].token \in Present
                                    /\ callbacks[i].token \notin missed => callbacks[i].deliver = {}
    BY <2>1 DEF LoopInv, DeliverInv, Spent, Present
  <2>3. TokenInv'
    BY <1>1, <1>3, <2>1 DEF LoopInv, TokenInv, Present
  <2>6. Boundary' = Len(callbacks)
    BY <1>2, <2>1 DEF Boundary
  <2>4. CountInv'
    BY <1>1, <1>2, <2>1, <2>2, <2>6 DEF CountInv
  <2>5. DeliverInv'
    BY <1>1, <1>2, <2>1, <2>2, <2>6 DEF DeliverInv, Spent
  <2> QED  BY <1>1, <1>4, <2>3, <2>4, <2>5 DEF LoopInv, StopInv
<1>6. ASSUME NEW p \in {"before", "after"}, StartLoop(p)
      PROVE  LoopInv'
  <2>1. at \in {"packaged", "advanced"} /\ pass' = p /\ UNCHANGED <<count, packaged, uncounted>>
    BY <1>6 DEF StartLoop, shared
  <2>2. index = -1
    BY <2>1 DEF BaseInv, IndexInv, Outside, noIndex
  <2>3. \A i \in DOMAIN callbacks : ~(i <= index + 1)
    BY <1>2, <2>2
  <2>4. TokenInv' /\ CountInv'
    BY <1>1, <1>3, <2>1 DEF LoopInv, TokenInv, CountInv, Boundary, Delivering
  <2>5. DeliverInv'
    BY <1>1, <2>1, <2>3 DEF LoopInv, DeliverInv, Spent, Boundary, Delivering
  <2> QED  BY <1>1, <1>4, <2>4, <2>5 DEF LoopInv, StopInv
<1> QED  BY <1>5, <1>6

\* The next callback of the pass, the one at position index + 2 here, hears of
\* its changes.
LEMMA LoopCall ==
  ASSUME BaseInv, BaseInv', LoopInv, at = "loop",
         index + 1 < Len(callbacks), InLoop(index + 1), index' = index + 1, Call(index + 1),
         UNCHANGED <<count, nextToken, pass, version, packaged, uncounted, missed, due>>
  PROVE  LoopInv'
<1> DEFINE k == index + 2
           t == callbacks[k].token
<1>1. TypeOK
  BY DEF BaseInv
<1>2. /\ Len(callbacks) \in Nat /\ DOMAIN callbacks = 1 .. Len(callbacks)
      /\ index \in Int /\ index >= -1 /\ count \in Int
      /\ \A i \in DOMAIN callbacks : callbacks[i].token \in Tokens /\ callbacks[i].token \in Int
      /\ called \in Seq(Tokens) /\ Len(called) \in Nat /\ DOMAIN called = 1 .. Len(called)
      /\ \A j \in DOMAIN called : called[j] \in Tokens /\ called[j] \in Int
      /\ DOMAIN callbacks' = 1 .. Len(callbacks') /\ DOMAIN called' = 1 .. Len(called')
      /\ uncounted \in Nat
  BY Opened
<1>3. /\ k \in DOMAIN callbacks /\ (index + 1) + 1 = k /\ index + 1 \in Int
      /\ k > index + 1 /\ t \in Tokens /\ t \in Int
  BY <1>2
<1>4. /\ Len(callbacks') = Len(callbacks)
      /\ \A j \in DOMAIN callbacks :
            /\ callbacks'[j].token = callbacks[j].token
            /\ callbacks'[j].accumulated = callbacks[j].accumulated
            /\ callbacks'[j].deliver = IF pass = "after" /\ j = k THEN {}
                                       ELSE callbacks[j].deliver
  BY <1>1, <1>3, CallType
<1>5. /\ got' = IF pass = "after" THEN [got EXCEPT ![t] = @ \cup callbacks[k].deliver] ELSE got
      /\ called' = Append(called, t) /\ current' = t /\ at' = "user"
  BY <1>3 DEF Call
<1>6. /\ DOMAIN callbacks' = DOMAIN callbacks
      /\ Len(called') = Len(called) + 1 /\ called'[Len(called) + 1] = t
      /\ \A j \in 1 .. Len(called) : called'[j] = called[j]
  BY <1>2, <1>3, <1>4, <1>5, AppendProperties
<1>7. \A j \in DOMAIN callbacks : /\ j \in Int /\ (j > index' + 1 => j > k /\ j > index + 1)
                                  /\ (j <= index' + 1 => j <= index + 1 \/ j = k)
  BY <1>2, <1>3
<1>8. \A j \in DOMAIN called' : (j \in DOMAIN called /\ called'[j] = called[j] /\ j < Len(called) + 1)
                                \/ (j = Len(called) + 1 /\ called'[j] = t)
  BY <1>2, <1>6
<1>9. /\ \A j \in DOMAIN called : called[j] < t
      /\ count >= 0 => t \in packaged
      /\ t < nextToken
      /\ \A j \in DOMAIN callbacks : callbacks[j].token = t => j = k
  <2>1. \A j \in DOMAIN callbacks : j < k \/ k < j \/ j = k
    BY <1>2, <1>3
  <2>2. count >= 0 => k <= Boundary
    BY <1>2, <1>3 DEF InLoop, Boundary
  <2>3. \A j \in DOMAIN called : called[j] < t
    BY <1>2, <1>3 DEF LoopInv, CallInv, InPass
  <2>4. count >= 0 => t \in packaged
    BY <1>3, <2>2 DEF LoopInv, CountInv, Delivering
  <2>5. t < nextToken /\ \A j \in DOMAIN callbacks : callbacks[j].token = t => j = k
    BY <1>2, <1>3, <2>1 DEF LoopInv, TokenInv
  <2> QED  BY <2>3, <2>4, <2>5
<1> HIDE DEF k, t
<1>10. TokenInv'
  BY <1>4, <1>6, <1>8, <1>9 DEF LoopInv, TokenInv
<1>11. CountInv'
  BY <1>4, <1>5, <1>6, <1>9 DEF LoopInv, CountInv, Boundary, Delivering
<1>12. CallInv'
  <2>1. ASSUME NEW i \in DOMAIN called', NEW j \in DOMAIN called', i < j
        PROVE  called'[i] < called'[j]
    <3>1. i \in Int /\ j \in Int /\ Len(called) \in Int
      BY <1>2, <1>8
    <3>2. i \in DOMAIN called /\ called'[i] = called[i]
      BY <1>8, <2>1, <3>1
    <3> QED  BY <1>8, <1>9, <2>1, <3>2 DEF LoopInv, CallInv
  <2>2. count >= 0 => \A j \in DOMAIN called' : called'[j] \in packaged
    BY <1>8, <1>9 DEF LoopInv, CallInv, Delivering
  <2>3. ASSUME NEW j \in DOMAIN called', NEW i \in DOMAIN callbacks, i > index' + 1
        PROVE  called'[j] < callbacks[i].token
    <3>1. i > k /\ i > index + 1
      BY <1>7, <2>3
    <3>2. t < callbacks[i].token
      BY <1>3, <3>1 DEF LoopInv, TokenInv, t
    <3> QED  BY <1>8, <3>1, <3>2 DEF LoopInv, CallInv, InPass
  <2> QED  BY <1>4, <1>6, <2>1, <2>2, <2>3 DEF CallInv
<1>13. ChangeInv'
  <2>1. got \in [Tokens -> SUBSET Version]
    BY <1>1 DEF TypeOK
  <2>2. \A u \in Tokens : got'[u] = IF pass = "after" /\ u = t
                                    THEN got[u] \cup callbacks[k].deliver ELSE got[u]
    BY <1>3, <1>5, <2>1
  <2>3. \A j \in DOMAIN callbacks :
           /\ got[callbacks[j].token] \cup callbacks[j].deliver \cup callbacks[j].accumulated
                  \subseteq due[callbacks[j].token]
           /\ callbacks[j].token \notin missed =>
                 due[callbacks[j].token] = got[callbacks[j].token] \cup callbacks[j].deliver
                                            \cup callbacks[j].accumulated
           /\ got[callbacks[j].token] \cap (callbacks[j].deliver \cup callbacks[j].accumulated) = {}
           /\ callbacks[j].deliver \cap callbacks[j].accumulated = {}
    BY DEF LoopInv, ChangeInv
  <2>4. ASSUME NEW j \in DOMAIN callbacks
        PROVE  LET cb == callbacks'[j]
               IN  /\ got'[cb.token] \cup cb.deliver \cup cb.accumulated \subseteq due'[cb.token]
                   /\ cb.token \notin missed' =>
                         due'[cb.token] = got'[cb.token] \cup cb.deliver \cup cb.accumulated
                   /\ got'[cb.token] \cap (cb.deliver \cup cb.accumulated) = {}
                   /\ cb.deliver \cap cb.accumulated = {}
    <3>1. CASE pass = "after" /\ j = k
      <4>1. got'[t] = got[t] \cup callbacks[j].deliver /\ callbacks[j].token = t
        BY <1>3, <2>2, <3>1 DEF t
      <4>2. callbacks'[j].deliver = {} /\ callbacks'[j].token = t
            /\ callbacks'[j].accumulated = callbacks[j].accumulated
        BY <1>4, <3>1, <4>1
      <4>3. /\ got[t] \cup callbacks[j].deliver \cup callbacks[j].accumulated \subseteq due[t]
            /\ t \notin missed =>
                  due[t] = got[t] \cup callbacks[j].deliver \cup callbacks[j].accumulated
            /\ got[t] \cap (callbacks[j].deliver \cup callbacks[j].accumulated) = {}
            /\ callbacks[j].deliver \cap callbacks[j].accumulated = {}
        BY <2>3, <4>1
      <4> QED  BY <4>1, <4>2, <4>3
    <3>2. CASE ~(pass = "after" /\ j = k)
      <4>1. got'[callbacks[j].token] = got[callbacks[j].token]
        BY <1>2, <1>9, <2>2, <3>2
      <4>2. callbacks'[j].deliver = callbacks[j].deliver /\ callbacks'[j].token = callbacks[j].token
            /\ callbacks'[j].accumulated = callbacks[j].accumulated
        BY <1>4, <3>2
      <4> QED  BY <2>3, <4>1, <4>2
    <3> QED  BY <3>1, <3>2
  <2>5. ASSUME NEW u \in Tokens
        PROVE  /\ due'[u] \subseteq 1 .. version' /\ got'[u] \subseteq 1 .. version'
               /\ u >= nextToken' => due'[u] = {} /\ got'[u] = {}
    <3>1. /\ due[u] \subseteq 1 .. version /\ got[u] \subseteq 1 .. version
          /\ u >= nextToken => due[u] = {} /\ got[u] = {}
      BY DEF LoopInv, ChangeInv
    <3>2. callbacks[k].deliver \subseteq due[t]
      BY <1>3, <2>3 DEF t
    <3>3. u = t => ~(u >= nextToken)
      <4>1. t < nextToken /\ nextToken \in Int
        BY <1>3, Opened DEF LoopInv, TokenInv, t
      <4> QED  BY <1>3, <4>1
    <3> QED  BY <2>2, <3>1, <3>2, <3>3
  <2> QED  BY <1>6, <2>4, <2>5 DEF ChangeInv
<1>14. DeliverInv'
  <2>1. ASSUME NEW j \in DOMAIN callbacks, Spent(j)'
        PROVE  callbacks'[j].deliver = {}
    <3>1. CASE pass = "after" /\ j = k
      BY <1>4, <3>1
    <3>2. CASE ~(pass = "after" /\ j = k)
      <4>1. Spent(j)
        BY <1>4, <1>5, <1>7, <2>1, <3>2 DEF Spent, Boundary, InPass, Delivering
      <4> QED  BY <1>4, <3>2, <4>1 DEF LoopInv, DeliverInv
    <3> QED  BY <3>1, <3>2
  <2> QED  BY <1>6, <2>1 DEF DeliverInv
<1> QED  BY <1>5, <1>10, <1>11, <1>12, <1>13, <1>14 DEF LoopInv, StopInv

LEMMA LoopIterate ==
  ASSUME BaseInv, BaseInv', LoopInv, Iterate
  PROVE  LoopInv'
<1>1. /\ at = "loop" /\ pass \in {"before", "after", "error"}
      /\ UNCHANGED <<count, nextToken, pass, version, packaged, uncounted, due>>
  BY DEF Iterate, BaseInv, TypeOK
<1>2. /\ Len(callbacks) \in Nat /\ DOMAIN callbacks = 1 .. Len(callbacks)
      /\ index \in Int /\ index >= -1 /\ count \in Int /\ uncounted \in Nat
      /\ Boundary \in 0 .. Len(callbacks)
      /\ \A i \in DOMAIN callbacks : callbacks[i].token \in packaged <=> i <= Boundary
  BY <1>1, Opened DEF LoopInv, CountInv, Delivering
<1>3. InLoop(index + 1) <=> count < 0 \/ index + 1 < count
  BY DEF InLoop
<1>4. CASE /\ ~InLoop(index + 1) /\ index' = noIndex
           /\ at' = IF pass = "before" THEN "advanced" ELSE "idle"
           /\ missed' = IF pass = "before" THEN missed ELSE missed \cup Behind
           /\ UNCHANGED <<callbacks, current, called, got>>
  <2>1. \A j \in DOMAIN callbacks : \/ j > Boundary
                                    \/ j <= index + 1
                                    \/ callbacks[j].token \in Behind
    BY <1>2 DEF Behind
  <2>2. at' = "idle" => \A j \in DOMAIN callbacks :
                           callbacks[j].token \notin missed' => callbacks[j].deliver = {}
    BY <1>1, <1>4, <2>1 DEF LoopInv, DeliverInv, Spent, InPass, Delivering
  <2>5. missed \subseteq missed'
    BY <1>4
  <2>3. TokenInv' /\ CountInv' /\ CallInv' /\ ChangeInv'
    BY <1>1, <1>4, <2>5
       DEF LoopInv, TokenInv, CountInv, CallInv, ChangeInv, Boundary, InPass, Delivering
  <2>4. DeliverInv'
    BY <1>1, <1>4, <2>2 DEF LoopInv, DeliverInv, Spent, Boundary, InPass, Delivering
  <2> QED  BY <1>4, <2>3, <2>4 DEF LoopInv, StopInv
<1>5. CASE /\ InLoop(index + 1) /\ index + 1 >= Len(callbacks) /\ at' = "undefined"
           /\ UNCHANGED <<callbacks, index, held, current, called, missed, got>>
  <2>1. StopInv'
    BY <1>1, <1>2, <1>3, <1>5 DEF StopInv, Boundary
  <2>2. TokenInv' /\ CountInv' /\ CallInv' /\ ChangeInv' /\ DeliverInv'
    BY <1>1, <1>5 DEF LoopInv, TokenInv, CountInv, CallInv, ChangeInv, DeliverInv, Spent,
       Boundary, InPass, Delivering
  <2> QED  BY <2>1, <2>2 DEF LoopInv
<1>6. CASE /\ InLoop(index + 1) /\ index + 1 < Len(callbacks) /\ index' = index + 1
           /\ NothingToSay(callbacks[(index + 1) + 1])
           /\ UNCHANGED <<callbacks, held, at, current, called, missed, got>>
  <2>1. (index + 1) + 1 = index + 2 /\ index + 2 \in DOMAIN callbacks
    BY <1>2, <1>6
  <2>2. callbacks[index + 2].deliver = {}
    BY <1>6, <2>1 DEF NothingToSay
  <2>3. \A j \in DOMAIN callbacks : /\ (j > index' + 1 => j > index + 1)
                                    /\ (j <= index' + 1 => j <= index + 1 \/ j = index + 2)
    BY <1>2, <1>6
  <2>4. TokenInv' /\ CountInv' /\ CallInv' /\ ChangeInv'
    BY <1>1, <1>6, <2>3
       DEF LoopInv, TokenInv, CountInv, CallInv, ChangeInv, Boundary, InPass, Delivering
  <2>5. DeliverInv'
    BY <1>1, <1>6, <2>2, <2>3 DEF LoopInv, DeliverInv, Spent, Boundary, InPass, Delivering
  <2> QED  BY <1>1, <1>6, <2>4, <2>5 DEF LoopInv, StopInv
<1>7. CASE /\ InLoop(index + 1) /\ index + 1 < Len(callbacks) /\ index' = index + 1
           /\ Call(index + 1) /\ UNCHANGED missed
  BY <1>1, <1>7, LoopCall
<1> QED  BY <1>4, <1>5, <1>6, <1>7 DEF Iterate

\* A pass that ends leaves out no more callbacks than uncounted ones were removed.
LEMMA FewBehind ==
  ASSUME BaseInv, LoopInv, at = "loop", ~InLoop(index + 1)
  PROVE  IsFiniteSet(Behind) /\ Cardinality(Behind) <= uncounted
<1> DEFINE f == [j \in index + 2 .. Boundary |-> callbacks[j].token]
<1>1. /\ DOMAIN callbacks = 1 .. Len(callbacks) /\ Len(callbacks) \in Nat
      /\ index \in Int /\ index >= -1 /\ count \in Int /\ uncounted \in Nat
      /\ Boundary \in 0 .. Len(callbacks)
      /\ \A i \in DOMAIN callbacks : callbacks[i].token \in packaged <=> i <= Boundary
  BY Opened DEF LoopInv, CountInv, Delivering
<1>2. \A t \in Behind : \E j \in index + 2 .. Boundary : f[j] = t
  <2>1. SUFFICES ASSUME NEW j \in DOMAIN callbacks, j > index + 1,
                        callbacks[j].token \in packaged
                 PROVE  j \in index + 2 .. Boundary
    BY DEF Behind
  <2> QED  BY <1>1, <2>1
<1>3. \A j \in index + 2 .. Boundary : f[j] \in Behind
  <2>1. \A j \in index + 2 .. Boundary :
           j \in DOMAIN callbacks /\ j > index + 1 /\ j <= Boundary
    BY <1>1
  <2> QED  BY <1>1, <2>1 DEF Behind
<1>4. f \in Surjection(index + 2 .. Boundary, Behind)
  <2>1. f \in [index + 2 .. Boundary -> Behind]
    BY <1>3
  <2> QED  BY <1>2, <2>1, Fun_IsSurj
<1> HIDE DEF f
<1>5. /\ IsFiniteSet(index + 2 .. Boundary)
      /\ Cardinality(index + 2 .. Boundary) =
            IF index + 2 > Boundary THEN 0 ELSE Boundary - (index + 2) + 1
  <2>1. index + 2 \in Int /\ Boundary \in Int
    BY <1>1
  <2> QED  BY <2>1, FS_Interval
<1>6. Cardinality(index + 2 .. Boundary) <= uncounted
  <2>1. index + 1 >= count
    BY <1>1 DEF InLoop
  <2> QED  BY <1>1, <1>5, <2>1 DEF Boundary
<1>7. IsFiniteSet(Behind) /\ Cardinality(Behind) <= Cardinality(index + 2 .. Boundary)
  BY <1>4, <1>5, FS_Surjection
<1> QED
  <2>1. Cardinality(Behind) \in Nat /\ Cardinality(index + 2 .. Boundary) \in Nat
    BY <1>5, <1>7, FS_CardinalityType
  <2> QED  BY <1>1, <1>6, <1>7, <2>1

-----------------------------------------------------------------------------
(* The specification *)

LEMMA LoopInit == Init => LoopInv
<1> SUFFICES ASSUME Init PROVE LoopInv
  OBVIOUS
<1>1. /\ DOMAIN callbacks = {} /\ DOMAIN called = {} /\ packaged = {} /\ at = "idle"
      /\ \A t \in Tokens : due[t] = {} /\ got[t] = {}
  BY DEF Init
<1> QED
  BY <1>1 DEF LoopInv, StopInv, TokenInv, CountInv, CallInv, ChangeInv, DeliverInv,
     Delivering, InPass

LEMMA LoopNext ==
  ASSUME BaseInv, BaseInv', LoopInv, [Next]_vars
  PROVE  LoopInv'
<1>1. TypeOK
  BY DEF BaseInv
<1>2. CASE UNCHANGED vars
  BY <1>2, LoopFrame DEF vars, shared
<1>3. ASSUME NEW t \in Present, RemoveCallback(t)
      PROVE  LoopInv'
  BY <1>3, LoopErase DEF RemoveCallback
<1>4. ASSUME NEW t \in Present, SuppressNext(t)
      PROVE  LoopInv'
  <2>1. callbacks' = [callbacks EXCEPT ![Position(t)].skip = TRUE]
        /\ UNCHANGED <<index, count, nextToken, at, pass, current, version, history>>
    BY <1>4 DEF SuppressNext
  <2>2. /\ Len(callbacks') = Len(callbacks)
        /\ \A i \in DOMAIN callbacks : /\ callbacks'[i].token = callbacks[i].token
                                       /\ callbacks'[i].deliver = callbacks[i].deliver
                                       /\ callbacks'[i].accumulated = callbacks[i].accumulated
    BY <1>1, <2>1, SkipType
  <2>3. DOMAIN callbacks' = DOMAIN callbacks
    BY <2>1
  <2> QED  BY <2>1, <2>2, <2>3, LoopFrame
<1>5. CASE Return
  BY <1>5, LoopFrame DEF Return, shared
<1>6. CASE RemoveAfterError
  <2>1. at = "remove" /\ at' = "loop" /\ UNCHANGED <<pass, current, version>>
    BY <1>6 DEF RemoveAfterError
  <2>3. CASE current \in Present /\ Erase(current)
    BY <2>1, <2>3, LoopErase
  <2>4. CASE UNCHANGED <<shared, history>>
    <3>1. /\ UNCHANGED <<callbacks, index, count, nextToken>> /\ UNCHANGED history
          /\ Delivering' /\ Delivering /\ InPass' /\ InPass
      BY <2>1, <2>4 DEF shared, Delivering, InPass
    <3>2. TokenInv' /\ CountInv' /\ CallInv' /\ ChangeInv'
      BY <2>1, <3>1 DEF LoopInv, TokenInv, CountInv, CallInv, ChangeInv, Boundary, history
    <3>3. DeliverInv'
      BY <2>1, <3>1 DEF LoopInv, DeliverInv, Spent, Boundary, history
    <3> QED  BY <2>1, <3>1, <3>2, <3>3 DEF LoopInv, StopInv
  <2> QED  BY <1>6, <2>3, <2>4 DEF RemoveAfterError
<1> QED
  BY <1>2, <1>3, <1>4, <1>5, <1>6, LoopAdd, LoopChanges, LoopPackage, LoopStart, LoopIterate
     DEF Next

\* The index stays inside m_callbacks, with any clients.
THEOREM CallbacksBase == Spec => []BaseInv
BY BaseInit, BaseNext, PTL DEF Spec

\* m_have_callbacks says whether there are callbacks, whatever is added and
\* removed while a loop runs, and with any clients.
THEOREM CallbacksHaveIsExact == Spec => []HaveIsExact
<1>1. BaseInv => HaveIsExact
  BY DEF BaseInv
<1> QED  BY <1>1, CallbacksBase, PTL

\* The invariant of the loop.
THEOREM CallbacksLoop == Spec => [](BaseInv /\ LoopInv)
<1>1. BaseInv /\ LoopInv /\ [Next]_vars => (BaseInv /\ LoopInv)'
  BY BaseNext, LoopNext
<1> QED  BY <1>1, BaseInit, LoopInit, PTL DEF Spec

\* The packaged callbacks that are still there are as many as the boundary says.
LEMMA CountedLeft ==
  ASSUME BaseInv, LoopInv, Delivering
  PROVE  count + uncounted = Cardinality(packaged \cap Present)
<1> DEFINE f == [i \in 1 .. Boundary |-> callbacks[i].token]
           S == packaged \cap Present
<1>1. /\ Len(callbacks) \in Nat /\ DOMAIN callbacks = 1 .. Len(callbacks)
      /\ \A i \in DOMAIN callbacks : callbacks[i].token \in Int
      /\ Boundary \in 0 .. Len(callbacks)
      /\ \A i \in DOMAIN callbacks : callbacks[i].token \in packaged <=> i <= Boundary
  BY Opened DEF LoopInv, CountInv
<1>2. \A i \in 1 .. Boundary : i \in DOMAIN callbacks /\ i <= Boundary
  BY <1>1
<1>3. \A i \in DOMAIN callbacks : i <= Boundary => i \in 1 .. Boundary
  BY <1>1
<1>4. f \in [1 .. Boundary -> S]
  BY <1>1, <1>2 DEF Present
<1>5. \A i, j \in 1 .. Boundary : f[i] = f[j] => i = j
  <2>1. \A i, j \in DOMAIN callbacks : i < j \/ j < i \/ i = j
    BY <1>1
  <2> QED  BY <1>1, <1>2, <2>1 DEF LoopInv, TokenInv
<1>6. \A t \in S : \E i \in 1 .. Boundary : f[i] = t
  BY <1>1, <1>3 DEF Present
<1> HIDE DEF f, S
<1>7. f \in Bijection(1 .. Boundary, S)
  BY <1>4, <1>5, <1>6, Fun_IsBij
<1>8. ExistsBijection(1 .. Boundary, S) /\ Boundary \in Nat
  BY <1>1, <1>7 DEF ExistsBijection
<1>9. Cardinality(S) = Boundary
  BY <1>8, FS_CountingElements
<1> QED  BY <1>9 DEF S, Boundary

\* The count has wrapped exactly when it is negative.
LEMMA WrappedIs ==
  ASSUME BaseInv, LoopInv, Delivering
  PROVE  Wrapped <=> count < 0
<1>1. count \in Int /\ uncounted \in Nat
  BY Opened
<1> QED  BY <1>1, CountedLeft DEF Wrapped

\* m_callback_count is how many of the packaged callbacks are still there, less
\* one for every callback it did not count that was removed in the delivery.
THEOREM CallbacksCount == Spec => []CountLacksUncounted
<1>1. BaseInv /\ LoopInv => CountLacksUncounted
  <2>1. SUFFICES ASSUME BaseInv, LoopInv, Delivering
                 PROVE  count = Cardinality(packaged \cap Present) - uncounted
    BY DEF CountLacksUncounted
  <2>2. count \in Int /\ uncounted \in Nat
    BY <2>1, Opened
  <2>3. count + uncounted = Cardinality(packaged \cap Present)
    BY <2>1, CountedLeft
  <2> QED  BY <2>2, <2>3
<1> QED  BY <1>1, CallbacksLoop, PTL

\* for_each_callback reads m_callbacks past its end only after more callbacks it
\* never counted were removed than counted ones are left.
THEOREM CallbacksLoopStaysInside == Spec => []LoopStaysInside
<1>1. BaseInv /\ LoopInv => LoopStaysInside
  BY WrappedIs DEF LoopInv, StopInv, LoopStaysInside, Delivering
<1> QED  BY <1>1, CallbacksLoop, PTL

\* A pass calls callbacks in order and none twice, and one that was not
\* packaged only if the count has wrapped.
THEOREM CallbacksCalledOnce == Spec => []CalledOnce
<1>1. BaseInv /\ LoopInv => CalledOnce
  <2>1. SUFFICES ASSUME BaseInv, LoopInv PROVE CalledOnce
    OBVIOUS
  <2>2. count \in Int
    BY <2>1, Opened
  <2> QED  BY <2>1, <2>2, WrappedIs DEF LoopInv, CallInv, CalledOnce, ToSet
<1> QED  BY <1>1, CallbacksLoop, PTL

\* Each change a callback is to hear of is delivered, once, or still waits,
\* unless a pass has missed the callback.
THEOREM CallbacksNoChangeIsLost == Spec => []NoChangeIsLost
<1>1. LoopInv => NoChangeIsLost
  BY DEF LoopInv, ChangeInv, NoChangeIsLost
<1> QED  BY <1>1, CallbacksLoop, PTL

\* A pass misses at most as many packaged callbacks as uncounted ones were
\* removed while it was delivered.
THEOREM CallbacksMissedForRemoved == Spec => MissedForRemoved
<1>1. ASSUME BaseInv, LoopInv, [Next]_vars
      PROVE  Cardinality(missed' \ missed) <= uncounted
  <2>1. uncounted \in Nat
    BY <1>1, Opened
  <2>2. CASE UNCHANGED missed
    BY <2>1, <2>2, FS_EmptySet
  <2>3. CASE at = "loop" /\ ~InLoop(index + 1) /\ missed' = missed \cup Behind
    <3>1. missed' \ missed \subseteq Behind
      BY <2>3
    <3>2. IsFiniteSet(Behind) /\ Cardinality(Behind) <= uncounted
      BY <1>1, <2>3, FewBehind
    <3>3. /\ Cardinality(missed' \ missed) <= Cardinality(Behind)
          /\ Cardinality(missed' \ missed) \in Nat /\ Cardinality(Behind) \in Nat
      BY <3>1, <3>2, FS_Subset, FS_CardinalityType
    <3> QED  BY <2>1, <3>2, <3>3
  <2>4. UNCHANGED missed \/ (at = "loop" /\ ~InLoop(index + 1) /\ missed' = missed \cup Behind)
    BY <1>1 DEF Next, vars, history, shared, AddCallback, RemoveCallback, Erase, SuppressNext,
       AddChanges, Package, StartLoop, DeliverError, Iterate, Return, RemoveAfterError
  <2> QED  BY <2>2, <2>3, <2>4
<1> QED  BY <1>1, CallbacksLoop, PTL DEF Spec, MissedForRemoved

=============================================================================
