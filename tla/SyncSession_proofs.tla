------------------------- MODULE SyncSession_proofs -------------------------
(***************************************************************************)
(* Proofs about SyncSession for any number of threads, callbacks, sessions *)
(* and calls: a callback is called once, a running session has its client, *)
(* whoever is referenced is registered, who waits in a running session is  *)
(* owed an answer by an operation of the sync client, and a death that the *)
(* client ends has everything uploaded.                                    *)
(***************************************************************************)
EXTENDS SyncSession, SeqLemmas

-----------------------------------------------------------------------------
(* The invariant *)

Sess == [state : {"waiting", "active", "dying", "inactive"}, client : Nat,
         made : Nat, known : Nat, deferred : Nat, deferredClose : BOOLEAN,
         deaths : Nat, waits : [Directions -> SUBSET Waits]]

Objects == 1 .. Len(ses)

StepNames ==
  {"revive", "dropped", "logOut", "configure", "unlockManager", "reference", "unregister",
   "register", "endLogOut", "invalidateHandles", "invalidate", "bind",
   "closeFile", "otherFatal", "authentication", "tokenExpired", "nonfatal"}
Results == {"ok", "cancelled", "failed"}

\* The steps a thread may have to do; only two of them have no session.
OwnSteps(S) ==
  {e \in [do : StepNames, s : S \cup {None}] :
      e.do \notin {"endLogOut", "invalidateHandles"} => e.s \in S}

\* Those that have nothing to do with the manager's mutex.
PlainSteps(S) == {e \in OwnSteps(S) : e.do \notin {"reference", "unlockManager"}}

TypeInv ==
  /\ ses \in Seq(Sess) /\ refs \in Seq(Nat) /\ Len(refs) = Len(ses)
  /\ Len(ses) <= MaxSessions
  /\ registered \in Objects \cup {None}
  /\ userSession \in Objects \cup {None} /\ waitingSession \in Objects \cup {None}
  /\ handle \in [session : Objects \cup {None}, strong : BOOLEAN]
  /\ version \in Nat
  /\ todo \in [AllThreads -> Seq(OwnSteps(Objects))]
  /\ answer \in [Waits -> Seq(Results)]
  /\ \A op \in DOMAIN ops : op.s \in Objects

\* A callback waits in one place at most, and has then not been called.
WaitInv ==
  \A s \in Objects, d \in Directions, w \in Waits : w \in ses[s].waits[d] =>
      /\ answer[w] = <<>>
      /\ \A r \in Objects, e \in Directions : w \in ses[r].waits[e] => r = s /\ e = d

ClientOf(x) == /\ x.state \in {"active", "dying"} => x.client # 0
               /\ x.state = "inactive" => x.client = 0
ClientInv == \A s \in Objects : ClientOf(ses[s])

\* The thread that has yet to reference a session holds the manager's mutex,
\* the session is the registered one, and unlocking is the last it does.
LockInv ==
  \A t \in AllThreads : \A i \in 1 .. Len(todo[t]) :
      /\ todo[t][i].do = "reference" =>
            managerLock = t /\ registered = todo[t][i].s
      /\ todo[t][i].do = "unlockManager" => managerLock = t /\ i = Len(todo[t])

RefInv == \A s \in Objects : refs[s] > 0 => registered = s

IInv == TypeInv /\ AnsweredOnce /\ WaitInv /\ ClientInv /\ LockInv /\ RefInv

-----------------------------------------------------------------------------
(* Sequences of steps *)

\* What Then leaves a thread to do.
LEMMA ThenSteps ==
  ASSUME NEW S, todo \in [AllThreads -> Seq(S)],
         NEW t \in AllThreads, NEW steps \in Seq(S), Then(t, steps)
  PROVE  /\ todo' \in [AllThreads -> Seq(S)]
         /\ \A u \in AllThreads : u # t => todo'[u] = todo[u]
         /\ Len(todo'[t]) = Len(steps) + (IF todo[t] = <<>> THEN 0 ELSE Len(todo[t]) - 1)
         /\ \A i \in 1 .. Len(todo'[t]) :
               \/ i \in 1 .. Len(steps) /\ todo'[t][i] = steps[i]
               \/ \E j \in 1 .. Len(todo[t]) :
                     /\ todo'[t][i] = todo[t][j]
                     /\ j = Len(todo[t]) => i = Len(todo'[t])
<1> DEFINE rest == IF todo[t] = <<>> THEN <<>> ELSE Tail(todo[t])
<1>1. todo[t] \in Seq(S) /\ Len(todo[t]) \in Nat
  BY SeqLen
<1>2. /\ rest \in Seq(S) /\ Len(rest) \in Nat
      /\ \A i \in 1 .. Len(rest) : rest[i] = todo[t][i + 1] /\ i + 1 \in 1 .. Len(todo[t])
      /\ Len(rest) > 0 => Len(todo[t]) = Len(rest) + 1
  <2>1. CASE todo[t] = <<>>
    BY <2>1, EmptySeq
  <2>2. CASE todo[t] # <<>>
    <3>1. /\ Tail(todo[t]) \in Seq(S) /\ Len(Tail(todo[t])) = Len(todo[t]) - 1
          /\ \A i \in 1 .. Len(todo[t]) - 1 : Tail(todo[t])[i] = todo[t][i + 1]
      BY <1>1, <2>2, HeadTailProperties
    <3>2. Len(todo[t]) > 0
      BY <1>1, <2>2, SeqLen
    <3> QED  BY <1>1, <2>2, <3>1, <3>2
  <2> QED  BY <2>1, <2>2
<1>3. todo' = [todo EXCEPT ![t] = steps \o rest]
  BY DEF Then
<1> HIDE DEF rest
<1>4. todo'[t] = steps \o rest /\ \A u \in AllThreads : u # t => todo'[u] = todo[u]
  BY <1>3
<1>5. /\ steps \o rest \in Seq(S) /\ Len(steps \o rest) = Len(steps) + Len(rest)
      /\ \A i \in 1 .. Len(steps) + Len(rest) :
            (steps \o rest)[i] = IF i <= Len(steps) THEN steps[i] ELSE rest[i - Len(steps)]
  BY <1>2, ConcatProperties, ZenonT(30)
<1>6. todo' \in [AllThreads -> Seq(S)]
  BY <1>3, <1>5
<1>7. Len(steps) \in Nat
  BY SeqLen
<1>8. ASSUME NEW i \in 1 .. Len(todo'[t])
      PROVE  \/ i \in 1 .. Len(steps) /\ todo'[t][i] = steps[i]
             \/ \E j \in 1 .. Len(todo[t]) :
                   /\ todo'[t][i] = todo[t][j]
                   /\ j = Len(todo[t]) => i = Len(todo'[t])
  <2>1. CASE i <= Len(steps)
    BY <1>4, <1>5, <1>7, <1>2, <2>1
  <2>2. CASE ~(i <= Len(steps))
    <3> DEFINE k == i - Len(steps)
    <3>1. k \in 1 .. Len(rest) /\ Len(todo'[t]) = Len(steps) + Len(rest)
      BY <1>2, <1>4, <1>5, <1>7, <2>2
    <3>2. todo'[t][i] = rest[k]
      <4>1. i \in 1 .. Len(steps) + Len(rest)
        BY <3>1
      <4> QED  BY <1>4, <1>5, <2>2, <4>1, Zenon
    <3>3. todo'[t][i] = todo[t][k + 1] /\ k + 1 \in 1 .. Len(todo[t])
      BY <1>2, <3>1, <3>2
    <3>4. k + 1 = Len(todo[t]) => i = Len(todo'[t])
      BY <1>2, <1>7, <3>1
    <3> HIDE DEF k
    <3> QED  BY <3>3, <3>4
  <2> QED  BY <2>1, <2>2
<1>9. Len(todo'[t]) = Len(steps) + (IF todo[t] = <<>> THEN 0 ELSE Len(todo[t]) - 1)
  <2>1. Len(rest) = IF todo[t] = <<>> THEN 0 ELSE Len(todo[t]) - 1
    <3>1. CASE todo[t] = <<>>
      BY <3>1 DEF rest
    <3>2. CASE todo[t] # <<>>
      BY <1>1, <3>2, HeadTailProperties DEF rest
    <3> QED  BY <3>1, <3>2
  <2> QED  BY <1>4, <1>5, <2>1
<1> QED  BY <1>4, <1>6, <1>8, <1>9

\* A thread that replaces a step by plain ones keeps the order of the mutex.
LEMMA PlainKeepsLock ==
  ASSUME TypeInv, LockInv, NEW t \in AllThreads,
         NEW steps \in Seq(PlainSteps(Objects)), Then(t, steps),
         registered' = registered, managerLock' = managerLock
  PROVE  todo' \in [AllThreads -> Seq(OwnSteps(Objects))] /\ LockInv'
<1>1. steps \in Seq(OwnSteps(Objects)) /\ \A i \in 1 .. Len(steps) : steps[i] \in PlainSteps(Objects)
  <2>1. PlainSteps(Objects) \subseteq OwnSteps(Objects)
    BY DEF PlainSteps
  <2> QED  BY <2>1, SeqDef, ElementOfSeq
<1>2. todo \in [AllThreads -> Seq(OwnSteps(Objects))]
  BY DEF TypeInv
<1>3. /\ todo' \in [AllThreads -> Seq(OwnSteps(Objects))]
      /\ \A u \in AllThreads : u # t => todo'[u] = todo[u]
      /\ \A i \in 1 .. Len(todo'[t]) :
               \/ i \in 1 .. Len(steps) /\ todo'[t][i] = steps[i]
               \/ \E j \in 1 .. Len(todo[t]) :
                     /\ todo'[t][i] = todo[t][j]
                     /\ j = Len(todo[t]) => i = Len(todo'[t])
  BY <1>1, <1>2, ThenSteps
<1>4. ASSUME NEW u \in AllThreads, NEW i \in 1 .. Len(todo'[u])
      PROVE  /\ todo'[u][i].do = "reference" =>
                   managerLock = u /\ registered = todo'[u][i].s
             /\ todo'[u][i].do = "unlockManager" => managerLock = u /\ i = Len(todo'[u])
  <2>1. CASE u # t
    BY <1>3, <2>1 DEF LockInv
  <2>2. CASE u = t /\ i \in 1 .. Len(steps) /\ todo'[t][i] = steps[i]
    BY <1>1, <2>2 DEF PlainSteps
  <2>3. ASSUME u = t, NEW j \in 1 .. Len(todo[t]), todo'[t][i] = todo[t][j],
               j = Len(todo[t]) => i = Len(todo'[t])
        PROVE  /\ todo'[u][i].do = "reference" =>
                   managerLock = u /\ registered = todo'[u][i].s
               /\ todo'[u][i].do = "unlockManager" => managerLock = u /\ i = Len(todo'[u])
    BY <2>3 DEF LockInv
  <2> QED  BY <1>3, <2>1, <2>2, <2>3
<1> QED  BY <1>3, <1>4 DEF LockInv

-----------------------------------------------------------------------------
(* What the steps on one session do *)

\* A step on session s leaves it as x, moves thread t on by plain steps, and
\* calls the callbacks it takes from x.
Calls(s, x) ==
  \/ answer' = answer /\ x.waits = ses[s].waits
  \/ \E dirs \in SUBSET Directions, how \in Results :
        /\ answer' = Called(s, dirs, how)
        /\ x.waits = [d \in Directions |-> IF d \in dirs THEN {} ELSE ses[s].waits[d]]
  \/ \E w \in Waits, e \in Directions :
        /\ answer' = answer /\ answer[w] = <<>>
        /\ \A r \in Objects, d \in Directions : w \notin ses[r].waits[d]
        /\ x.waits = [ses[s].waits EXCEPT ![e] = @ \cup {w}]

Moves(t) ==
  todo' = todo \/ \E steps \in Seq(PlainSteps(Objects)) : Then(t, steps)

Effect(t) ==
  \/ UNCHANGED <<ses, ops, answer, todo>>
  \/ \E s \in Objects, x \in Sess :
        /\ ses' = [ses EXCEPT ![s] = x]
        /\ ClientOf(x) /\ Calls(s, x) /\ Moves(t)
        /\ \A op \in DOMAIN ops' : op \in DOMAIN ops \/ op.s = s

\* Calling the callbacks it takes keeps WaitInv and AnsweredOnce.
LEMMA CallsOnce ==
  ASSUME TypeInv, WaitInv, AnsweredOnce, NEW s \in Objects, NEW x \in Sess,
         ses' = [ses EXCEPT ![s] = x], Calls(s, x)
  PROVE  answer' \in [Waits -> Seq(Results)] /\ WaitInv' /\ AnsweredOnce'
<1>1. /\ ses \in Seq(Sess) /\ answer \in [Waits -> Seq(Results)] /\ Objects' = Objects
      /\ ses'[s] = x /\ \A r \in Objects : r # s => ses'[r] = ses[r]
  BY ReplaceAtSeq, SeqLen DEF TypeInv, Objects
<1>2. \A r \in Objects, d \in Directions : ses[r].waits[d] \subseteq Waits
  <2>1. \A r \in Objects : ses[r] \in Sess
    BY <1>1, ElementOfSeq DEF Objects
  <2> QED  BY <2>1 DEF Sess
<1>3. CASE answer' = answer /\ x.waits = ses[s].waits
  <2>1. \A r \in Objects : ses'[r].waits = ses[r].waits
    BY <1>1, <1>3
  <2> QED  BY <1>1, <1>3, <2>1 DEF WaitInv, AnsweredOnce
<1>4. ASSUME NEW dirs \in SUBSET Directions, NEW how \in Results,
             answer' = Called(s, dirs, how),
             x.waits = [d \in Directions |-> IF d \in dirs THEN {} ELSE ses[s].waits[d]]
      PROVE  answer' \in [Waits -> Seq(Results)] /\ WaitInv' /\ AnsweredOnce'
  <2>1. ASSUME NEW w \in Waits, NEW d \in dirs, w \in ses[s].waits[d]
        PROVE  answer'[w] = Append(answer[w], how) /\ answer[w] = <<>>
    BY <1>1, <1>4, <2>1 DEF Called, WaitInv
  <2>2. ASSUME NEW w \in Waits, \A d \in dirs : w \notin ses[s].waits[d]
        PROVE  answer'[w] = answer[w]
    BY <1>1, <1>4, <2>2 DEF Called
  <2>3. answer' \in [Waits -> Seq(Results)]
    <3>1. ASSUME NEW w \in Waits  PROVE Append(answer[w], how) \in Seq(Results)
      BY <1>1, AppendProperties
    <3> QED  BY <1>1, <1>4, <3>1 DEF Called
  <2>4. AnsweredOnce'
    <3>1. ASSUME NEW w \in Waits  PROVE Len(answer'[w]) <= 1
      <4>1. CASE \E d \in dirs : w \in ses[s].waits[d]
        <5>1. answer'[w] = Append(<<>>, how)
          BY <2>1, <4>1
        <5> QED  BY <5>1
      <4>2. CASE \A d \in dirs : w \notin ses[s].waits[d]
        BY <2>2, <4>2 DEF AnsweredOnce
      <4> QED  BY <4>1, <4>2
    <3> QED  BY <3>1 DEF AnsweredOnce
  <2>5. ASSUME NEW r \in Objects, NEW d \in Directions
        PROVE  /\ ses'[r].waits[d] \subseteq ses[r].waits[d]
               /\ r = s /\ d \in dirs => ses'[r].waits[d] = {}
    BY <1>1, <1>4
  <2>6. ASSUME NEW r \in Objects, NEW d \in Directions, NEW w \in Waits,
               w \in ses'[r].waits[d]
        PROVE  \A e \in dirs : w \notin ses[s].waits[e]
    BY <2>5, <2>6 DEF WaitInv
  <2>7. WaitInv'
    BY <1>1, <2>2, <2>5, <2>6 DEF WaitInv
  <2> QED  BY <2>3, <2>4, <2>7
<1>5. ASSUME NEW w \in Waits, NEW e \in Directions,
             answer' = answer, answer[w] = <<>>,
             \A r \in Objects, d \in Directions : w \notin ses[r].waits[d],
             x.waits = [ses[s].waits EXCEPT ![e] = @ \cup {w}]
      PROVE  answer' \in [Waits -> Seq(Results)] /\ WaitInv' /\ AnsweredOnce'
  <2> DEFINE ww == ses[s].waits
  <2>1. ww \in [Directions -> SUBSET Waits]
    <3>1. ses[s] \in Sess
      BY <1>1, ElementOfSeq DEF Objects
    <3> QED  BY <3>1 DEF Sess
  <2>2. ASSUME NEW r \in Objects, NEW d \in Directions
        PROVE  ses'[r].waits[d] = IF r = s /\ d = e THEN ses[r].waits[d] \cup {w}
                                                    ELSE ses[r].waits[d]
    <3>1. CASE r # s
      BY <1>1, <3>1
    <3>2. CASE r = s
      <4>1. x.waits[d] = IF d = e THEN ww[d] \cup {w} ELSE ww[d]
        <5>1. x.waits = [ww EXCEPT ![e] = ww[e] \cup {w}]
          BY <1>5
        <5> HIDE DEF ww
        <5> QED  BY <2>1, <5>1
      <4> QED  BY <1>1, <3>2, <4>1
    <3> QED  BY <3>1, <3>2
  <2> HIDE DEF ww
  <2>3. WaitInv'
    <3>1. SUFFICES ASSUME NEW r \in Objects, NEW d \in Directions, NEW v \in Waits,
                          v \in ses'[r].waits[d]
                   PROVE  /\ answer[v] = <<>>
                          /\ \A q \in Objects, f \in Directions :
                                v \in ses'[q].waits[f] => q = r /\ f = d
      BY <1>1, <1>5 DEF WaitInv
    <3>2. CASE v = w
      <4>1. ASSUME NEW q \in Objects, NEW f \in Directions, v \in ses'[q].waits[f]
            PROVE  q = s /\ f = e
        <5>1. w \notin ses[q].waits[f]
          BY <1>5
        <5>2. ses'[q].waits[f] = IF q = s /\ f = e THEN ses[q].waits[f] \cup {w}
                                                   ELSE ses[q].waits[f]
          BY <2>2
        <5> QED  BY <3>2, <4>1, <5>1, <5>2, Zenon
      <4> QED  BY <1>5, <3>1, <3>2, <4>1
    <3>3. CASE v # w
      <4>1. ASSUME NEW q \in Objects, NEW f \in Directions, v \in ses'[q].waits[f]
            PROVE  v \in ses[q].waits[f]
        <5>1. ses'[q].waits[f] = IF q = s /\ f = e THEN ses[q].waits[f] \cup {w}
                                                   ELSE ses[q].waits[f]
          BY <2>2
        <5>2. CASE q = s /\ f = e
          BY <3>3, <4>1, <5>1, <5>2
        <5>3. CASE ~(q = s /\ f = e)
          BY <4>1, <5>1, <5>3
        <5> QED  BY <5>2, <5>3
      <4> QED  BY <3>1, <4>1 DEF WaitInv
    <3> QED  BY <3>2, <3>3
  <2> QED  BY <1>1, <1>5, <2>3 DEF AnsweredOnce
<1> QED  BY <1>3, <1>4, <1>5 DEF Calls

\* A step that leaves the sessions alone.
LEMMA QuietStep ==
  ASSUME IInv, NEW t \in AllThreads, Moves(t),
         UNCHANGED <<ses, ops, answer, refs, registered, managerLock>>,
         userSession' \in Objects \cup {None}, waitingSession' \in Objects \cup {None},
         handle' \in [session : Objects \cup {None}, strong : BOOLEAN],
         version' \in Nat
  PROVE  IInv'
<1>1. todo' \in [AllThreads -> Seq(OwnSteps(Objects))] /\ LockInv'
  <2>1. CASE todo' = todo
    BY <2>1 DEF IInv, TypeInv, LockInv
  <2>2. CASE \E steps \in Seq(PlainSteps(Objects)) : Then(t, steps)
    BY <2>2, PlainKeepsLock DEF IInv
  <2> QED  BY <2>1, <2>2 DEF Moves
<1>2. Objects' = Objects
  BY DEF Objects
<1>3. TypeInv'
  BY <1>1, <1>2 DEF IInv, TypeInv
<1>4. AnsweredOnce' /\ WaitInv' /\ ClientInv' /\ RefInv'
  BY <1>2 DEF IInv, AnsweredOnce, WaitInv, ClientInv, RefInv
<1> QED  BY <1>1, <1>3, <1>4 DEF IInv

\* A step on one session.
LEMMA EffectStep ==
  ASSUME IInv, NEW t \in AllThreads, Effect(t),
         UNCHANGED <<refs, managerVars, userVars>>,
         handle' \in [session : Objects \cup {None}, strong : BOOLEAN],
         version' \in Nat
  PROVE  IInv'
<1>1. CASE UNCHANGED <<ses, ops, answer, todo>>
  <2>1. Moves(t)
    BY <1>1 DEF Moves
  <2>2. userSession' \in Objects \cup {None} /\ waitingSession' \in Objects \cup {None}
    BY DEF IInv, TypeInv, userVars
  <2>3. UNCHANGED <<ses, ops, answer, refs, registered, managerLock>>
    BY <1>1 DEF managerVars
  <2> QED  BY <2>1, <2>2, <2>3, QuietStep
<1>2. ASSUME NEW s \in Objects, NEW x \in Sess, ses' = [ses EXCEPT ![s] = x],
             ClientOf(x), Calls(s, x), Moves(t),
             \A op \in DOMAIN ops' : op \in DOMAIN ops \/ op.s = s
      PROVE  IInv'
  <2>1. /\ ses' \in Seq(Sess) /\ Len(ses') = Len(ses) /\ Objects' = Objects
        /\ ses'[s] = x /\ \A r \in Objects : r # s => ses'[r] = ses[r]
    BY <1>2, ReplaceAtSeq, SeqLen DEF IInv, TypeInv, Objects
  <2>2. todo' \in [AllThreads -> Seq(OwnSteps(Objects))] /\ LockInv'
    <3>1. CASE todo' = todo
      BY <3>1 DEF IInv, TypeInv, LockInv, managerVars
    <3>2. CASE \E steps \in Seq(PlainSteps(Objects)) : Then(t, steps)
      BY <3>2, PlainKeepsLock DEF IInv, managerVars
    <3> QED  BY <1>2, <3>1, <3>2 DEF Moves
  <2>3. answer' \in [Waits -> Seq(Results)] /\ WaitInv' /\ AnsweredOnce'
    BY <1>2, CallsOnce DEF IInv
  <2>4. TypeInv'
    BY <1>2, <2>1, <2>2, <2>3 DEF IInv, TypeInv, managerVars, userVars
  <2>5. ClientInv'
    BY <1>2, <2>1 DEF IInv, ClientInv
  <2>6. RefInv'
    BY <2>1 DEF IInv, RefInv, managerVars
  <2> QED  BY <2>2, <2>3, <2>4, <2>5, <2>6 DEF IInv
<1> QED  BY <1>1, <1>2 DEF Effect

-----------------------------------------------------------------------------
(* The handlers of the states *)

\* What a section gives a thread to do is plain.
LEMMA OnePlain ==
  ASSUME NEW s \in Objects
  PROVE  /\ <<>> \in Seq(PlainSteps(Objects))
         /\ \A do \in {"unregister", "bind", "configure", "revive", "logOut", "register",
                       "dropped", "closeFile", "otherFatal", "authentication",
                       "tokenExpired", "nonfatal", "invalidate"} :
               /\ Step(do, s) \in PlainSteps(Objects)
               /\ <<Step(do, s)>> \in Seq(PlainSteps(Objects))
<1>1. ASSUME NEW do \in {"unregister", "bind", "configure", "revive", "logOut", "register",
                       "dropped", "closeFile", "otherFatal", "authentication",
                       "tokenExpired", "nonfatal", "invalidate"}
      PROVE  Step(do, s) \in PlainSteps(Objects)
  BY DEF Step, PlainSteps, OwnSteps, StepNames
<1> HIDE DEF Step
<1> QED  BY <1>1

\* Which operations a bag has.
LEMMA MoreOps ==
  ASSUME NEW B, NEW C
  PROVE  /\ DOMAIN (B (+) C) = DOMAIN B \cup DOMAIN C
         /\ DOMAIN (B (-) C) \subseteq DOMAIN B
BY DEF (+), (-)

LEMMA OfSession ==
  ASSUME NEW s, NEW x
  PROVE  /\ \A kind : \A op \in DOMAIN SetToBag({Op(kind, s, x)}) : op.s = s
         /\ \A op \in DOMAIN WaitOps(s, x) : op.s = s
BY DEF SetToBag, WaitOps, Op

LEMMA NoOps == DOMAIN EmptyBag = {}
BY DEF SetToBag, EmptyBag

\* What is known of a session.
LEMMA SessionFacts ==
  ASSUME TypeInv, ClientInv, NEW s \in Objects
  PROVE  ses[s] \in Sess /\ ClientOf(ses[s])
BY ElementOfSeq DEF TypeInv, ClientInv, Objects

\* A section that changes no waiting callback.
LEMMA SectionEffect ==
  ASSUME TypeInv, NEW t \in AllThreads, NEW s \in Objects, NEW x \in Sess,
         ClientOf(x), x.waits = ses[s].waits,
         NEW more, \A op \in DOMAIN more : op.s = s,
         NEW steps \in Seq(PlainSteps(Objects)), Section(t, s, x, more, steps)
  PROVE  Effect(t)
<1>1. ses' = [ses EXCEPT ![s] = x] /\ ops' = ops (+) more /\ Then(t, steps) /\ answer' = answer
  BY DEF Section
<1>2. \A op \in DOMAIN ops' : op \in DOMAIN ops \/ op.s = s
  <2>1. DOMAIN ops' = DOMAIN ops \cup DOMAIN more
    BY <1>1, MoreOps, Zenon
  <2> QED  BY <2>1, Zenon
<1> QED  BY <1>1, <1>2 DEF Effect, Calls, Moves

\* A section that does nothing.
LEMMA NothingEffect ==
  ASSUME TypeInv, ClientInv, NEW t \in AllThreads, NEW s \in Objects, Nothing(t, s)
  PROVE  Effect(t)
<1>1. ses[s] \in Sess /\ ClientOf(ses[s])
  BY SessionFacts
<1>2. \A op \in DOMAIN EmptyBag : op.s = s
  BY NoOps, OnePlain
<1>3. <<>> \in Seq(PlainSteps(Objects))
  OBVIOUS
<1> QED  BY <1>1, <1>2, <1>3, SectionEffect DEF Nothing

\* The callbacks are called, the client is gone and unregister follows.
LEMMA AdvanceInactiveEffect ==
  ASSUME TypeInv, ClientInv, NEW t \in AllThreads, NEW s \in Objects,
         NEW rest \in Seq(PlainSteps(Objects)), AdvanceInactive(t, s, rest)
  PROVE  Effect(t)
<1> DEFINE x == Stopped(ses[s])
<1>1. CASE aborted' = TRUE /\ UNCHANGED <<ses, ops, answer, todo>>
  BY <1>1 DEF Effect
<1>2. CASE /\ ses' = [ses EXCEPT ![s] = Stopped(@)]
           /\ answer' = Called(s, Directions, "cancelled")
           /\ Then(t, <<Step("unregister", s)>> \o rest)
           /\ ops' = ops
  <2>1. ses[s] \in Sess
    BY SessionFacts
  <2>2. x \in Sess /\ ClientOf(x) /\ x.waits = NoWaits
    BY <2>1 DEF Stopped, Sess, ClientOf, NoWaits
  <2>3. ses' = [ses EXCEPT ![s] = x]
    BY <1>2
  <2>4. x.waits = [d \in Directions |-> IF d \in Directions THEN {} ELSE ses[s].waits[d]]
    BY <2>2 DEF NoWaits
  <2>5. Calls(s, x)
    <3>1. "cancelled" \in Results /\ Directions \in SUBSET Directions
      BY DEF Results
    <3> HIDE DEF x
    <3> QED  BY <1>2, <2>4, <3>1, Zenon DEF Calls
  <2>6. <<Step("unregister", s)>> \o rest \in Seq(PlainSteps(Objects))
    BY OnePlain, ConcatProperties
  <2>7. Moves(t)
    BY <1>2, <2>6 DEF Moves
  <2> HIDE DEF x
  <2> QED  BY <1>2, <2>2, <2>3, <2>5, <2>7 DEF Effect
<1> QED  BY <1>1, <1>2 DEF AdvanceInactive

\* A session begins to die.
LEMMA AdvanceDyingEffect ==
  ASSUME TypeInv, NEW t \in AllThreads, NEW s \in Objects, NEW x \in Sess,
         x.client # 0, x.waits = ses[s].waits,
         NEW more, \A op \in DOMAIN more : op.s = s, AdvanceDying(t, s, x, more)
  PROVE  Effect(t)
<1> DEFINE y == [x EXCEPT !.state = "dying", !.deaths = @ + 1]
           all == more (+) SetToBag({Op("death", s, y)})
<1>1. y \in Sess /\ y.state = "dying" /\ y.client = x.client /\ y.waits = ses[s].waits
  <2>1. x.deaths + 1 \in Nat
    BY DEF Sess
  <2>2. y = [[x EXCEPT !.state = "dying"] EXCEPT !.deaths = x.deaths + 1]
    BY DEF Sess
  <2>3. [x EXCEPT !.state = "dying"] \in Sess
    BY DEF Sess
  <2> QED  BY <2>1, <2>2, <2>3 DEF Sess
<1> HIDE DEF y
<1>5. ClientOf(y)
  BY <1>1 DEF ClientOf
<1> USE DEF y
<1>2. Section(t, s, y, all, <<>>)
  BY DEF AdvanceDying
<1>3. \A op \in DOMAIN all : op.s = s
  <2> DEFINE one == SetToBag({Op("death", s, y)})
  <2> HIDE DEF y
  <2>1. \A op \in DOMAIN one : op.s = s
    BY OfSession, Zenon
  <2> HIDE DEF one
  <2>2. DOMAIN (more (+) one) = DOMAIN more \cup DOMAIN one
    BY MoreOps, Zenon
  <2>3. all = more (+) one
    BY DEF one
  <2> HIDE DEF all
  <2> QED  BY <2>1, <2>2, <2>3
<1>4. <<>> \in Seq(PlainSteps(Objects))
  OBVIOUS
<1> HIDE DEF y, all
<1> QED  BY <1>1, <1>2, <1>3, <1>4, <1>5, SectionEffect

\* A dying session lives on.
LEMMA AdvanceActiveEffect ==
  ASSUME TypeInv, ClientInv, NEW t \in AllThreads, NEW s \in Objects,
         ses[s].state = "dying", AdvanceActive(t, s)
  PROVE  Effect(t)
<1> DEFINE x == [ses[s] EXCEPT !.state = "active"]
<1>1. ses[s] \in Sess /\ ClientOf(ses[s])
  BY SessionFacts
<1>2. x \in Sess /\ ClientOf(x) /\ x.waits = ses[s].waits
  BY <1>1 DEF Sess, ClientOf
<1>3. Section(t, s, x, WaitOps(s, x), <<>>)
  BY DEF AdvanceActive
<1>4. \A op \in DOMAIN WaitOps(s, x) : op.s = s
  BY OfSession
<1>5. <<>> \in Seq(PlainSteps(Objects))
  OBVIOUS
<1> HIDE DEF x
<1> QED  BY <1>2, <1>3, <1>4, <1>5, SectionEffect

\* A session asks for a token.
LEMMA AdvanceWaitingEffect ==
  ASSUME TypeInv, ClientInv, NEW t \in AllThreads, NEW s \in Objects, AdvanceWaiting(t, s)
  PROVE  Effect(t)
<1> DEFINE x == [ses[s] EXCEPT !.state = "waiting", !.deferredClose = FALSE]
<1>1. ses[s] \in Sess
  BY SessionFacts
<1>2. x \in Sess /\ ClientOf(x) /\ x.waits = ses[s].waits
  BY <1>1 DEF Sess, ClientOf
<1>3. Section(t, s, x, EmptyBag, <<Step("bind", s)>>)
  BY DEF AdvanceWaiting
<1>4. \A op \in DOMAIN EmptyBag : op.s = s
  BY NoOps, OnePlain
<1>5. <<Step("bind", s)>> \in Seq(PlainSteps(Objects))
  BY OnePlain
<1> HIDE DEF x
<1> QED  BY <1>2, <1>3, <1>4, <1>5, SectionEffect

\* A session is closed.
LEMMA CloseEffect ==
  ASSUME TypeInv, ClientInv, NEW t \in AllThreads, NEW s \in Objects, Close(t, s)
  PROVE  Effect(t)
<1>1. ses[s] \in Sess /\ ClientOf(ses[s])
  BY SessionFacts
<1>2. <<>> \in Seq(PlainSteps(Objects)) /\ \A op \in DOMAIN EmptyBag : op.s = s
  BY NoOps, OnePlain
<1>3. CASE AdvanceInactive(t, s, <<>>)
  BY <1>2, <1>3, AdvanceInactiveEffect
<1>4. CASE /\ ses[s].state = "waiting"
           /\ Section(t, s, [ses[s] EXCEPT !.deferredClose = TRUE], EmptyBag, <<>>)
  <2> DEFINE x == [ses[s] EXCEPT !.deferredClose = TRUE]
  <2>1. x \in Sess /\ ClientOf(x) /\ x.waits = ses[s].waits
    BY <1>1, <1>4 DEF Sess, ClientOf
  <2>2. Section(t, s, x, EmptyBag, <<>>)
    BY <1>4
  <2> HIDE DEF x
  <2> QED  BY <1>2, <2>1, <2>2, SectionEffect
<1>5. CASE ses[s].state = "active" /\ AdvanceDying(t, s, ses[s], EmptyBag)
  BY <1>1, <1>2, <1>5, AdvanceDyingEffect DEF ClientOf
<1>6. CASE Nothing(t, s)
  BY <1>6, NothingEffect
<1>7. CASE Section(t, s, ses[s], EmptyBag, <<Step("unregister", s)>>)
  <2>1. <<Step("unregister", s)>> \in Seq(PlainSteps(Objects))
    BY OnePlain
  <2> QED  BY <1>1, <1>2, <1>7, <2>1, SectionEffect
<1> QED  BY <1>3, <1>4, <1>5, <1>6, <1>7 DEF Close

\* A session is closed at once.
LEMMA CloseNowEffect ==
  ASSUME TypeInv, ClientInv, NEW t \in AllThreads, NEW s \in Objects, CloseNow(t, s)
  PROVE  Effect(t)
<1>1. <<>> \in Seq(PlainSteps(Objects))
  OBVIOUS
<1> QED  BY <1>1, AdvanceInactiveEffect, NothingEffect DEF CloseNow

\* An error cancels the callbacks that wait.
LEMMA CancelWaitsEffect ==
  ASSUME TypeInv, ClientInv, Loop \in AllThreads, NEW s \in Objects,
         NEW steps \in Seq(PlainSteps(Objects)), CancelWaits(s, steps)
  PROVE  Effect(Loop)
<1> DEFINE x == [ses[s] EXCEPT !.waits = NoWaits]
<1>1. ses[s] \in Sess /\ ClientOf(ses[s])
  BY SessionFacts
<1>2. x \in Sess /\ ClientOf(x) /\ x.waits = NoWaits
  BY <1>1 DEF Sess, ClientOf, NoWaits
<1>3. ses' = [ses EXCEPT ![s] = x]
  <2>1. ses' = [ses EXCEPT ![s].waits = NoWaits]
    BY DEF CancelWaits
  <2> QED  BY <2>1
<1>4. x.waits = [d \in Directions |-> IF d \in Directions THEN {} ELSE ses[s].waits[d]]
  BY <1>2 DEF NoWaits
<1> HIDE DEF x
<1>5. Calls(s, x)
  <2>1. "failed" \in Results /\ Directions \in SUBSET Directions
    BY DEF Results
  <2> QED  BY <1>4, <2>1, Zenon DEF Calls, CancelWaits
<1>6. Moves(Loop) /\ ops' = ops
  BY DEF Moves, CancelWaits
<1> QED  BY <1>2, <1>3, <1>5, <1>6 DEF Effect

-----------------------------------------------------------------------------
(* The actions on one session *)

\* The session of the step a thread is at.
LEMMA HeadStep ==
  ASSUME TypeInv, NEW t \in AllThreads, NEW do, At(t, do),
         do \notin {"endLogOut", "invalidateHandles"}
  PROVE  Session(t) \in Objects
<1>1. todo[t] \in Seq(OwnSteps(Objects)) /\ todo[t] # <<>> /\ Head(todo[t]).do = do
  BY DEF TypeInv, At
<1>2. Head(todo[t]) \in OwnSteps(Objects)
  BY <1>1, HeadTailProperties
<1> QED  BY <1>1, <1>2 DEF OwnSteps, Session

\* Sessions are numbered from 1.
LEMMA ObjectsAre ==
  ASSUME TypeInv
  PROVE  /\ DOMAIN ses = Objects /\ DOMAIN refs = Objects /\ LiveSessions \subseteq Objects
         /\ None \notin Objects /\ Loop \in AllThreads /\ Threads \subseteq AllThreads
<1>1. DOMAIN ses = Objects /\ DOMAIN refs = Objects
  BY SeqLen DEF TypeInv, Objects
<1>2. Len(ses) \in Nat /\ Len(ses) <= MaxSessions
  BY SeqLen DEF TypeInv
<1>3. None \notin Objects
  BY <1>2, SyncSessionAssumption DEF Objects
<1> QED  BY <1>1, <1>3 DEF LiveSessions, AllThreads

\* Revival, the end of a reference, log out and a new configuration.
LEMMA SectionsStep ==
  ASSUME IInv, NEW t \in AllThreads,
         Revive(t) \/ Dropped(t) \/ LogOutSession(t) \/ Configure(t)
  PROVE  IInv'
<1> DEFINE s == Session(t)
<1>1. TypeInv /\ ClientInv
  BY DEF IInv
<1>2. handle' \in [session : Objects \cup {None}, strong : BOOLEAN] /\ version' \in Nat
      /\ UNCHANGED <<refs, managerVars, userVars>>
  BY <1>1 DEF TypeInv, Revive, Dropped, LogOutSession, Configure
<1> SUFFICES Effect(t)
  BY <1>2, EffectStep
<1>3. s \in Objects
  BY <1>1, HeadStep DEF Revive, Dropped, LogOutSession, Configure
<1>4. ses[s] \in Sess /\ ClientOf(ses[s])
  BY <1>1, <1>3, SessionFacts
<1>5. \A op \in DOMAIN EmptyBag : op.s = s
  BY NoOps
<1>6. /\ <<>> \in Seq(PlainSteps(Objects))
      /\ <<Step("configure", s)>> \in Seq(PlainSteps(Objects))
      /\ <<Step("revive", s)>> \in Seq(PlainSteps(Objects))
  BY <1>3, OnePlain
<1>7. CASE Revive(t)
  <2> HIDE DEF s
  <2>1. CASE AdvanceWaiting(t, s)
    BY <1>1, <1>3, <2>1, AdvanceWaitingEffect
  <2>2. CASE /\ ses[s].state = "waiting"
             /\ Section(t, s, [ses[s] EXCEPT !.deferredClose = FALSE], EmptyBag, <<>>)
    <3> DEFINE x == [ses[s] EXCEPT !.deferredClose = FALSE]
    <3>1. x \in Sess /\ ClientOf(x) /\ x.waits = ses[s].waits
      BY <1>4, <2>2 DEF Sess, ClientOf
    <3>2. Section(t, s, x, EmptyBag, <<>>)
      BY <2>2
    <3> HIDE DEF x
    <3> QED  BY <1>1, <1>3, <1>5, <1>6, <3>1, <3>2, SectionEffect
  <2>3. CASE ses[s].state = "dying" /\ AdvanceActive(t, s)
    BY <1>1, <1>3, <2>3, AdvanceActiveEffect
  <2>4. CASE Nothing(t, s)
    BY <1>1, <1>3, <2>4, NothingEffect
  <2> QED  BY <1>7, <2>1, <2>2, <2>3, <2>4 DEF Revive, s
<1>8. CASE Dropped(t)
  BY <1>1, <1>3, <1>8, NothingEffect, CloseEffect DEF Dropped
<1>9. CASE LogOutSession(t)
  BY <1>1, <1>3, <1>9, CloseNowEffect DEF LogOutSession
<1>10. CASE Configure(t)
  <2> HIDE DEF s
  <2>1. CASE AdvanceInactive(t, s, <<Step("configure", s)>>)
    BY <1>1, <1>3, <1>6, <2>1, AdvanceInactiveEffect
  <2>2. CASE Section(t, s, ses[s], EmptyBag, <<Step("revive", s)>>)
    BY <1>1, <1>3, <1>4, <1>5, <1>6, <2>2, SectionEffect
  <2> QED  BY <1>10, <2>1, <2>2 DEF Configure, s
<1> QED  BY <1>7, <1>8, <1>9, <1>10

\* A token arrives.
LEMMA TokenArrivesStep ==
  ASSUME IInv, NEW t \in Threads, TokenArrives(t)
  PROVE  IInv'
<1> DEFINE s == handle.session
           x == ses[s]
           y == [x EXCEPT !.state = "active", !.deferred = 0,
                          !.client = IF @ = 0 THEN x.made + 1 ELSE @,
                          !.made = IF x.client = 0 THEN @ + 1 ELSE @,
                          !.known = IF x.client = 0 THEN version
                                    ELSE IF x.deferred > 0 THEN x.deferred ELSE @]
<1>1. TypeInv /\ ClientInv /\ t \in AllThreads
  BY DEF IInv, AllThreads
<1>2. s \in Objects
  BY <1>1 DEF TokenArrives, Live, TypeInv
<1>3. handle' \in [session : Objects \cup {None}, strong : BOOLEAN] /\ version' \in Nat
      /\ UNCHANGED <<refs, managerVars, userVars>>
  BY <1>1 DEF TypeInv, TokenArrives
<1> SUFFICES Effect(t)
  BY <1>1, <1>3, EffectStep
<1>4. x \in Sess
  BY <1>1, <1>2, SessionFacts
<1>5. y \in Sess /\ y.state = "active" /\ y.client # 0 /\ y.waits = x.waits
  <2>1. version \in Nat
    BY <1>1 DEF TypeInv
  <2> HIDE DEF x
  <2> DEFINE c == IF x.client = 0 THEN x.made + 1 ELSE x.client
             m == IF x.client = 0 THEN x.made + 1 ELSE x.made
             k == IF x.client = 0 THEN version
                  ELSE IF x.deferred > 0 THEN x.deferred ELSE x.known
  <2>2. c \in Nat /\ m \in Nat /\ k \in Nat /\ c # 0
    BY <1>4, <2>1 DEF Sess
  <2>3. y = [x EXCEPT !.state = "active", !.deferred = 0, !.client = c, !.made = m, !.known = k]
    BY <1>4 DEF Sess
  <2> HIDE DEF c, m, k, y
  <2> QED  BY <1>4, <2>2, <2>3 DEF Sess
<1>6. ClientOf(y)
  BY <1>5 DEF ClientOf
<1>7. \A op \in DOMAIN WaitOps(s, y) : op.s = s
  BY OfSession
<1>8. <<>> \in Seq(PlainSteps(Objects))
  OBVIOUS
<1>9. \/ AdvanceDying(t, s, y, WaitOps(s, y))
      \/ Section(t, s, y, WaitOps(s, y), <<>>)
      \/ Nothing(t, s)
  BY DEF TokenArrives
<1> HIDE DEF y
<1>10. CASE AdvanceDying(t, s, y, WaitOps(s, y))
  BY <1>1, <1>2, <1>5, <1>7, <1>10, AdvanceDyingEffect
<1>11. CASE Section(t, s, y, WaitOps(s, y), <<>>)
  BY <1>1, <1>2, <1>5, <1>6, <1>7, <1>8, <1>11, SectionEffect
<1>12. CASE Nothing(t, s)
  BY <1>1, <1>2, <1>12, NothingEffect
<1> QED  BY <1>9, <1>10, <1>11, <1>12

\* A callback is registered.
LEMMA WaitForStep ==
  ASSUME IInv, NEW t \in Threads, WaitFor(t)
  PROVE  IInv'
<1>1. TypeInv /\ ClientInv /\ t \in AllThreads
  BY DEF IInv, AllThreads
<1>2. handle' \in [session : Objects \cup {None}, strong : BOOLEAN] /\ version' \in Nat
      /\ UNCHANGED <<refs, managerVars, userVars>>
  BY <1>1 DEF TypeInv, WaitFor
<1> SUFFICES Effect(t)
  BY <1>1, <1>2, EffectStep
<1>3. PICK s \in LiveSessions, w \in Waits, d \in Directions :
          /\ answer[w] = <<>> /\ \A r \in DOMAIN ses, e \in Directions : w \notin ses[r].waits[e]
          /\ \E more \in {SetToBag({Op(d, s, ses[s])}), EmptyBag} :
                Section(t, s, [ses[s] EXCEPT !.waits[d] = @ \cup {w}], more, <<>>)
  BY DEF WaitFor
<1>4. PICK more \in {SetToBag({Op(d, s, ses[s])}), EmptyBag} :
          Section(t, s, [ses[s] EXCEPT !.waits[d] = @ \cup {w}], more, <<>>)
  BY <1>3
<1> DEFINE x == [ses[s] EXCEPT !.waits[d] = @ \cup {w}]
<1>5. s \in Objects /\ DOMAIN ses = Objects
  BY <1>1, ObjectsAre
<1>6. ses[s] \in Sess /\ ClientOf(ses[s])
  BY <1>1, <1>5, SessionFacts
<1>7. x = [ses[s] EXCEPT !.waits = [ses[s].waits EXCEPT ![d] = @ \cup {w}]]
  BY <1>6 DEF Sess
<1>8. x \in Sess /\ x.state = ses[s].state /\ x.client = ses[s].client
      /\ x.waits = [ses[s].waits EXCEPT ![d] = @ \cup {w}]
  <2> DEFINE ww == [ses[s].waits EXCEPT ![d] = @ \cup {w}]
  <2>1. ses[s].waits \in [Directions -> SUBSET Waits]
    BY <1>6 DEF Sess
  <2>2. ww \in [Directions -> SUBSET Waits]
    BY <2>1
  <2>3. x = [ses[s] EXCEPT !.waits = ww]
    BY <1>7
  <2> HIDE DEF ww, x
  <2>4. x \in Sess /\ x.state = ses[s].state /\ x.client = ses[s].client /\ x.waits = ww
    BY <1>6, <2>2, <2>3 DEF Sess
  <2> QED  BY <2>4 DEF ww
<1> HIDE DEF x
<1>9. ClientOf(x)
  BY <1>6, <1>8 DEF ClientOf
<1>10. ses' = [ses EXCEPT ![s] = x] /\ answer' = answer /\ Then(t, <<>>) /\ ops' = ops (+) more
  BY <1>4 DEF Section, x
<1>11. Calls(s, x)
  BY <1>3, <1>5, <1>8, <1>10 DEF Calls
<1>12. Moves(t)
  <2>1. <<>> \in Seq(PlainSteps(Objects))
    OBVIOUS
  <2> QED  BY <1>10, <2>1 DEF Moves
<1>13. \A op \in DOMAIN ops' : op \in DOMAIN ops \/ op.s = s
  <2>1. \A op \in DOMAIN more : op.s = s
    <3>1. \A op \in DOMAIN SetToBag({Op(d, s, ses[s])}) : op.s = s
      BY OfSession, Zenon
    <3>2. \A op \in DOMAIN EmptyBag : op.s = s
      BY NoOps
    <3> QED  BY <3>1, <3>2, <1>4, Zenon
  <2>2. DOMAIN ops' = DOMAIN ops \cup DOMAIN more
    BY <1>10, MoreOps, Zenon
  <2> QED  BY <2>1, <2>2, Zenon
<1> QED  BY <1>5, <1>8, <1>9, <1>10, <1>11, <1>12, <1>13 DEF Effect

\* A commit is told or kept.
LEMMA CommitStep ==
  ASSUME IInv, NEW t \in Threads, Commit(t)
  PROVE  IInv'
<1>1. TypeInv /\ ClientInv /\ t \in AllThreads
  BY DEF IInv, AllThreads
<1>2. handle' \in [session : Objects \cup {None}, strong : BOOLEAN] /\ version' \in Nat
      /\ UNCHANGED <<refs, managerVars, userVars>>
  BY <1>1 DEF TypeInv, Commit
<1> SUFFICES Effect(t)
  BY <1>1, <1>2, EffectStep
<1> DEFINE After(s) == [ses[s] EXCEPT
                !.known = IF ses[s].state = "active" THEN version' ELSE @,
                !.deferred = IF ses[s].state = "waiting" THEN version' ELSE @]
<1>3. PICK s \in DOMAIN ses : Section(t, s, After(s), EmptyBag, <<>>)
  BY DEF Commit
<1> DEFINE x == ses[s]
           k == IF x.state = "active" THEN version' ELSE x.known
           f == IF x.state = "waiting" THEN version' ELSE x.deferred
           y == After(s)
<1>4. s \in Objects
  BY <1>1, ObjectsAre
<1>5. x \in Sess /\ ClientOf(x)
  BY <1>1, <1>4, SessionFacts
<1>6. k \in Nat /\ f \in Nat
  BY <1>2, <1>5 DEF Sess
<1>7. y = [x EXCEPT !.known = k, !.deferred = f]
  BY <1>5 DEF Sess
<1>8. y \in Sess /\ y.state = x.state /\ y.client = x.client /\ y.waits = x.waits
  <2> HIDE DEF x, k, f, y
  <2> QED  BY <1>5, <1>6, <1>7 DEF Sess
<1>9. Section(t, s, y, EmptyBag, <<>>)
  BY <1>3
<1>10. <<>> \in Seq(PlainSteps(Objects)) /\ \A op \in DOMAIN EmptyBag : op.s = s
  BY NoOps
<1> HIDE DEF y
<1>11. ClientOf(y)
  BY <1>5, <1>8 DEF ClientOf
<1> QED  BY <1>1, <1>4, <1>8, <1>9, <1>10, <1>11, SectionEffect

\* The client completes a wait operation.
LEMMA CompleteWaitStep ==
  ASSUME IInv, CompleteWait
  PROVE  IInv'
<1>1. TypeInv /\ ClientInv /\ Loop \in AllThreads
  BY DEF IInv, AllThreads
<1>2. handle' \in [session : Objects \cup {None}, strong : BOOLEAN] /\ version' \in Nat
      /\ UNCHANGED <<refs, managerVars, userVars>>
  BY <1>1 DEF TypeInv, CompleteWait
<1> SUFFICES Effect(Loop)
  BY <1>1, <1>2, EffectStep
<1>3. PICK op \in BagToSet(ops) :
        /\ ops' = ops (-) SetToBag({op})
        /\ \/ /\ op.kind \in Directions
              /\ ses' = [ses EXCEPT ![op.s].waits[op.kind] = {}]
              /\ \E how \in {"cancelled", "ok"} : answer' = Called(op.s, {op.kind}, how)
              /\ UNCHANGED <<todo, aborted>>
           \/ /\ ses' = [ses EXCEPT ![op.s] = Stopped(@)]
              /\ answer' = Called(op.s, Directions, "cancelled")
              /\ Then(Loop, <<Step("unregister", op.s)>>)
           \/ UNCHANGED <<ses, answer, todo, aborted>>
  BY DEF CompleteWait
<1> DEFINE s == op.s
<1>4. s \in Objects
  BY <1>1, <1>3 DEF TypeInv, BagToSet
<1>5. ses[s] \in Sess /\ ClientOf(ses[s]) /\ ses[s].waits \in [Directions -> SUBSET Waits]
  <2>1. ses[s] \in Sess /\ ClientOf(ses[s])
    BY <1>1, <1>4, SessionFacts
  <2> QED  BY <2>1 DEF Sess
<1>6. \A o \in DOMAIN ops' : o \in DOMAIN ops \/ o.s = s
  <2>1. DOMAIN ops' \subseteq DOMAIN ops
    BY <1>3, MoreOps, Zenon
  <2> QED  BY <2>1
<1>7. CASE /\ op.kind \in Directions
           /\ ses' = [ses EXCEPT ![op.s].waits[op.kind] = {}]
           /\ \E how \in {"cancelled", "ok"} : answer' = Called(op.s, {op.kind}, how)
           /\ UNCHANGED <<todo, aborted>>
  <2> DEFINE ww == [d \in Directions |-> IF d \in {op.kind} THEN {} ELSE ses[s].waits[d]]
             x == [ses[s] EXCEPT !.waits = ww]
  <2>1. ww \in [Directions -> SUBSET Waits] /\ ww = [ses[s].waits EXCEPT ![op.kind] = {}]
    BY <1>5
  <2>2. ses' = [ses EXCEPT ![s] = x]
    <3>1. ses' = [ses EXCEPT ![s] = [ses[s] EXCEPT !.waits = [ses[s].waits EXCEPT ![op.kind] = {}]]]
      BY <1>7
    <3> HIDE DEF ww
    <3> QED  BY <2>1, <3>1
  <2>3. x \in Sess /\ ClientOf(x) /\ x.waits = ww
    <3> HIDE DEF ww
    <3> QED  BY <1>5, <2>1 DEF Sess, ClientOf
  <2>4. {op.kind} \in SUBSET Directions /\ {"cancelled", "ok"} \subseteq Results
    BY <1>7 DEF Results
  <2> HIDE DEF x
  <2>5. Calls(s, x)
    BY <1>7, <2>3, <2>4, Zenon DEF Calls
  <2>6. Moves(Loop)
    BY <1>7 DEF Moves
  <2> HIDE DEF s, ww
  <2> QED  BY <1>4, <1>6, <2>2, <2>3, <2>5, <2>6 DEF Effect
<1>8. CASE /\ ses' = [ses EXCEPT ![op.s] = Stopped(@)]
           /\ answer' = Called(op.s, Directions, "cancelled")
           /\ Then(Loop, <<Step("unregister", op.s)>>)
  <2> DEFINE x == Stopped(ses[s])
  <2>1. x \in Sess /\ ClientOf(x) /\ x.waits = NoWaits
    BY <1>5 DEF Stopped, Sess, ClientOf, NoWaits
  <2>2. ses' = [ses EXCEPT ![s] = x]
    BY <1>8
  <2>3. x.waits = [d \in Directions |-> IF d \in Directions THEN {} ELSE ses[s].waits[d]]
    BY <2>1 DEF NoWaits
  <2>4. Calls(s, x)
    <3>1. "cancelled" \in Results /\ Directions \in SUBSET Directions
      BY DEF Results
    <3> HIDE DEF x
    <3> QED  BY <1>8, <2>3, <3>1, Zenon DEF Calls
  <2>5. Moves(Loop)
    <3>1. <<Step("unregister", op.s)>> \in Seq(PlainSteps(Objects))
      BY <1>4, OnePlain
    <3> QED  BY <1>8, <3>1 DEF Moves
  <2> HIDE DEF x, s
  <2> QED  BY <1>4, <1>6, <2>1, <2>2, <2>4, <2>5 DEF Effect
<1>9. CASE UNCHANGED <<ses, answer, todo, aborted>>
  <2>1. ses' = [ses EXCEPT ![s] = ses[s]]
    <3>1. ses \in [Objects -> Sess]
      BY <1>1, SeqLen, SeqDef DEF TypeInv, Objects
    <3> HIDE DEF s
    <3> QED  BY <1>4, <1>9, <3>1
  <2>2. Calls(s, ses[s]) /\ Moves(Loop)
    BY <1>9 DEF Calls, Moves
  <2> HIDE DEF s
  <2> QED  BY <1>4, <1>5, <1>6, <2>1, <2>2 DEF Effect
<1> QED  BY <1>3, <1>7, <1>8, <1>9

\* An error arrives.
LEMMA ReceiveErrorStep ==
  ASSUME IInv, ReceiveError
  PROVE  IInv'
<1>1. TypeInv /\ ClientInv /\ Loop \in AllThreads
  BY DEF IInv, AllThreads
<1>2. handle' \in [session : Objects \cup {None}, strong : BOOLEAN] /\ version' \in Nat
      /\ UNCHANGED <<refs, managerVars, userVars>>
  BY <1>1 DEF TypeInv, ReceiveError
<1> SUFFICES Effect(Loop)
  BY <1>1, <1>2, EffectStep
<1>3. PICK s \in LiveSessions, kind \in Errors :
          \/ AdvanceInactive(Loop, s, <<>>)
          \/ Nothing(Loop, s)
          \/ Section(Loop, s, ses[s], EmptyBag, <<Step(kind, s)>>)
  BY DEF ReceiveError
<1>4. s \in Objects
  BY <1>1, ObjectsAre
<1>5. ses[s] \in Sess /\ ClientOf(ses[s])
  BY <1>1, <1>4, SessionFacts
<1>6. <<>> \in Seq(PlainSteps(Objects)) /\ <<Step(kind, s)>> \in Seq(PlainSteps(Objects))
  BY <1>4, OnePlain DEF Errors, Fatal
<1>7. \A op \in DOMAIN EmptyBag : op.s = s
  BY NoOps
<1>8. CASE AdvanceInactive(Loop, s, <<>>)
  BY <1>1, <1>4, <1>6, <1>8, AdvanceInactiveEffect
<1>9. CASE Nothing(Loop, s)
  BY <1>1, <1>4, <1>9, NothingEffect
<1>10. CASE Section(Loop, s, ses[s], EmptyBag, <<Step(kind, s)>>)
  BY <1>1, <1>4, <1>5, <1>6, <1>7, <1>10, SectionEffect
<1> QED  BY <1>3, <1>8, <1>9, <1>10

\* An error takes effect.
LEMMA HandleErrorStep ==
  ASSUME IInv, HandleError
  PROVE  IInv'
<1>1. TypeInv /\ ClientInv /\ Loop \in AllThreads
  BY DEF IInv, AllThreads
<1>2. handle' \in [session : Objects \cup {None}, strong : BOOLEAN] /\ version' \in Nat
      /\ UNCHANGED <<refs, managerVars, userVars>>
  BY <1>1 DEF TypeInv, HandleError
<1> SUFFICES Effect(Loop)
  BY <1>1, <1>2, EffectStep
<1> DEFINE s == Session(Loop)
<1>3. PICK kind \in Errors : At(Loop, kind)
  BY DEF HandleError
<1>4. s \in Objects
  BY <1>1, <1>3, HeadStep DEF Errors, Fatal
<1> HIDE DEF s
<1>5. <<>> \in Seq(PlainSteps(Objects))
      /\ <<Step("invalidate", s), Step("nonfatal", s)>> \in Seq(PlainSteps(Objects))
  <2>1. /\ Step("invalidate", s) \in PlainSteps(Objects)
        /\ Step("nonfatal", s) \in PlainSteps(Objects)
    BY <1>4, OnePlain
  <2> QED  BY <2>1
<1>6. \/ AdvanceWaiting(Loop, s)
      \/ Nothing(Loop, s)
      \/ CancelWaits(s, <<Step("invalidate", s), Step("nonfatal", s)>>)
      \/ AdvanceInactive(Loop, s, <<>>)
      \/ CancelWaits(s, <<>>)
  BY DEF HandleError, s
<1>7. CASE AdvanceWaiting(Loop, s)
  BY <1>1, <1>4, <1>7, AdvanceWaitingEffect
<1>8. CASE Nothing(Loop, s)
  BY <1>1, <1>4, <1>8, NothingEffect
<1>9. CASE CancelWaits(s, <<Step("invalidate", s), Step("nonfatal", s)>>)
  BY <1>1, <1>4, <1>5, <1>9, CancelWaitsEffect
<1>10. CASE AdvanceInactive(Loop, s, <<>>)
  BY <1>1, <1>4, <1>5, <1>10, AdvanceInactiveEffect
<1>11. CASE CancelWaits(s, <<>>)
  BY <1>1, <1>4, <1>5, <1>11, CancelWaitsEffect
<1> QED  BY <1>6, <1>7, <1>8, <1>9, <1>10, <1>11

-----------------------------------------------------------------------------
(* The actions on the user and on the handle *)

\* Steps that leave the sessions and the table alone.
LEMMA UserAndHandleStep ==
  ASSUME IInv, NEW t \in AllThreads,
         \/ Register(t) \/ EndLogOut(t) \/ InvalidateHandles(t) \/ Invalidate(t) \/ Bind(t)
         \/ LogOut(t) \/ LogIn(t) \/ TokenFails(t) \/ CallSession(t) \/ Reconnect(t) \/ Upload
  PROVE  IInv'
<1>1. TypeInv
  BY DEF IInv
<1>2. /\ userSession \in Objects \cup {None} /\ waitingSession \in Objects \cup {None}
      /\ registered \in Objects \cup {None} /\ version \in Nat
      /\ handle \in [session : Objects \cup {None}, strong : BOOLEAN]
  BY <1>1 DEF TypeInv
<1>3. <<>> \in Seq(PlainSteps(Objects))
  OBVIOUS
<1>4. CASE Register(t)
  <2>1. Session(t) \in Objects
    BY <1>1, <1>4, HeadStep DEF Register
  <2>2. <<Step("revive", Session(t))>> \in Seq(PlainSteps(Objects))
    BY <2>1, OnePlain
  <2>3. Moves(t)
    BY <1>3, <1>4, <2>2 DEF Register, Moves
  <2> QED  BY <1>2, <1>4, <2>1, <2>3, QuietStep DEF Register, managerVars
<1>5. CASE EndLogOut(t)
  <2>1. Session(t) \in Objects \cup {None}
    <3>1. todo[t] \in Seq(OwnSteps(Objects)) /\ todo[t] # <<>>
      BY <1>1, <1>5 DEF TypeInv, EndLogOut, At
    <3>2. Head(todo[t]) \in OwnSteps(Objects)
      BY <3>1, HeadTailProperties
    <3> QED  BY <3>2 DEF OwnSteps, Session
  <2>2. Moves(t)
    BY <1>3, <1>5 DEF EndLogOut, Moves
  <2> QED  BY <1>2, <1>5, <2>1, <2>2, QuietStep DEF EndLogOut, managerVars
<1>6. CASE InvalidateHandles(t)
  <2>1. Moves(t)
    BY <1>3, <1>6 DEF InvalidateHandles, Moves
  <2>2. NoHandle \in [session : Objects \cup {None}, strong : BOOLEAN]
    BY DEF NoHandle
  <2> QED  BY <1>2, <1>6, <2>1, <2>2, QuietStep DEF InvalidateHandles, managerVars, userVars
<1>7. CASE Invalidate(t)
  <2>1. Moves(t)
    BY <1>3, <1>7 DEF Invalidate, Moves
  <2> QED  BY <1>2, <1>7, <2>1, QuietStep DEF Invalidate, managerVars
<1>8. CASE Bind(t)
  <2>1. Session(t) \in Objects
    BY <1>1, <1>8, HeadStep DEF Bind
  <2>2. Moves(t)
    BY <1>3, <1>8 DEF Bind, Moves
  <2>3. [session |-> Session(t), strong |-> TRUE]
           \in [session : Objects \cup {None}, strong : BOOLEAN]
    BY <2>1
  <2> QED  BY <1>2, <1>8, <2>2, <2>3, QuietStep DEF Bind, managerVars, userVars
<1>9. CASE LogOut(t)
  <2> DEFINE first == IF Live(userSession)
                      THEN <<Step("logOut", userSession), Step("endLogOut", userSession)>>
                      ELSE <<Step("endLogOut", None)>>
             last == <<Step("invalidateHandles", None)>>
  <2>1. first \in Seq(PlainSteps(Objects))
    <3>1. CASE Live(userSession)
      <4>1. userSession \in Objects
        BY <1>2, <3>1 DEF Live
      <4>2. Step("logOut", userSession) \in PlainSteps(Objects)
        BY <4>1, OnePlain
      <4>3. Step("endLogOut", userSession) \in PlainSteps(Objects)
        BY <4>1 DEF Step, PlainSteps, OwnSteps, StepNames
      <4> QED  BY <3>1, <4>2, <4>3
    <3>2. CASE ~Live(userSession)
      <4>1. Step("endLogOut", None) \in PlainSteps(Objects)
        BY DEF Step, PlainSteps, OwnSteps, StepNames
      <4> QED  BY <3>2, <4>1
    <3> QED  BY <3>1, <3>2
  <2>2. last \in Seq(PlainSteps(Objects))
    <3>1. Step("invalidateHandles", None) \in PlainSteps(Objects)
      BY DEF Step, PlainSteps, OwnSteps, StepNames
    <3> QED  BY <3>1
  <2>3. Then(t, first \o last)
    BY <1>9 DEF LogOut
  <2> HIDE DEF first, last
  <2>4. first \o last \in Seq(PlainSteps(Objects))
    BY <2>1, <2>2, ConcatProperties
  <2>5. Moves(t)
    BY <2>3, <2>4 DEF Moves
  <2> QED  BY <1>2, <1>9, <2>5, QuietStep DEF LogOut, managerVars
<1>10. CASE LogIn(t)
  <2>1. Moves(t)
    <3>1. CASE Live(waitingSession)
      <4>1. waitingSession \in Objects
        BY <1>2, <3>1 DEF Live
      <4>2. <<Step("revive", waitingSession)>> \in Seq(PlainSteps(Objects))
        BY <4>1, OnePlain
      <4> QED  BY <1>10, <3>1, <4>2 DEF LogIn, Moves
    <3>2. CASE ~Live(waitingSession)
      BY <1>3, <1>10, <3>2 DEF LogIn, Moves
    <3> QED  BY <3>1, <3>2
  <2>2. userSession' \in Objects \cup {None} /\ waitingSession' \in Objects \cup {None}
    BY <1>2, <1>10 DEF LogIn
  <2> QED  BY <1>2, <1>10, <2>1, <2>2, QuietStep DEF LogIn, managerVars
<1>11. CASE TokenFails(t)
  <2>1. handle.session \in Objects
    BY <1>2, <1>11 DEF TokenFails
  <2>2. <<Step("logOut", handle.session)>> \in Seq(PlainSteps(Objects))
    BY <2>1, OnePlain
  <2>3. Moves(t)
    BY <1>3, <1>11, <2>2 DEF TokenFails, Moves
  <2>4. handle' \in [session : Objects \cup {None}, strong : BOOLEAN]
    <3>1. NoHandle \in [session : Objects \cup {None}, strong : BOOLEAN]
      BY DEF NoHandle
    <3>2. [handle EXCEPT !.strong = FALSE] \in [session : Objects \cup {None}, strong : BOOLEAN]
      BY <1>2
    <3>3. handle' = NoHandle \/ handle' = [handle EXCEPT !.strong = FALSE]
      BY <1>11 DEF TokenFails
    <3> QED  BY <3>1, <3>2, <3>3
  <2> QED  BY <1>2, <1>11, <2>3, <2>4, QuietStep DEF TokenFails, managerVars, userVars
<1>12. CASE CallSession(t)
  <2>1. Moves(t)
    <3>1. ASSUME NEW s \in LiveSessions, NEW do \in {"logOut", "revive"}, Then(t, <<Step(do, s)>>)
          PROVE  Moves(t)
      <4>1. s \in Objects
        BY <1>1, ObjectsAre
      <4>2. <<Step(do, s)>> \in Seq(PlainSteps(Objects))
        BY <4>1, OnePlain
      <4> QED  BY <3>1, <4>2 DEF Moves
    <3>2. CASE Live(userSession) /\ Then(t, <<Step("configure", userSession)>>)
      <4>1. userSession \in Objects
        BY <1>2, <3>2 DEF Live
      <4>2. <<Step("configure", userSession)>> \in Seq(PlainSteps(Objects))
        BY <4>1, OnePlain
      <4> QED  BY <3>2, <4>2 DEF Moves
    <3> QED  BY <1>12, <3>1, <3>2 DEF CallSession
  <2> QED  BY <1>2, <1>12, <2>1, QuietStep DEF CallSession, managerVars, userVars
<1>13. CASE Reconnect(t)
  <2>1. Moves(t)
    BY <1>13 DEF Reconnect, Moves
  <2>2. [session |-> registered, strong |-> TRUE]
           \in [session : Objects \cup {None}, strong : BOOLEAN]
    BY <1>2
  <2> QED  BY <1>2, <1>13, <2>1, <2>2, QuietStep DEF Reconnect, managerVars, userVars
<1>14. CASE Upload
  <2>1. Moves(t)
    BY <1>14 DEF Upload, Moves
  <2> QED  BY <1>2, <1>14, <2>1, QuietStep DEF Upload, managerVars, userVars
<1> QED  BY <1>4, <1>5, <1>6, <1>7, <1>8, <1>9, <1>10, <1>11, <1>12, <1>13, <1>14

-----------------------------------------------------------------------------
(* The actions on the manager's table *)

\* A thread that goes on to its next step.
LEMMA NextStep ==
  ASSUME TypeInv, NEW t \in AllThreads, Then(t, <<>>)
  PROVE  /\ todo' \in [AllThreads -> Seq(OwnSteps(Objects))]
         /\ \A u \in AllThreads : u # t => todo'[u] = todo[u]
         /\ Len(todo'[t]) = IF todo[t] = <<>> THEN 0 ELSE Len(todo[t]) - 1
         /\ \A i \in 1 .. Len(todo'[t]) : \E j \in 1 .. Len(todo[t]) : todo'[t][i] = todo[t][j]
<1> DEFINE rest == IF todo[t] = <<>> THEN <<>> ELSE Tail(todo[t])
<1>1. todo[t] \in Seq(OwnSteps(Objects)) /\ Len(todo[t]) \in Nat
  BY SeqLen DEF TypeInv
<1>2. /\ rest \in Seq(OwnSteps(Objects))
      /\ Len(rest) = IF todo[t] = <<>> THEN 0 ELSE Len(todo[t]) - 1
      /\ \A i \in 1 .. Len(rest) : rest[i] = todo[t][i + 1] /\ i + 1 \in 1 .. Len(todo[t])
  <2>1. CASE todo[t] = <<>>
    BY <2>1, EmptySeq
  <2>2. CASE todo[t] # <<>>
    <3>1. /\ Tail(todo[t]) \in Seq(OwnSteps(Objects)) /\ Len(Tail(todo[t])) = Len(todo[t]) - 1
          /\ \A i \in 1 .. Len(todo[t]) - 1 : Tail(todo[t])[i] = todo[t][i + 1]
      BY <1>1, <2>2, HeadTailProperties
    <3> QED  BY <1>1, <2>2, <3>1
  <2> QED  BY <2>1, <2>2
<1>3. todo' = [todo EXCEPT ![t] = <<>> \o rest]
  BY DEF Then
<1> HIDE DEF rest
<1>4. <<>> \o rest = rest
  BY <1>2, ConcatEmptySeq
<1>5. todo \in [AllThreads -> Seq(OwnSteps(Objects))]
  BY DEF TypeInv
<1>6. todo' = [todo EXCEPT ![t] = rest]
  BY <1>3, <1>4
<1>7. /\ todo' \in [AllThreads -> Seq(OwnSteps(Objects))]
      /\ todo'[t] = rest /\ \A u \in AllThreads : u # t => todo'[u] = todo[u]
  BY <1>2, <1>5, <1>6
<1>8. \A i \in 1 .. Len(todo'[t]) : \E j \in 1 .. Len(todo[t]) : todo'[t][i] = todo[t][j]
  BY <1>2, <1>7
<1> QED  BY <1>2, <1>7, <1>8

\* The sessions, their callbacks and the user are as they were.
LEMMA TableStep ==
  ASSUME IInv, UNCHANGED <<ses, ops, answer, userVars, handle, version>>,
         refs' \in Seq(Nat), Len(refs') = Len(refs), registered' \in Objects \cup {None},
         todo' \in [AllThreads -> Seq(OwnSteps(Objects))], LockInv', RefInv'
  PROVE  IInv'
<1>1. Objects' = Objects
  BY DEF Objects
<1>2. TypeInv'
  BY <1>1 DEF IInv, TypeInv, userVars
<1>3. AnsweredOnce' /\ WaitInv' /\ ClientInv'
  BY <1>1 DEF IInv, AnsweredOnce, WaitInv, ClientInv
<1> QED  BY <1>2, <1>3 DEF IInv

\* The manager's mutex is released: nobody has yet to reference a session.
LEMMA UnlockManagerStep ==
  ASSUME IInv, NEW t \in AllThreads, UnlockManager(t)
  PROVE  IInv'
<1>1. TypeInv /\ LockInv /\ RefInv /\ todo \in [AllThreads -> Seq(OwnSteps(Objects))]
  BY DEF IInv, TypeInv
<1>2. todo[t] \in Seq(OwnSteps(Objects)) /\ todo[t] # <<>>
      /\ Head(todo[t]).do = "unlockManager" /\ Then(t, <<>>)
  BY <1>1 DEF UnlockManager, At
<1>3. Len(todo[t]) \in Nat /\ Len(todo[t]) > 0 /\ todo[t][1].do = "unlockManager"
  BY <1>2, SeqLen, HeadTailProperties
<1>4. managerLock = t /\ Len(todo[t]) = 1
  <2>1. 1 \in 1 .. Len(todo[t])
    BY <1>3
  <2> QED  BY <1>1, <1>3, <2>1 DEF LockInv
<1>6. /\ todo' \in [AllThreads -> Seq(OwnSteps(Objects))]
      /\ \A u \in AllThreads : u # t => todo'[u] = todo[u]
      /\ Len(todo'[t]) = 0
  <2>1. Len(todo'[t]) = IF todo[t] = <<>> THEN 0 ELSE Len(todo[t]) - 1
    BY <1>1, <1>2, NextStep
  <2> QED  BY <1>1, <1>2, <1>4, <2>1, NextStep
<1>7. LockInv'
  <2>1. ASSUME NEW u \in AllThreads, NEW i \in 1 .. Len(todo'[u])
        PROVE  todo'[u][i].do # "reference" /\ todo'[u][i].do # "unlockManager"
    <3>1. u # t
      BY <1>6
    <3>2. todo'[u] = todo[u]
      BY <1>6, <3>1
    <3> QED  BY <1>1, <1>4, <3>1, <3>2 DEF LockInv
  <2> QED  BY <2>1 DEF LockInv
<1>8. RefInv'
  BY <1>1 DEF RefInv, UnlockManager, Objects
<1>9. refs' \in Seq(Nat) /\ Len(refs') = Len(refs) /\ registered' \in Objects \cup {None}
  BY <1>1 DEF TypeInv, UnlockManager
<1> QED  BY <1>6, <1>7, <1>8, <1>9, TableStep DEF UnlockManager

\* A reference to the registered session.
LEMMA ReferenceStep ==
  ASSUME IInv, NEW t \in AllThreads, Reference(t)
  PROVE  IInv'
<1> DEFINE s == Session(t)
<1>1. TypeInv /\ LockInv /\ RefInv /\ refs \in Seq(Nat) /\ Len(refs) = Len(ses)
  BY DEF IInv, TypeInv
<1>2. s \in Objects
  BY <1>1, HeadStep DEF Reference
<1>3. registered = s
  <2>1. todo[t] \in Seq(OwnSteps(Objects)) /\ todo[t] # <<>> /\ Head(todo[t]).do = "reference"
    BY <1>1 DEF TypeInv, Reference, At
  <2>2. 1 \in 1 .. Len(todo[t]) /\ todo[t][1] = Head(todo[t])
    BY <2>1, SeqLen, HeadTailProperties
  <2> QED  BY <1>1, <2>1, <2>2 DEF LockInv, Session
<1>4. refs[s] + 1 \in Nat /\ s \in DOMAIN refs
  BY <1>1, <1>2, ElementOfSeq, SeqLen DEF Objects
<1>5. refs' = [refs EXCEPT ![s] = refs[s] + 1]
  BY DEF Reference
<1> HIDE DEF s
<1>6. refs' \in Seq(Nat) /\ Len(refs') = Len(refs)
      /\ \A r \in Objects : refs'[r] = IF r = s THEN refs[s] + 1 ELSE refs[r]
  BY <1>1, <1>4, <1>5, ReplaceAtSeq DEF Objects
<1>7. RefInv'
  BY <1>1, <1>3, <1>6 DEF RefInv, Reference, managerVars, Objects
<1>8. todo' \in [AllThreads -> Seq(OwnSteps(Objects))] /\ LockInv'
  <2>1. <<>> \in Seq(PlainSteps(Objects))
    OBVIOUS
  <2> QED  BY <1>1, <2>1, PlainKeepsLock DEF Reference, managerVars
<1>9. registered' \in Objects \cup {None}
  BY <1>1 DEF TypeInv, Reference, managerVars
<1> QED  BY <1>6, <1>7, <1>8, <1>9, TableStep DEF Reference

\* A reference is let go.
LEMMA DropReferenceStep ==
  ASSUME IInv, NEW t \in Threads, DropReference(t)
  PROVE  IInv'
<1>1. /\ TypeInv /\ LockInv /\ RefInv /\ refs \in Seq(Nat) /\ Len(refs) = Len(ses)
      /\ t \in AllThreads
  BY DEF IInv, TypeInv, AllThreads
<1>2. PICK s \in DOMAIN ses :
          /\ refs[s] > 0
          /\ refs' = [refs EXCEPT ![s] = @ - 1]
          /\ Then(t, IF refs[s] = 1 THEN <<Step("dropped", s)>> ELSE <<>>)
  <2>1. PICK s \in DOMAIN ses :
          /\ refs[s] > (IF Returning(s) THEN 1 ELSE 0)
          /\ refs' = [refs EXCEPT ![s] = @ - 1]
          /\ Then(t, IF refs[s] = 1 THEN <<Step("dropped", s)>> ELSE <<>>)
    BY DEF DropReference
  <2>2. refs[s] \in Nat
    BY <1>1, ElementOfSeq, ObjectsAre DEF Objects
  <2>3. refs[s] > 0
    BY <2>1, <2>2
  <2> QED  BY <2>1, <2>3
<1>3. s \in Objects /\ s \in DOMAIN refs /\ refs[s] \in Nat
  BY <1>1, ElementOfSeq, ObjectsAre DEF Objects
<1>4. refs' = [refs EXCEPT ![s] = refs[s] - 1] /\ refs[s] - 1 \in Nat
  BY <1>2, <1>3
<1>5. refs' \in Seq(Nat) /\ Len(refs') = Len(refs)
      /\ \A r \in Objects : refs'[r] = IF r = s THEN refs[s] - 1 ELSE refs[r]
  BY <1>1, <1>3, <1>4, ReplaceAtSeq DEF Objects
<1>6. RefInv'
  <2>1. Objects' = Objects /\ registered' = registered
    BY DEF DropReference, managerVars, Objects
  <2>2. ASSUME NEW r \in Objects, refs'[r] > 0
        PROVE  registered = r
    <3>1. refs[r] > 0
      BY <1>2, <1>5, <2>2
    <3> QED  BY <1>1, <3>1 DEF RefInv
  <2> QED  BY <2>1, <2>2 DEF RefInv
<1>7. todo' \in [AllThreads -> Seq(OwnSteps(Objects))] /\ LockInv'
  <2>1. <<>> \in Seq(PlainSteps(Objects)) /\ <<Step("dropped", s)>> \in Seq(PlainSteps(Objects))
    BY <1>3, OnePlain
  <2> QED  BY <1>1, <1>2, <2>1, PlainKeepsLock DEF DropReference, managerVars
<1>8. registered' \in Objects \cup {None}
  BY <1>1 DEF TypeInv, DropReference, managerVars
<1> QED  BY <1>5, <1>6, <1>7, <1>8, TableStep DEF DropReference

\* The path is unregistered unless its session is referenced.
LEMMA UnregisterStep ==
  ASSUME IInv, NEW t \in AllThreads, Unregister(t)
  PROVE  IInv'
<1>1. TypeInv /\ LockInv /\ RefInv /\ todo \in [AllThreads -> Seq(OwnSteps(Objects))]
  BY DEF IInv, TypeInv
<1>2. \A u \in AllThreads : \A i \in 1 .. Len(todo[u]) :
          todo[u][i].do # "reference" /\ todo[u][i].do # "unlockManager"
  BY <1>1, SyncSessionAssumption DEF LockInv, Unregister, AllThreads
<1>3. refs' \in Seq(Nat) /\ Len(refs') = Len(refs) /\ refs' = refs /\ Objects' = Objects
  BY <1>1 DEF TypeInv, Unregister, Objects
<1>4. CASE registered = None /\ UNCHANGED <<registered, todo>>
  <2>1. LockInv' /\ RefInv' /\ registered' \in Objects \cup {None}
    BY <1>1, <1>3, <1>4 DEF LockInv, RefInv, TypeInv, Unregister
  <2> QED  BY <1>1, <1>3, <1>4, <2>1, TableStep DEF Unregister
<1>5. CASE /\ registered # None
           /\ registered' = IF refs[registered] > 0 THEN registered ELSE None
           /\ Then(t, <<>>)
  <2>2. /\ todo' \in [AllThreads -> Seq(OwnSteps(Objects))]
        /\ \A u \in AllThreads : u # t => todo'[u] = todo[u]
        /\ \A i \in 1 .. Len(todo'[t]) : \E j \in 1 .. Len(todo[t]) : todo'[t][i] = todo[t][j]
    BY <1>1, <1>5, NextStep
  <2>3. \A u \in AllThreads : \A i \in 1 .. Len(todo'[u]) :
            todo'[u][i].do # "reference" /\ todo'[u][i].do # "unlockManager"
    BY <1>2, <2>2
  <2>4. LockInv'
    BY <2>3 DEF LockInv
  <2>5. RefInv'
    BY <1>1, <1>3, <1>5 DEF RefInv, TypeInv
  <2>6. registered' \in Objects \cup {None}
    BY <1>1, <1>5 DEF TypeInv
  <2> QED  BY <1>3, <2>2, <2>4, <2>5, <2>6, TableStep DEF Unregister
<1> QED  BY <1>4, <1>5 DEF Unregister

\* A session is found, or made, referenced and registered.
LEMMA GetSessionStep ==
  ASSUME IInv, NEW t \in Threads, GetSession(t)
  PROVE  IInv'
<1>1. /\ TypeInv /\ LockInv /\ RefInv /\ refs \in Seq(Nat) /\ Len(refs) = Len(ses)
      /\ t \in AllThreads /\ todo \in [AllThreads -> Seq(OwnSteps(Objects))]
      /\ ses \in Seq(Sess) /\ None \notin Objects /\ DOMAIN refs = Objects
  BY ObjectsAre DEF IInv, TypeInv, AllThreads
<1>2. todo[t] = <<>> /\ managerLock = None /\ managerLock' = t
  BY DEF GetSession, Call
<1>3. \A u \in AllThreads : \A i \in 1 .. Len(todo[u]) :
          todo[u][i].do # "reference" /\ todo[u][i].do # "unlockManager"
  BY <1>1, <1>2, SyncSessionAssumption DEF LockInv, AllThreads
<1>4. \A steps : Then(t, steps) <=> todo' = [todo EXCEPT ![t] = steps \o <<>>]
  BY <1>2 DEF Then
<1>5. UNCHANGED <<userVars, handle, ops, version, answer>>
  BY DEF GetSession
<1>6. CASE /\ registered # None
           /\ Then(t, <<Step("register", registered), Step("reference", registered),
                        Step("unlockManager", registered)>>)
           /\ UNCHANGED <<ses, refs, registered>>
  <2> DEFINE a == Step("register", registered)
             b == Step("reference", registered)
             c == Step("unlockManager", registered)
             steps == <<a, b, c>>
  <2>1. registered \in Objects
    BY <1>1, <1>6 DEF TypeInv
  <2>2. /\ a \in OwnSteps(Objects) /\ b \in OwnSteps(Objects) /\ c \in OwnSteps(Objects)
        /\ a.do = "register" /\ b.do = "reference" /\ c.do = "unlockManager"
        /\ b.s = registered
    BY <2>1 DEF Step, OwnSteps, StepNames
  <2> HIDE DEF a, b, c
  <2>3. /\ steps \in Seq(OwnSteps(Objects)) /\ Len(steps) = 3
        /\ steps[1] = a /\ steps[2] = b /\ steps[3] = c
    BY <2>2
  <2>4. Then(t, steps)
    BY <1>6 DEF a, b, c
  <2> HIDE DEF steps
  <2>5. todo' = [todo EXCEPT ![t] = steps]
    BY <1>4, <2>3, <2>4, ConcatEmptySeq
  <2>6. /\ todo' \in [AllThreads -> Seq(OwnSteps(Objects))] /\ todo'[t] = steps
        /\ \A u \in AllThreads : u # t => todo'[u] = todo[u]
    BY <1>1, <2>3, <2>5
  <2>7. ASSUME NEW u \in AllThreads, NEW i \in 1 .. Len(todo'[u])
        PROVE  /\ todo'[u][i].do = "reference" =>
                     managerLock' = u /\ registered' = todo'[u][i].s
               /\ todo'[u][i].do = "unlockManager" => managerLock' = u /\ i = Len(todo'[u])
    <3>1. CASE u # t
      BY <1>3, <2>6, <3>1
    <3>2. CASE u = t
      <4>1. i \in {1, 2, 3}
        <5>1. Len(todo'[u]) = 3
          BY <2>3, <2>6, <3>2
        <5>2. i \in 1 .. 3
          BY <5>1, Zenon
        <5> QED  BY <5>2
      <4>2. CASE i = 1
        BY <2>2, <2>3, <2>6, <3>2, <4>2
      <4>3. CASE i = 2
        BY <1>2, <1>6, <2>2, <2>3, <2>6, <3>2, <4>3
      <4>4. CASE i = 3
        BY <1>2, <2>2, <2>3, <2>6, <3>2, <4>4
      <4> QED  BY <4>1, <4>2, <4>3, <4>4
    <3> QED  BY <3>1, <3>2
  <2>8. LockInv'
    BY <2>7 DEF LockInv
  <2>9. RefInv' /\ registered' \in Objects \cup {None}
    BY <1>1, <1>6 DEF RefInv, TypeInv, Objects
  <2> QED  BY <1>1, <1>5, <1>6, <2>6, <2>8, <2>9, TableStep
<1>7. ASSUME NEW s, s = Len(ses) + 1, registered = None, s <= MaxSessions,
             ses' = Append(ses, NewSession), refs' = Append(refs, 1), registered' = s,
             Then(t, <<Step("register", s), Step("unlockManager", s)>>)
      PROVE  IInv'
  <2> DEFINE a == Step("register", s)
             c == Step("unlockManager", s)
             steps == <<a, c>>
  <2>1. Len(ses) \in Nat
    BY <1>1, SeqLen
  <2>2. NewSession \in Sess /\ ClientOf(NewSession) /\ NewSession.waits = NoWaits
    BY DEF NewSession, Sess, ClientOf, NoWaits
  <2>3. /\ ses' \in Seq(Sess) /\ Len(ses') = s
        /\ ses'[s] = NewSession /\ \A r \in Objects : ses'[r] = ses[r]
    BY <1>1, <1>7, <2>1, <2>2, AppendProperties DEF Objects
  <2>4. /\ refs' \in Seq(Nat) /\ Len(refs') = s
        /\ refs'[s] = 1 /\ \A r \in Objects : refs'[r] = refs[r]
    BY <1>1, <1>7, <2>1, AppendProperties DEF Objects
  <2>5. Objects' = Objects \cup {s} /\ s \notin Objects /\ s \in Objects'
    BY <1>7, <2>1, <2>3 DEF Objects
  <2>6. OwnSteps(Objects) \subseteq OwnSteps(Objects')
    BY <2>5 DEF OwnSteps
  <2>7. Seq(OwnSteps(Objects)) \subseteq Seq(OwnSteps(Objects'))
    BY <2>6, SeqDef
  <2>8. /\ a \in OwnSteps(Objects') /\ c \in OwnSteps(Objects')
        /\ a.do = "register" /\ c.do = "unlockManager"
    BY <2>5 DEF Step, OwnSteps, StepNames
  <2> HIDE DEF a, c
  <2>9. /\ steps \in Seq(OwnSteps(Objects')) /\ Len(steps) = 2
        /\ steps[1] = a /\ steps[2] = c
    BY <2>8
  <2>10. Then(t, steps)
    BY <1>7 DEF a, c
  <2> HIDE DEF steps
  <2>11. todo' = [todo EXCEPT ![t] = steps]
    BY <1>4, <2>9, <2>10, ConcatEmptySeq
  <2>12. /\ todo' \in [AllThreads -> Seq(OwnSteps(Objects'))] /\ todo'[t] = steps
         /\ \A u \in AllThreads : u # t => todo'[u] = todo[u]
    <3>1. todo \in [AllThreads -> Seq(OwnSteps(Objects'))]
      BY <1>1, <2>7
    <3> HIDE DEF Objects
    <3> QED  BY <1>1, <2>9, <2>11, <3>1
  <2>13. ASSUME NEW u \in AllThreads, NEW i \in 1 .. Len(todo'[u])
         PROVE  /\ todo'[u][i].do # "reference"
                /\ todo'[u][i].do = "unlockManager" => managerLock' = u /\ i = Len(todo'[u])
    <3>1. CASE u # t
      BY <1>3, <2>12, <3>1
    <3>2. CASE u = t
      <4>1. i \in {1, 2}
        <5>1. Len(todo'[u]) = 2
          BY <2>9, <2>12, <3>2
        <5>2. i \in 1 .. 2
          BY <5>1, Zenon
        <5> QED  BY <5>2
      <4>2. CASE i = 1
        BY <2>8, <2>9, <2>12, <3>2, <4>2
      <4>3. CASE i = 2
        BY <1>2, <2>8, <2>9, <2>12, <3>2, <4>3
      <4> QED  BY <4>1, <4>2, <4>3
    <3> QED  BY <3>1, <3>2
  <2>14. LockInv'
    BY <2>13 DEF LockInv
  <2>15. RefInv'
    <3>1. ASSUME NEW r \in Objects  PROVE ~(refs'[r] > 0)
      BY <1>1, <1>7, <2>4 DEF RefInv
    <3> QED  BY <1>7, <2>5, <3>1 DEF RefInv
  <2>16. ClientInv'
    BY <2>2, <2>3, <2>5 DEF IInv, ClientInv
  <2>17. ASSUME NEW r \in Objects', NEW d \in Directions, NEW w \in Waits,
                w \in ses'[r].waits[d]
         PROVE  r \in Objects /\ w \in ses[r].waits[d]
    <3>1. NoWaits[d] = {}
      BY DEF NoWaits
    <3>2. r # s
      BY <2>2, <2>3, <2>17, <3>1
    <3> QED  BY <2>3, <2>5, <2>17, <3>2
  <2>18. WaitInv'
    <3>1. SUFFICES ASSUME NEW r \in Objects', NEW d \in Directions, NEW w \in Waits,
                          w \in ses'[r].waits[d]
                   PROVE  /\ answer'[w] = <<>>
                          /\ \A q \in Objects', e \in Directions :
                                w \in ses'[q].waits[e] => q = r /\ e = d
      BY DEF WaitInv
    <3>2. r \in Objects /\ w \in ses[r].waits[d]
      BY <2>17, <3>1
    <3>3. ASSUME NEW q \in Objects', NEW e \in Directions, w \in ses'[q].waits[e]
          PROVE  q = r /\ e = d
      <4>1. q \in Objects /\ w \in ses[q].waits[e]
        BY <2>17, <3>3
      <4> QED  BY <3>2, <4>1 DEF IInv, WaitInv
    <3>4. answer'[w] = <<>>
      BY <1>5, <3>2 DEF IInv, WaitInv
    <3> QED  BY <3>3, <3>4
  <2>19. AnsweredOnce'
    BY <1>5 DEF IInv, AnsweredOnce
  <2>20. TypeInv'
    <3>1. Objects \subseteq Objects'
      BY <2>5
    <3>2. /\ registered' \in Objects' \cup {None}
          /\ userSession' \in Objects' \cup {None} /\ waitingSession' \in Objects' \cup {None}
          /\ handle' \in [session : Objects' \cup {None}, strong : BOOLEAN]
      BY <1>1, <1>5, <1>7, <2>5, <3>1 DEF TypeInv, userVars
    <3>3. /\ version' \in Nat /\ answer' \in [Waits -> Seq(Results)]
          /\ \A op \in DOMAIN ops' : op.s \in Objects'
      BY <1>1, <1>5, <3>1 DEF TypeInv
    <3>4. /\ ses' \in Seq(Sess) /\ refs' \in Seq(Nat) /\ Len(refs') = Len(ses')
          /\ Len(ses') <= MaxSessions
      BY <1>7, <2>3, <2>4
    <3> QED  BY <2>12, <3>2, <3>3, <3>4 DEF TypeInv
  <2> QED  BY <2>14, <2>15, <2>16, <2>18, <2>19, <2>20 DEF IInv
<1> QED  BY <1>6, <1>7 DEF GetSession

-----------------------------------------------------------------------------
(* The invariant holds *)

LEMMA InitInv == Init => IInv
<1> SUFFICES ASSUME Init PROVE IInv
  OBVIOUS
<1>1. Len(ses) = 0 /\ Objects = {} /\ ses \in Seq(Sess) /\ refs \in Seq(Nat) /\ Len(refs) = Len(ses)
  BY DEF Init, Objects
<1>2. /\ todo \in [AllThreads -> Seq(OwnSteps(Objects))]
      /\ \A t \in AllThreads : Len(todo[t]) = 0
      /\ answer \in [Waits -> Seq(Results)] /\ \A w \in Waits : Len(answer[w]) = 0
  BY DEF Init
<1>3. handle \in [session : Objects \cup {None}, strong : BOOLEAN]
  BY DEF Init, NoHandle
<1>4. \A op \in DOMAIN ops : op.s \in Objects
  BY NoOps DEF Init
<1>5. TypeInv
  BY <1>1, <1>2, <1>3, <1>4, SyncSessionAssumption DEF TypeInv, Init
<1>6. AnsweredOnce /\ WaitInv /\ ClientInv /\ RefInv
  BY <1>1, <1>2 DEF AnsweredOnce, WaitInv, ClientInv, RefInv
<1>7. LockInv
  BY <1>2 DEF LockInv
<1> QED  BY <1>5, <1>6, <1>7 DEF IInv

LEMMA NextInv == IInv /\ [Next]_vars => IInv'
<1> SUFFICES ASSUME IInv, [Next]_vars PROVE IInv'
  OBVIOUS
<1>1. Threads \subseteq AllThreads /\ Loop \in AllThreads
  BY DEF AllThreads
<1>2. ASSUME NEW t \in AllThreads,
             \/ Revive(t) \/ Dropped(t) \/ LogOutSession(t) \/ Configure(t)
             \/ UnlockManager(t) \/ Reference(t) \/ Unregister(t) \/ Register(t)
             \/ EndLogOut(t) \/ InvalidateHandles(t) \/ Invalidate(t) \/ Bind(t)
      PROVE  IInv'
  BY <1>2, SectionsStep, UnlockManagerStep, ReferenceStep, UnregisterStep, UserAndHandleStep
<1>3. ASSUME NEW t \in Threads,
             \/ GetSession(t) \/ DropReference(t) \/ LogOut(t) \/ LogIn(t)
             \/ TokenArrives(t) \/ TokenFails(t) \/ CallSession(t) \/ Reconnect(t)
             \/ WaitFor(t) \/ Commit(t)
      PROVE  IInv'
  BY <1>1, <1>3, GetSessionStep, DropReferenceStep, TokenArrivesStep, WaitForStep, CommitStep,
     UserAndHandleStep
<1>4. CASE Upload \/ CompleteWait \/ ReceiveError \/ HandleError
  BY <1>1, <1>4, UserAndHandleStep, CompleteWaitStep, ReceiveErrorStep, HandleErrorStep
<1>5. CASE UNCHANGED vars
  BY <1>5 DEF IInv, TypeInv, AnsweredOnce, WaitInv, ClientInv, LockInv, RefInv, Objects,
     vars, config, managerVars, userVars
<1> QED  BY <1>2, <1>3, <1>4, <1>5 DEF Next

(* The strengthening that the theorems below are read off.                 *)
THEOREM SessionInvariant == Spec => []IInv
BY InitInv, NextInv, PTL DEF Spec

(* A completion callback is called once at most, whichever of the handlers  *)
(* that call it run, and on whichever threads.                              *)
THEOREM SessionAnsweredOnce == Spec => []AnsweredOnce
<1>1. IInv => AnsweredOnce
  BY DEF IInv
<1> QED  BY <1>1, SessionInvariant, PTL

(* A running session has a client session, an inactive one has none.       *)
THEOREM SessionRunningHasClient == Spec => []RunningHasClient
<1>1. IInv => RunningHasClient
  BY ObjectsAre DEF IInv, ClientInv, ClientOf, RunningHasClient, Running
<1> QED  BY <1>1, SessionInvariant, PTL

(* A session somebody refers to is the one the manager knows for the path. *)
THEOREM SessionReferencedIsRegistered == Spec => []ReferencedIsRegistered
<1>1. IInv => ReferencedIsRegistered
  BY ObjectsAre DEF IInv, RefInv, ReferencedIsRegistered
<1> QED  BY <1>1, SessionInvariant, PTL

-----------------------------------------------------------------------------
(* The wait operations that the sessions have given to the sync client *)

Positive(B) == \A op \in DOMAIN B : B[op] \in Nat /\ B[op] > 0
IsRunning(x) == x.state \in {"active", "dying"}

\* The operation of a death knows that death or an earlier one; while the
\* session dies of the one it knows, client and target are the session's.
DeathOf(op, x) ==
  /\ op.death <= x.deaths
  /\ op.death = x.deaths /\ x.state = "dying" => op.client = x.client /\ op.target = x.known
DeathInv == \A op \in DOMAIN ops : op.kind = "death" => op.death \in Nat /\ DeathOf(op, ses[op.s])

OpsInv == Positive(ops) /\ DeathInv /\ WaitIsRegistered

-----------------------------------------------------------------------------
(* Bags *)

LEMMA PlusPositive ==
  ASSUME NEW B, NEW C, Positive(B), Positive(C)
  PROVE  Positive(B (+) C)
BY DEF Positive, (+)

LEMMA MinusOne ==
  ASSUME NEW B, Positive(B), NEW op
  PROVE  /\ Positive(B (-) SetToBag({op}))
         /\ DOMAIN (B (-) SetToBag({op})) \subseteq DOMAIN B
         /\ \A e \in DOMAIN B : e # op => e \in DOMAIN (B (-) SetToBag({op}))
BY DEF Positive, (-), SetToBag

LEMMA ASet ==
  ASSUME NEW S
  PROVE  Positive(SetToBag(S)) /\ DOMAIN SetToBag(S) = S
BY DEF Positive, SetToBag

LEMMA AnEmptyBag == Positive(EmptyBag) /\ DOMAIN EmptyBag = {}
BY DEF Positive, EmptyBag, SetToBag

\* What Op and WaitOps give the client.
LEMMA OpIs ==
  ASSUME NEW kind, NEW s, NEW x
  PROVE  /\ Op(kind, s, x).kind = kind /\ Op(kind, s, x).s = s
         /\ Op(kind, s, x).client = x.client
         /\ kind = "death" => Op(kind, s, x).death = x.deaths /\ Op(kind, s, x).target = x.known
BY DEF Op

LEMMA WaitOpsAre ==
  ASSUME NEW s, NEW x
  PROVE  /\ Positive(WaitOps(s, x))
         /\ \A op \in DOMAIN WaitOps(s, x) : op.kind \in Directions
         /\ \A d \in Directions : x.waits[d] # {} =>
               \E op \in DOMAIN WaitOps(s, x) : op.kind = d /\ op.s = s /\ op.client = x.client
<1> DEFINE S == {Op(d, s, x) : d \in {e \in Directions : x.waits[e] # {}}}
<1>1. WaitOps(s, x) = SetToBag(S)
  BY DEF WaitOps
<1>2. Positive(WaitOps(s, x)) /\ DOMAIN WaitOps(s, x) = S
  <2> HIDE DEF S
  <2> QED  BY <1>1, ASet
<1>3. ASSUME NEW d \in Directions, x.waits[d] # {}
      PROVE  \E op \in S : op.kind = d /\ op.s = s /\ op.client = x.client
  <2>1. Op(d, s, x) \in S
    BY <1>3
  <2> QED  BY <2>1, OpIs
<1>4. \A op \in S : op.kind \in Directions
  BY OpIs
<1> HIDE DEF S
<1> QED  BY <1>2, <1>3, <1>4

-----------------------------------------------------------------------------
(* A step on one session that gives operations to the client *)

\* Who waits once session s is x waited before, or is owed by an operation of B.
Owed(s, x, B) ==
  \A d \in Directions : IsRunning(x) /\ x.waits[d] # {} =>
     \/ IsRunning(ses[s]) /\ ses[s].waits[d] # {} /\ x.client = ses[s].client
     \/ \E op \in DOMAIN B : op.kind = d /\ op.s = s /\ op.client = x.client

Tracks(s, x) ==
  /\ ses' = [ses EXCEPT ![s] = x]
  /\ Positive(ops') /\ DOMAIN ops \subseteq DOMAIN ops'
  /\ x.state = "inactive" /\ ses[s].state # "inactive" => ops' = ops
  /\ \/ /\ x.deaths = ses[s].deaths
        /\ x.state = "dying" =>
              ses[s].state = "dying" /\ x.client = ses[s].client /\ x.known = ses[s].known
        /\ \A op \in DOMAIN ops' : op \in DOMAIN ops \/ op.kind # "death"
     \/ /\ x.deaths = ses[s].deaths + 1
        /\ \A op \in DOMAIN ops' :
              \/ op \in DOMAIN ops \/ op.kind # "death"
              \/ op.s = s /\ op.death = x.deaths /\ op.client = x.client /\ op.target = x.known
  /\ Owed(s, x, ops')

Track == UNCHANGED <<ses, ops>> \/ \E s \in Objects, x \in Sess : Tracks(s, x)

\* Nobody finds a session again that nothing keeps.
LiveKept == \A s \in Objects : Live(s)' => Live(s)

LEMMA TrackStep ==
  ASSUME IInv, OpsInv, Track, LiveKept
  PROVE  OpsInv'
<1>1. TypeInv /\ DOMAIN ses = Objects /\ \A op \in DOMAIN ops : op.s \in Objects
  BY ObjectsAre DEF IInv, TypeInv
<1>2. LiveSessions = {r \in Objects : Live(r)}
  BY <1>1 DEF LiveSessions
<1>3. CASE UNCHANGED <<ses, ops>>
  <2>1. LiveSessions' \subseteq LiveSessions
    BY <1>1, <1>3 DEF LiveSessions, LiveKept
  <2>2. WaitIsRegistered'
    BY <1>3, <2>1 DEF OpsInv, WaitIsRegistered, Running
  <2> QED  BY <1>3, <2>2 DEF OpsInv, DeathInv, Positive
<1>4. ASSUME NEW s \in Objects, NEW x \in Sess, Tracks(s, x)
      PROVE  OpsInv'
  <2>1. /\ DOMAIN ses' = Objects
        /\ ses'[s] = x /\ \A r \in Objects : r # s => ses'[r] = ses[r]
    <3>1. ses' = [ses EXCEPT ![s] = x]
      BY <1>4 DEF Tracks
    <3> QED  BY <1>1, <3>1
  <2>2. LiveSessions' \subseteq LiveSessions
    BY <1>2, <2>1 DEF LiveSessions, LiveKept
  <2>3. DeathInv'
    <3>1. SUFFICES ASSUME NEW op \in DOMAIN ops', op.kind = "death"
                   PROVE  op.death \in Nat /\ DeathOf(op, ses'[op.s])
      BY DEF DeathInv
    <3>2. ses[s].deaths \in Nat /\ x.deaths \in Nat
      BY <1>1, SessionFacts DEF IInv, Sess
    <3>3. CASE op \in DOMAIN ops
      <4>1. op.death \in Nat /\ DeathOf(op, ses[op.s]) /\ op.s \in Objects
        BY <1>1, <3>1, <3>3 DEF OpsInv, DeathInv
      <4>2. CASE op.s # s
        BY <2>1, <4>1, <4>2
      <4>3. CASE op.s = s
        <5>1. \/ x.deaths = ses[s].deaths /\ (x.state = "dying" =>
                   ses[s].state = "dying" /\ x.client = ses[s].client /\ x.known = ses[s].known)
              \/ x.deaths = ses[s].deaths + 1
          BY <1>4 DEF Tracks
        <5> QED  BY <2>1, <3>2, <4>1, <4>3, <5>1 DEF DeathOf
      <4> QED  BY <4>2, <4>3
    <3>4. CASE op \notin DOMAIN ops
      <4>1. op.s = s /\ op.death = x.deaths /\ op.client = x.client /\ op.target = x.known
        BY <1>4, <3>1, <3>4 DEF Tracks
      <4> QED  BY <2>1, <3>2, <4>1 DEF DeathOf
    <3> QED  BY <3>3, <3>4
  <2>4. WaitIsRegistered'
    <3>1. SUFFICES ASSUME NEW r \in LiveSessions', NEW d \in Directions,
                          IsRunning(ses'[r]), ses'[r].waits[d] # {}
                   PROVE  \E op \in DOMAIN ops' :
                             op.kind = d /\ op.s = r /\ op.client = ses'[r].client
      BY DEF WaitIsRegistered, Running, IsRunning, BagToSet
    <3>2. r \in LiveSessions /\ r \in Objects
      BY <1>2, <2>2
    <3>3. DOMAIN ops \subseteq DOMAIN ops'
      BY <1>4 DEF Tracks
    <3>4. ASSUME IsRunning(ses[r]), ses[r].waits[d] # {}
          PROVE  \E op \in DOMAIN ops' : op.kind = d /\ op.s = r /\ op.client = ses[r].client
      BY <3>2, <3>3, <3>4 DEF OpsInv, WaitIsRegistered, Running, IsRunning, BagToSet
    <3>5. CASE r # s
      BY <2>1, <3>1, <3>2, <3>4, <3>5
    <3>6. CASE r = s
      <4>1. \/ IsRunning(ses[s]) /\ ses[s].waits[d] # {} /\ x.client = ses[s].client
            \/ \E op \in DOMAIN ops' : op.kind = d /\ op.s = s /\ op.client = x.client
        BY <1>4, <2>1, <3>1, <3>6 DEF Tracks, Owed
      <4> QED  BY <2>1, <3>4, <3>6, <4>1
    <3> QED  BY <3>5, <3>6
  <2>5. Positive(ops')
    BY <1>4 DEF Tracks
  <2> QED  BY <2>3, <2>4, <2>5 DEF OpsInv, Positive
<1> QED  BY <1>3, <1>4 DEF Track

-----------------------------------------------------------------------------
(* The handlers of the states *)

\* A section whose new operations are those of callbacks that wait.
LEMMA SectionTracks ==
  ASSUME TypeInv, OpsInv, NEW t, NEW s \in Objects, NEW x \in Sess,
         NEW more, Positive(more), NEW steps, Section(t, s, x, more, steps),
         x.deaths = ses[s].deaths, x.state = "inactive" => ses[s].state = "inactive",
         x.state = "dying" =>
            ses[s].state = "dying" /\ x.client = ses[s].client /\ x.known = ses[s].known,
         \A op \in DOMAIN more : op.kind \in Directions, Owed(s, x, more)
  PROVE  Track
<1>1. ses' = [ses EXCEPT ![s] = x] /\ ops' = ops (+) more
  BY DEF Section
<1>2. DOMAIN ops' = DOMAIN ops \cup DOMAIN more
  BY <1>1, MoreOps, Zenon
<1>3. Positive(ops')
  BY <1>1, PlusPositive DEF OpsInv
<1>4. \A op \in DOMAIN ops' : op \in DOMAIN ops \/ op.kind # "death"
  BY <1>2 DEF Directions
<1>5. Owed(s, x, ops')
  BY <1>2 DEF Owed
<1>6. Tracks(s, x)
  BY <1>1, <1>2, <1>3, <1>4, <1>5 DEF Tracks
<1> QED  BY <1>6 DEF Track

\* A section that changes nothing an operation depends on.
LEMMA SameTracks ==
  ASSUME TypeInv, OpsInv, NEW t, NEW s \in Objects, NEW x \in Sess,
         NEW steps, Section(t, s, x, EmptyBag, steps),
         x.deaths = ses[s].deaths, x.state = ses[s].state \/ x.state = "waiting",
         x.client = ses[s].client, x.waits = ses[s].waits,
         x.state = "dying" => x.known = ses[s].known
  PROVE  Track
<1>1. Positive(EmptyBag) /\ DOMAIN EmptyBag = {}
  BY AnEmptyBag
<1>2. Owed(s, x, EmptyBag)
  BY DEF IsRunning, Owed
<1> QED  BY <1>1, <1>2, SectionTracks

LEMMA NothingTracks ==
  ASSUME TypeInv, ClientInv, OpsInv, NEW t, NEW s \in Objects, Nothing(t, s)
  PROVE  Track
<1>1. ses[s] \in Sess
  BY SessionFacts
<1> QED  BY <1>1, SameTracks DEF Nothing

\* A session stops without the client, or the process aborts.
LEMMA AdvanceInactiveTracks ==
  ASSUME TypeInv, ClientInv, OpsInv, NEW t, NEW s \in Objects, NEW rest,
         AdvanceInactive(t, s, rest)
  PROVE  Track
<1> DEFINE x == Stopped(ses[s])
<1>1. CASE UNCHANGED <<ses, ops>>
  BY <1>1 DEF Track
<1>2. CASE ses' = [ses EXCEPT ![s] = Stopped(@)] /\ ops' = ops
  <2>1. ses[s] \in Sess
    BY SessionFacts
  <2>2. x \in Sess /\ x.state = "inactive" /\ x.deaths = ses[s].deaths
    BY <2>1 DEF Stopped, Sess, NoWaits
  <2>3. ses' = [ses EXCEPT ![s] = x]
    BY <1>2
  <2> HIDE DEF x
  <2>4. Tracks(s, x)
    BY <1>2, <2>2, <2>3 DEF Tracks, OpsInv, IsRunning, Owed
  <2> QED  BY <2>2, <2>4 DEF Track
<1> QED  BY <1>1, <1>2 DEF AdvanceInactive

\* The operation of a death counts it, and no earlier operation knows it.
LEMMA AdvanceDyingTracks ==
  ASSUME TypeInv, OpsInv, NEW t, NEW s \in Objects, NEW x \in Sess,
         NEW more, Positive(more), AdvanceDying(t, s, x, more),
         x.deaths = ses[s].deaths,
         x.state = "active",
         \A op \in DOMAIN more : op.kind \in Directions, Owed(s, x, more)
  PROVE  Track
<1> DEFINE y == [x EXCEPT !.state = "dying", !.deaths = @ + 1]
           one == SetToBag({Op("death", s, y)})
<1>1. /\ y \in Sess /\ y.state = "dying" /\ y.client = x.client /\ y.waits = x.waits
      /\ y.known = x.known /\ y.deaths = x.deaths + 1
  <2>1. x.deaths + 1 \in Nat
    BY DEF Sess
  <2>2. y = [[x EXCEPT !.state = "dying"] EXCEPT !.deaths = x.deaths + 1]
    BY DEF Sess
  <2>3. [x EXCEPT !.state = "dying"] \in Sess
    BY DEF Sess
  <2> QED  BY <2>1, <2>2, <2>3 DEF Sess
<1>2. ses' = [ses EXCEPT ![s] = y] /\ ops' = ops (+) (more (+) one)
  BY DEF AdvanceDying, Section
<1> HIDE DEF y
<1>3. Positive(one) /\ DOMAIN one = {Op("death", s, y)}
  BY ASet, Zenon
<1>4. /\ Op("death", s, y).s = s /\ Op("death", s, y).client = y.client
      /\ Op("death", s, y).death = y.deaths /\ Op("death", s, y).target = y.known
  BY DEF Op
<1> HIDE DEF one
<1>5. Positive(ops') /\ DOMAIN ops' = DOMAIN ops \cup (DOMAIN more \cup DOMAIN one)
  <2>1. Positive(more (+) one) /\ DOMAIN (more (+) one) = DOMAIN more \cup DOMAIN one
    BY <1>3, PlusPositive, MoreOps, Zenon
  <2>2. DOMAIN ops' = DOMAIN ops \cup DOMAIN (more (+) one)
    BY <1>2, MoreOps, Zenon
  <2>3. Positive(ops')
    BY <1>2, <2>1, PlusPositive, Zenon DEF OpsInv
  <2> QED  BY <2>1, <2>2, <2>3, Zenon
<1>6. \A op \in DOMAIN ops' :
         \/ op \in DOMAIN ops \/ op.kind # "death"
         \/ op.s = s /\ op.death = y.deaths /\ op.client = y.client /\ op.target = y.known
  <2>1. ASSUME NEW op \in DOMAIN more PROVE op.kind # "death"
    BY DEF Directions
  <2> QED  BY <1>3, <1>4, <1>5, <2>1, Zenon
<1>7. Owed(s, y, ops')
  BY <1>1, <1>5 DEF Owed, IsRunning
<1>8. Tracks(s, y)
  BY <1>1, <1>2, <1>5, <1>6, <1>7 DEF Tracks
<1> QED  BY <1>1, <1>8 DEF Track

LEMMA AdvanceActiveTracks ==
  ASSUME TypeInv, ClientInv, OpsInv, NEW t, NEW s \in Objects, AdvanceActive(t, s)
  PROVE  Track
<1> DEFINE x == [ses[s] EXCEPT !.state = "active"]
<1>1. ses[s] \in Sess
  BY SessionFacts
<1>2. x \in Sess /\ x.deaths = ses[s].deaths /\ x.state = "active"
  BY <1>1 DEF Sess
<1>3. Section(t, s, x, WaitOps(s, x), <<>>)
  BY DEF AdvanceActive
<1> HIDE DEF x
<1>4. /\ Positive(WaitOps(s, x))
      /\ \A op \in DOMAIN WaitOps(s, x) : op.kind \in Directions
      /\ \A d \in Directions : x.waits[d] # {} =>
            \E op \in DOMAIN WaitOps(s, x) : op.kind = d /\ op.s = s /\ op.client = x.client
  BY WaitOpsAre
<1>5. Owed(s, x, WaitOps(s, x))
  BY <1>4 DEF Owed
<1> QED  BY <1>2, <1>3, <1>4, <1>5, SectionTracks

LEMMA AdvanceWaitingTracks ==
  ASSUME TypeInv, ClientInv, OpsInv, NEW t, NEW s \in Objects, AdvanceWaiting(t, s)
  PROVE  Track
<1> DEFINE x == [ses[s] EXCEPT !.state = "waiting", !.deferredClose = FALSE]
<1>1. ses[s] \in Sess
  BY SessionFacts
<1>2. /\ x \in Sess /\ x.deaths = ses[s].deaths /\ x.state = "waiting"
      /\ x.client = ses[s].client /\ x.waits = ses[s].waits
  BY <1>1 DEF Sess
<1>3. Section(t, s, x, EmptyBag, <<Step("bind", s)>>)
  BY DEF AdvanceWaiting
<1> HIDE DEF x
<1> QED  BY <1>2, <1>3, SameTracks

LEMMA CloseTracks ==
  ASSUME TypeInv, ClientInv, OpsInv, NEW t, NEW s \in Objects, Close(t, s)
  PROVE  Track
<1>1. ses[s] \in Sess
  BY SessionFacts
<1>2. CASE AdvanceInactive(t, s, <<>>)
  BY <1>2, AdvanceInactiveTracks
<1>3. CASE Section(t, s, [ses[s] EXCEPT !.deferredClose = TRUE], EmptyBag, <<>>)
  <2> DEFINE x == [ses[s] EXCEPT !.deferredClose = TRUE]
  <2>1. /\ x \in Sess /\ x.deaths = ses[s].deaths /\ x.state = ses[s].state
        /\ x.client = ses[s].client /\ x.waits = ses[s].waits /\ x.known = ses[s].known
    BY <1>1 DEF Sess
  <2>2. Section(t, s, x, EmptyBag, <<>>)
    BY <1>3
  <2> HIDE DEF x
  <2> QED  BY <2>1, <2>2, SameTracks
<1>4. CASE ses[s].state = "active" /\ AdvanceDying(t, s, ses[s], EmptyBag)
  <2>1. Positive(EmptyBag) /\ DOMAIN EmptyBag = {}
    BY AnEmptyBag
  <2>2. Owed(s, ses[s], EmptyBag)
    BY DEF Owed
  <2>3. \A op \in DOMAIN EmptyBag : op.kind \in Directions
    BY <2>1
  <2> QED  BY <1>1, <1>4, <2>1, <2>2, <2>3, AdvanceDyingTracks
<1>5. CASE Nothing(t, s)
  BY <1>5, NothingTracks
<1>6. CASE Section(t, s, ses[s], EmptyBag, <<Step("unregister", s)>>)
  BY <1>1, <1>6, SameTracks
<1> QED  BY <1>2, <1>3, <1>4, <1>5, <1>6 DEF Close

\* Callbacks that are taken need no operation.
LEMMA CancelWaitsTracks ==
  ASSUME TypeInv, ClientInv, OpsInv, NEW s \in Objects, NEW steps, CancelWaits(s, steps)
  PROVE  Track
<1> DEFINE x == [ses[s] EXCEPT !.waits = NoWaits]
<1>1. ses[s] \in Sess
  BY SessionFacts
<1>2. /\ x \in Sess /\ x.deaths = ses[s].deaths /\ x.state = ses[s].state
      /\ x.client = ses[s].client /\ x.waits = NoWaits /\ x.known = ses[s].known
  BY <1>1 DEF Sess, NoWaits
<1>3. ses' = [ses EXCEPT ![s] = x] /\ ops' = ops
  BY DEF CancelWaits
<1>4. \A d \in Directions : NoWaits[d] = {}
  BY DEF NoWaits
<1> HIDE DEF x
<1>5. Tracks(s, x)
  BY <1>2, <1>3, <1>4 DEF Tracks, OpsInv, Owed
<1> QED  BY <1>2, <1>5 DEF Track

-----------------------------------------------------------------------------
(* What keeps a session *)

\* No thread gets a step on a session that nothing kept.
Finds ==
  \A s \in Objects, u \in AllThreads :
      (\E i \in DOMAIN todo'[u] : todo'[u][i].s = s) => Live(s)

\* A thread goes on with steps on session s, or on none.
OfSes(s) == {e \in OwnSteps(Objects) : e.s \in {s, None}}
Goes(t, s) == todo' = todo \/ \E steps \in Seq(OfSes(s)) : Then(t, steps)

LEMMA LiveFrom ==
  ASSUME TypeInv, registered' = registered \/ registered' \notin Objects,
         \A s \in Objects : refs'[s] > 0 => Live(s),
         \/ handle' = handle
         \/ ~handle'.strong
         \/ handle'.session \in Objects => Live(handle'.session),
         Finds
  PROVE  LiveKept
<1>1. None \notin Objects
  BY ObjectsAre
<1>2. SUFFICES ASSUME NEW s \in Objects, Live(s)' PROVE Live(s)
  BY DEF LiveKept
<1>3. \/ registered' = s
      \/ refs'[s] > 0
      \/ handle'.session = s /\ handle'.strong
      \/ \E t \in AllThreads : \E i \in DOMAIN todo'[t] : todo'[t][i].s = s
  BY <1>2 DEF Live, AllThreads
<1>4. CASE registered' = s
  BY <1>1, <1>4 DEF Live
<1>5. CASE handle'.session = s /\ handle'.strong
  BY <1>1, <1>5 DEF Live
<1> QED  BY <1>3, <1>4, <1>5 DEF Finds

LEMMA ThenFinds ==
  ASSUME NEW S, todo \in [AllThreads -> Seq(S)], None \notin Objects,
         NEW t \in AllThreads, NEW steps \in Seq(S), Then(t, steps),
         \A i \in 1 .. Len(steps) : steps[i].s \in Objects => Live(steps[i].s)
  PROVE  Finds
<1>1. SUFFICES ASSUME NEW s \in Objects, NEW u \in AllThreads,
                      NEW i \in DOMAIN todo'[u], todo'[u][i].s = s
               PROVE  Live(s)
  BY DEF Finds
<1>2. /\ todo' \in [AllThreads -> Seq(S)]
      /\ \A v \in AllThreads : v # t => todo'[v] = todo[v]
      /\ \A k \in 1 .. Len(todo'[t]) :
            \/ k \in 1 .. Len(steps) /\ todo'[t][k] = steps[k]
            \/ \E j \in 1 .. Len(todo[t]) : todo'[t][k] = todo[t][j]
  BY ThenSteps
<1>3. DOMAIN todo[t] = 1 .. Len(todo[t]) /\ DOMAIN todo'[t] = 1 .. Len(todo'[t])
  BY <1>2, SeqLen
<1>4. ASSUME NEW v \in AllThreads, NEW j \in DOMAIN todo[v], todo[v][j].s = s
      PROVE  Live(s)
  BY <1>1, <1>4 DEF Live
<1>5. CASE u # t
  BY <1>1, <1>2, <1>4, <1>5
<1>6. CASE u = t
  BY <1>1, <1>2, <1>3, <1>4, <1>6
<1> QED  BY <1>5, <1>6

LEMMA GoesFinds ==
  ASSUME TypeInv, NEW t \in AllThreads, NEW s, s \in Objects => Live(s), Goes(t, s)
  PROVE  Finds
<1>1. None \notin Objects /\ todo \in [AllThreads -> Seq(OwnSteps(Objects))]
  BY ObjectsAre DEF TypeInv
<1>2. CASE todo' = todo
  BY <1>1, <1>2 DEF Finds, Live
<1>3. ASSUME NEW steps \in Seq(OfSes(s)), Then(t, steps)
      PROVE  Finds
  <2>1. OfSes(s) \subseteq OwnSteps(Objects)
    BY DEF OfSes
  <2>2. steps \in Seq(OwnSteps(Objects))
    BY <2>1, SeqDef
  <2>3. ASSUME NEW i \in 1 .. Len(steps), steps[i].s \in Objects PROVE Live(steps[i].s)
    <3>1. steps[i] \in OfSes(s)
      BY ElementOfSeq
    <3> QED  BY <1>1, <2>3, <3>1 DEF OfSes
  <2> QED  BY <1>1, <1>3, <2>2, <2>3, ThenFinds
<1> QED  BY <1>2, <1>3 DEF Goes

\* The step a thread is at keeps its session.
LEMMA AtLive ==
  ASSUME TypeInv, NEW t \in AllThreads, NEW do, At(t, do)
  PROVE  Session(t) \in Objects => Live(Session(t))
<1>1. todo[t] \in Seq(OwnSteps(Objects)) /\ todo[t] # <<>>
  BY DEF TypeInv, At
<1>2. 1 \in DOMAIN todo[t] /\ todo[t][1] = Head(todo[t])
  BY <1>1, SeqLen, HeadTailProperties
<1>3. None \notin Objects
  BY ObjectsAre
<1> QED  BY <1>2, <1>3 DEF Live, Session

LEMMA OneOfSes ==
  ASSUME NEW s \in Objects
  PROVE  /\ <<>> \in Seq(OfSes(s))
         /\ \A do \in StepNames : Step(do, s) \in OfSes(s) /\ <<Step(do, s)>> \in Seq(OfSes(s))
<1>1. ASSUME NEW do \in StepNames PROVE Step(do, s) \in OfSes(s)
  BY DEF Step, OfSes, OwnSteps
<1> HIDE DEF Step
<1> QED  BY <1>1

\* The handlers of the states only give steps on their session.
LEMMA InactiveGoes ==
  ASSUME NEW t, NEW s \in Objects, NEW rest \in Seq(OfSes(s)), AdvanceInactive(t, s, rest)
  PROVE  Goes(t, s)
<1>1. <<Step("unregister", s)>> \o rest \in Seq(OfSes(s))
  BY OneOfSes, ConcatProperties DEF StepNames
<1> QED  BY <1>1 DEF AdvanceInactive, Goes

LEMMA SectionGoes ==
  ASSUME NEW t, NEW s, NEW x, NEW more, NEW steps \in Seq(OfSes(s)), Section(t, s, x, more, steps)
  PROVE  Goes(t, s)
BY DEF Section, Goes

LEMMA HandlersGo ==
  ASSUME NEW t, NEW s \in Objects
  PROVE  /\ Nothing(t, s) => Goes(t, s)
         /\ AdvanceActive(t, s) => Goes(t, s)
         /\ AdvanceWaiting(t, s) => Goes(t, s)
         /\ \A x, more : AdvanceDying(t, s, x, more) => Goes(t, s)
         /\ Close(t, s) => Goes(t, s)
         /\ CloseNow(t, s) => Goes(t, s)
         /\ \A rest \in Seq(OfSes(s)) : CancelWaits(s, rest) => Goes(Loop, s)
<1>1. <<>> \in Seq(OfSes(s)) /\ <<Step("bind", s)>> \in Seq(OfSes(s))
      /\ <<Step("unregister", s)>> \in Seq(OfSes(s))
  BY OneOfSes DEF StepNames
<1>2. Nothing(t, s) => Goes(t, s)
  BY <1>1 DEF Nothing, Section, Goes
<1>3. AdvanceActive(t, s) => Goes(t, s)
  BY <1>1 DEF AdvanceActive, Section, Goes
<1>4. AdvanceWaiting(t, s) => Goes(t, s)
  BY <1>1 DEF AdvanceWaiting, Section, Goes
<1>5. ASSUME NEW x, NEW more, AdvanceDying(t, s, x, more) PROVE Goes(t, s)
  BY <1>1, <1>5 DEF AdvanceDying, Section, Goes
<1>6. Close(t, s) => Goes(t, s)
  <2>1. AdvanceInactive(t, s, <<>>) => Goes(t, s)
    BY <1>1, InactiveGoes
  <2>2. ASSUME NEW x, NEW steps \in {<<>>, <<Step("unregister", s)>>},
               Section(t, s, x, EmptyBag, steps)
        PROVE  Goes(t, s)
    BY <1>1, <2>2 DEF Section, Goes
  <2> QED  BY <1>2, <1>5, <2>1, <2>2 DEF Close
<1>7. CloseNow(t, s) => Goes(t, s)
  BY <1>1, <1>2, InactiveGoes DEF CloseNow
<1>8. ASSUME NEW rest \in Seq(OfSes(s)), CancelWaits(s, rest) PROVE Goes(Loop, s)
  BY <1>8 DEF CancelWaits, Goes
<1> QED  BY <1>2, <1>3, <1>4, <1>5, <1>6, <1>7, <1>8

\* A thread goes on while the table and the references are as they were.
LEMMA StillLive ==
  ASSUME TypeInv, NEW t \in AllThreads, NEW s, s \in Objects => Live(s), Goes(t, s),
         UNCHANGED <<refs, registered>>,
         \/ handle' = handle
         \/ ~handle'.strong
         \/ handle'.session \in Objects => Live(handle'.session)
  PROVE  LiveKept
<1>1. Finds
  BY GoesFinds
<1>2. \A r \in Objects : refs'[r] > 0 => Live(r)
  BY ObjectsAre DEF Live
<1> QED  BY <1>1, <1>2, LiveFrom

-----------------------------------------------------------------------------
(* The actions on one session *)

\* Revival, the end of a reference, log out and a new configuration.
LEMMA SectionsTrack ==
  ASSUME IInv, OpsInv, NEW t \in AllThreads,
         Revive(t) \/ Dropped(t) \/ LogOutSession(t) \/ Configure(t)
  PROVE  Track /\ LiveKept
<1> DEFINE s == Session(t)
<1>1. TypeInv /\ ClientInv
  BY DEF IInv
<1>2. s \in Objects /\ Live(s)
  BY <1>1, HeadStep, AtLive DEF Revive, Dropped, LogOutSession, Configure
<1>3. ses[s] \in Sess /\ ClientOf(ses[s])
  BY <1>1, <1>2, SessionFacts
<1>4. /\ <<>> \in Seq(OfSes(s)) /\ <<Step("configure", s)>> \in Seq(OfSes(s))
      /\ <<Step("revive", s)>> \in Seq(OfSes(s))
  BY <1>2, OneOfSes DEF StepNames
<1>5. UNCHANGED <<refs, registered, handle>>
  BY DEF Revive, Dropped, LogOutSession, Configure, managerVars
<1> SUFFICES Track /\ Goes(t, s)
  BY <1>1, <1>2, <1>5, StillLive
<1>6. CASE Revive(t)
  <2> HIDE DEF s
  <2>1. CASE AdvanceWaiting(t, s)
    BY <1>1, <1>2, <2>1, AdvanceWaitingTracks, HandlersGo
  <2>2. CASE Section(t, s, [ses[s] EXCEPT !.deferredClose = FALSE], EmptyBag, <<>>)
    <3> DEFINE x == [ses[s] EXCEPT !.deferredClose = FALSE]
    <3>1. /\ x \in Sess /\ x.deaths = ses[s].deaths /\ x.state = ses[s].state
          /\ x.client = ses[s].client /\ x.waits = ses[s].waits /\ x.known = ses[s].known
      BY <1>3 DEF Sess
    <3>2. Section(t, s, x, EmptyBag, <<>>)
      BY <2>2
    <3> HIDE DEF x
    <3>3. Track
      BY <1>1, <1>2, <3>1, <3>2, SameTracks
    <3> QED  BY <1>4, <3>2, <3>3, SectionGoes
  <2>3. CASE AdvanceActive(t, s)
    BY <1>1, <1>2, <2>3, AdvanceActiveTracks, HandlersGo
  <2>4. CASE Nothing(t, s)
    BY <1>1, <1>2, <2>4, NothingTracks, HandlersGo
  <2> QED  BY <1>6, <2>1, <2>2, <2>3, <2>4 DEF Revive, s
<1>7. CASE Dropped(t)
  <2> HIDE DEF s
  <2>1. Nothing(t, s) \/ Close(t, s)
    BY <1>7 DEF Dropped, s
  <2> QED  BY <1>1, <1>2, <2>1, NothingTracks, CloseTracks, HandlersGo
<1>8. CASE LogOutSession(t)
  <2> HIDE DEF s
  <2>1. CloseNow(t, s)
    BY <1>8 DEF LogOutSession, s
  <2>2. Track
    BY <1>1, <1>2, <2>1, AdvanceInactiveTracks, NothingTracks DEF CloseNow
  <2> QED  BY <1>2, <2>1, <2>2, HandlersGo
<1>9. CASE Configure(t)
  <2> HIDE DEF s
  <2>1. CASE AdvanceInactive(t, s, <<Step("configure", s)>>)
    BY <1>1, <1>2, <1>4, <2>1, AdvanceInactiveTracks, InactiveGoes
  <2>2. CASE Section(t, s, ses[s], EmptyBag, <<Step("revive", s)>>)
    BY <1>1, <1>2, <1>3, <1>4, <2>2, SameTracks, SectionGoes
  <2> QED  BY <1>9, <2>1, <2>2 DEF Configure, s
<1> QED  BY <1>6, <1>7, <1>8, <1>9

\* A token arrives.
LEMMA TokenArrivesTracks ==
  ASSUME IInv, OpsInv, NEW t \in Threads, TokenArrives(t)
  PROVE  Track /\ LiveKept
<1> DEFINE s == handle.session
           x == ses[s]
           y == [x EXCEPT !.state = "active", !.deferred = 0,
                          !.client = IF @ = 0 THEN x.made + 1 ELSE @,
                          !.made = IF x.client = 0 THEN @ + 1 ELSE @,
                          !.known = IF x.client = 0 THEN version
                                    ELSE IF x.deferred > 0 THEN x.deferred ELSE @]
<1>1. TypeInv /\ ClientInv /\ t \in AllThreads
  BY DEF IInv, AllThreads
<1>2. s \in Objects /\ Live(s)
  BY <1>1 DEF TokenArrives, Live, TypeInv
<1>3. UNCHANGED <<refs, registered>> /\ ~handle'.strong
  BY <1>1 DEF TypeInv, TokenArrives, managerVars
<1>4. x \in Sess
  BY <1>1, <1>2, SessionFacts
<1>5. y \in Sess /\ y.state = "active" /\ y.deaths = x.deaths
  <2>1. version \in Nat
    BY <1>1 DEF TypeInv
  <2> HIDE DEF x
  <2> DEFINE c == IF x.client = 0 THEN x.made + 1 ELSE x.client
             m == IF x.client = 0 THEN x.made + 1 ELSE x.made
             k == IF x.client = 0 THEN version
                  ELSE IF x.deferred > 0 THEN x.deferred ELSE x.known
  <2>2. c \in Nat /\ m \in Nat /\ k \in Nat
    BY <1>4, <2>1 DEF Sess
  <2>3. y = [x EXCEPT !.state = "active", !.deferred = 0, !.client = c, !.made = m, !.known = k]
    BY <1>4 DEF Sess
  <2> HIDE DEF c, m, k, y
  <2> QED  BY <1>4, <2>2, <2>3 DEF Sess
<1>6. <<>> \in Seq(OfSes(s))
  OBVIOUS
<1>7. \/ AdvanceDying(t, s, y, WaitOps(s, y))
      \/ Section(t, s, y, WaitOps(s, y), <<>>)
      \/ Nothing(t, s)
  BY DEF TokenArrives
<1> HIDE DEF y, s
<1>8. /\ Positive(WaitOps(s, y)) /\ \A op \in DOMAIN WaitOps(s, y) : op.kind \in Directions
      /\ Owed(s, y, WaitOps(s, y))
  BY WaitOpsAre DEF Owed
<1>9. Track
  <2>1. CASE AdvanceDying(t, s, y, WaitOps(s, y))
    BY <1>1, <1>2, <1>5, <1>8, <2>1, AdvanceDyingTracks
  <2>2. CASE Section(t, s, y, WaitOps(s, y), <<>>)
    BY <1>1, <1>2, <1>5, <1>8, <2>2, SectionTracks
  <2> QED  BY <1>1, <1>2, <1>7, <2>1, <2>2, NothingTracks
<1>10. Goes(t, s)
  BY <1>2, <1>6, <1>7, SectionGoes, HandlersGo
<1> QED  BY <1>1, <1>2, <1>3, <1>9, <1>10, StillLive

\* A callback is registered: the first one asks the client.
LEMMA WaitForTracks ==
  ASSUME IInv, OpsInv, NEW t \in Threads, WaitFor(t)
  PROVE  Track /\ LiveKept
<1>1. TypeInv /\ ClientInv /\ t \in AllThreads
  BY DEF IInv, AllThreads
<1>2. UNCHANGED <<refs, registered, handle>>
  BY DEF WaitFor, managerVars
<1> DEFINE More(s, d) == IF IsRunning(ses[s]) /\ ses[s].waits[d] = {}
                         THEN SetToBag({Op(d, s, ses[s])}) ELSE EmptyBag
<1>3. PICK s \in LiveSessions, w \in Waits, d \in Directions :
          Section(t, s, [ses[s] EXCEPT !.waits[d] = @ \cup {w}], More(s, d), <<>>)
  BY DEF WaitFor, IsRunning
<1> DEFINE x == [ses[s] EXCEPT !.waits[d] = @ \cup {w}]
           more == More(s, d)
<1>4. s \in Objects /\ Live(s)
  BY <1>1, ObjectsAre DEF LiveSessions
<1>5. ses[s] \in Sess
  BY <1>1, <1>4, SessionFacts
<1>6. /\ x \in Sess /\ x.state = ses[s].state /\ x.client = ses[s].client
      /\ x.known = ses[s].known /\ x.deaths = ses[s].deaths
      /\ \A e \in Directions : e # d => x.waits[e] = ses[s].waits[e]
  <2> DEFINE ww == [ses[s].waits EXCEPT ![d] = @ \cup {w}]
  <2>1. ses[s].waits \in [Directions -> SUBSET Waits]
    BY <1>5 DEF Sess
  <2>2. /\ ww \in [Directions -> SUBSET Waits]
        /\ \A e \in Directions : e # d => ww[e] = ses[s].waits[e]
    BY <2>1
  <2>3. x = [ses[s] EXCEPT !.waits = ww]
    BY <1>5 DEF Sess
  <2> HIDE DEF ww, x
  <2>4. /\ x \in Sess /\ x.state = ses[s].state /\ x.client = ses[s].client /\ x.waits = ww
        /\ x.known = ses[s].known /\ x.deaths = ses[s].deaths
    BY <1>5, <2>2, <2>3 DEF Sess
  <2> QED  BY <2>2, <2>4
<1>7. Section(t, s, x, more, <<>>)
  BY <1>3
<1> HIDE DEF x
<1>8. \/ IsRunning(ses[s]) /\ ses[s].waits[d] = {} /\ more = SetToBag({Op(d, s, ses[s])})
      \/ ~(IsRunning(ses[s]) /\ ses[s].waits[d] = {}) /\ more = EmptyBag
  OBVIOUS
<1> HIDE DEF more
<1>9. /\ Positive(more) /\ \A op \in DOMAIN more : op.kind \in Directions
      /\ Owed(s, x, more)
  <2>1. CASE /\ IsRunning(ses[s]) /\ ses[s].waits[d] = {}
             /\ more = SetToBag({Op(d, s, ses[s])})
    <3> DEFINE op == Op(d, s, ses[s])
    <3>1. Positive(more) /\ DOMAIN more = {op}
      BY <2>1, ASet, Zenon
    <3>2. op.kind = d /\ op.s = s /\ op.client = ses[s].client
      BY OpIs
    <3> HIDE DEF op
    <3> QED  BY <1>6, <2>1, <3>1, <3>2 DEF Owed, IsRunning
  <2>2. CASE ~(IsRunning(ses[s]) /\ ses[s].waits[d] = {}) /\ more = EmptyBag
    <3>1. Positive(more) /\ DOMAIN more = {}
      BY <2>2, AnEmptyBag, Zenon
    <3>2. Owed(s, x, more)
      BY <1>6, <2>2 DEF Owed, IsRunning
    <3> QED  BY <3>1, <3>2
  <2> QED  BY <1>8, <2>1, <2>2
<1>10. Track
  BY <1>1, <1>4, <1>6, <1>7, <1>9, SectionTracks
<1>11. <<>> \in Seq(OfSes(s))
  OBVIOUS
<1>12. Goes(t, s)
  BY <1>7, <1>11, SectionGoes
<1> QED  BY <1>1, <1>2, <1>4, <1>10, <1>12, StillLive

\* A commit is told or kept.
LEMMA CommitTracks ==
  ASSUME IInv, OpsInv, NEW t \in Threads, Commit(t)
  PROVE  Track /\ LiveKept
<1>1. TypeInv /\ ClientInv /\ t \in AllThreads
  BY DEF IInv, AllThreads
<1>2. UNCHANGED <<refs, registered, handle>> /\ version' \in Nat
  BY <1>1 DEF Commit, managerVars, TypeInv
<1> DEFINE After(s) == [ses[s] EXCEPT
                !.known = IF ses[s].state = "active" THEN version' ELSE @,
                !.deferred = IF ses[s].state = "waiting" THEN version' ELSE @]
<1>3. PICK s \in DOMAIN ses : refs[s] > 0 /\ Section(t, s, After(s), EmptyBag, <<>>)
  BY DEF Commit
<1> DEFINE x == ses[s]
           k == IF x.state = "active" THEN version' ELSE x.known
           f == IF x.state = "waiting" THEN version' ELSE x.deferred
           y == After(s)
<1>4. s \in Objects /\ Live(s)
  BY <1>1, <1>3, ObjectsAre DEF Live
<1>5. x \in Sess
  BY <1>1, <1>4, SessionFacts
<1>6. k \in Nat /\ f \in Nat /\ (x.state = "dying" => k = x.known)
  BY <1>2, <1>5 DEF Sess
<1>7. y = [x EXCEPT !.known = k, !.deferred = f]
  BY <1>5 DEF Sess
<1>8. /\ y \in Sess /\ y.state = x.state /\ y.client = x.client /\ y.waits = x.waits
      /\ y.deaths = x.deaths /\ y.known = k
  <2> HIDE DEF x, k, f, y
  <2> QED  BY <1>5, <1>6, <1>7 DEF Sess
<1>9. Section(t, s, y, EmptyBag, <<>>)
  BY <1>3
<1> HIDE DEF y, k, f
<1>10. Track
  BY <1>1, <1>4, <1>6, <1>8, <1>9, SameTracks
<1>11. <<>> \in Seq(OfSes(s))
  OBVIOUS
<1>12. Goes(t, s)
  BY <1>9, <1>11, SectionGoes
<1> QED  BY <1>1, <1>2, <1>4, <1>10, <1>12, StillLive

\* An error arrives.
LEMMA ReceiveErrorTracks ==
  ASSUME IInv, OpsInv, ReceiveError
  PROVE  Track /\ LiveKept
<1>1. TypeInv /\ ClientInv /\ Loop \in AllThreads
  BY DEF IInv, AllThreads
<1>2. UNCHANGED <<refs, registered, handle>>
  BY DEF ReceiveError, managerVars
<1>3. PICK s \in LiveSessions, kind \in Errors :
          \/ AdvanceInactive(Loop, s, <<>>)
          \/ Nothing(Loop, s)
          \/ Section(Loop, s, ses[s], EmptyBag, <<Step(kind, s)>>)
  BY DEF ReceiveError
<1>4. s \in Objects /\ Live(s)
  BY <1>1, ObjectsAre DEF LiveSessions
<1>5. ses[s] \in Sess
  BY <1>1, <1>4, SessionFacts
<1>6. <<>> \in Seq(OfSes(s)) /\ <<Step(kind, s)>> \in Seq(OfSes(s))
  BY <1>4, OneOfSes DEF Errors, Fatal, StepNames
<1>7. CASE AdvanceInactive(Loop, s, <<>>)
  <2>1. Track /\ Goes(Loop, s)
    BY <1>1, <1>4, <1>6, <1>7, AdvanceInactiveTracks, InactiveGoes
  <2> QED  BY <1>1, <1>2, <1>4, <2>1, StillLive
<1>8. CASE Nothing(Loop, s)
  <2>1. Track /\ Goes(Loop, s)
    BY <1>1, <1>4, <1>8, NothingTracks, HandlersGo
  <2> QED  BY <1>1, <1>2, <1>4, <2>1, StillLive
<1>9. CASE Section(Loop, s, ses[s], EmptyBag, <<Step(kind, s)>>)
  <2>1. Track
    BY <1>1, <1>4, <1>5, <1>9, SameTracks
  <2>2. Goes(Loop, s)
    BY <1>6, <1>9, SectionGoes
  <2> QED  BY <1>1, <1>2, <1>4, <2>1, <2>2, StillLive
<1> QED  BY <1>3, <1>7, <1>8, <1>9

\* An error takes effect.
LEMMA HandleErrorTracks ==
  ASSUME IInv, OpsInv, HandleError
  PROVE  Track /\ LiveKept
<1>1. TypeInv /\ ClientInv /\ Loop \in AllThreads
  BY DEF IInv, AllThreads
<1>2. UNCHANGED <<refs, registered, handle>>
  BY DEF HandleError, managerVars
<1> DEFINE s == Session(Loop)
<1>3. PICK kind \in Errors : At(Loop, kind)
  BY DEF HandleError
<1>4. s \in Objects /\ Live(s)
  BY <1>1, <1>3, HeadStep, AtLive DEF Errors, Fatal
<1>5. \/ AdvanceWaiting(Loop, s)
      \/ Nothing(Loop, s)
      \/ CancelWaits(s, <<Step("invalidate", s), Step("nonfatal", s)>>)
      \/ AdvanceInactive(Loop, s, <<>>)
      \/ CancelWaits(s, <<>>)
  BY DEF HandleError
<1> HIDE DEF s
<1>6. <<>> \in Seq(OfSes(s))
      /\ <<Step("invalidate", s), Step("nonfatal", s)>> \in Seq(OfSes(s))
  <2>1. Step("invalidate", s) \in OfSes(s) /\ Step("nonfatal", s) \in OfSes(s)
    BY <1>4, OneOfSes DEF StepNames
  <2> QED  BY <2>1
<1>7. Track /\ Goes(Loop, s)
  <2>1. CASE AdvanceWaiting(Loop, s)
    BY <1>1, <1>4, <2>1, AdvanceWaitingTracks, HandlersGo
  <2>2. CASE Nothing(Loop, s)
    BY <1>1, <1>4, <2>2, NothingTracks, HandlersGo
  <2>3. CASE CancelWaits(s, <<Step("invalidate", s), Step("nonfatal", s)>>)
    <3>1. Track
      BY <1>1, <1>4, <2>3, CancelWaitsTracks
    <3> QED  BY <1>6, <2>3, <3>1 DEF CancelWaits, Goes
  <2>4. CASE AdvanceInactive(Loop, s, <<>>)
    BY <1>1, <1>4, <1>6, <2>4, AdvanceInactiveTracks, InactiveGoes
  <2>5. CASE CancelWaits(s, <<>>)
    <3>1. Track
      BY <1>1, <1>4, <2>5, CancelWaitsTracks
    <3> QED  BY <1>6, <2>5, <3>1 DEF CancelWaits, Goes
  <2> QED  BY <1>5, <2>1, <2>2, <2>3, <2>4, <2>5
<1> QED  BY <1>1, <1>2, <1>4, <1>7, StillLive

-----------------------------------------------------------------------------
(* The actions on the user, on the handle and on the table *)

LEMMA UserAndHandleTracks ==
  ASSUME IInv, NEW t \in AllThreads,
         \/ Register(t) \/ EndLogOut(t) \/ InvalidateHandles(t) \/ Invalidate(t) \/ Bind(t)
         \/ LogOut(t) \/ LogIn(t) \/ TokenFails(t) \/ CallSession(t) \/ Reconnect(t) \/ Upload
  PROVE  UNCHANGED <<ses, ops>> /\ LiveKept
<1>1. TypeInv /\ None \notin Objects
  BY ObjectsAre DEF IInv
<1>2. /\ userSession \in Objects \cup {None} /\ waitingSession \in Objects \cup {None}
      /\ registered \in Objects \cup {None}
      /\ handle \in [session : Objects \cup {None}, strong : BOOLEAN]
  BY <1>1 DEF TypeInv
<1>3. UNCHANGED <<ses, ops, refs, registered>>
  BY DEF Register, EndLogOut, InvalidateHandles, Invalidate, Bind, LogOut, LogIn, TokenFails,
         CallSession, Reconnect, Upload, managerVars
<1> SUFFICES LiveKept
  BY <1>3
<1>4. \A s : <<>> \in Seq(OfSes(s))
  OBVIOUS
<1>5. CASE Register(t)
  <2> DEFINE s == Session(t)
  <2>1. s \in Objects /\ Live(s)
    BY <1>1, <1>5, HeadStep, AtLive DEF Register
  <2>2. <<Step("revive", s)>> \in Seq(OfSes(s))
    BY <2>1, OneOfSes DEF StepNames
  <2>3. Goes(t, s) /\ handle' = handle
    BY <1>4, <1>5, <2>2 DEF Register, Goes
  <2> QED  BY <1>1, <1>3, <2>1, <2>3, StillLive
<1>6. CASE EndLogOut(t) \/ Invalidate(t)
  <2>1. Goes(t, None) /\ handle' = handle
    BY <1>4, <1>6 DEF EndLogOut, Invalidate, Goes
  <2> QED  BY <1>1, <1>3, <2>1, StillLive
<1>7. CASE InvalidateHandles(t)
  <2>1. Goes(t, None) /\ ~handle'.strong
    BY <1>4, <1>7 DEF InvalidateHandles, Goes, NoHandle
  <2> QED  BY <1>1, <1>3, <2>1, StillLive
<1>8. CASE Bind(t)
  <2> DEFINE s == Session(t)
  <2>1. s \in Objects /\ Live(s)
    BY <1>1, <1>8, HeadStep, AtLive DEF Bind
  <2>2. Goes(t, s) /\ handle'.session = s
    BY <1>4, <1>8 DEF Bind, Goes
  <2> QED  BY <1>1, <1>3, <2>1, <2>2, StillLive
<1>9. CASE LogOut(t)
  <2> DEFINE s == IF Live(userSession) THEN userSession ELSE None
             first == IF Live(userSession)
                      THEN <<Step("logOut", userSession), Step("endLogOut", userSession)>>
                      ELSE <<Step("endLogOut", None)>>
             last == <<Step("invalidateHandles", None)>>
  <2>1. s \in Objects => Live(s)
    BY <1>1
  <2>2. /\ \A do \in {"endLogOut", "invalidateHandles"} : Step(do, None) \in OfSes(s)
        /\ s \in Objects => \A do \in StepNames : Step(do, s) \in OfSes(s)
    BY DEF Step, OfSes, OwnSteps, StepNames
  <2>3. first \in Seq(OfSes(s))
    <3>1. CASE Live(userSession)
      <4>1. s = userSession /\ s \in Objects
        BY <1>2, <3>1 DEF Live
      <4>2. Step("logOut", s) \in OfSes(s) /\ Step("endLogOut", s) \in OfSes(s)
        BY <2>2, <4>1 DEF StepNames
      <4> HIDE DEF s
      <4> QED  BY <3>1, <4>1, <4>2
    <3>2. CASE ~Live(userSession)
      <4>1. Step("endLogOut", None) \in OfSes(s)
        BY <2>2
      <4> HIDE DEF s
      <4> QED  BY <3>2, <4>1
    <3> QED  BY <3>1, <3>2
  <2>4. last \in Seq(OfSes(s))
    <3>1. Step("invalidateHandles", None) \in OfSes(s)
      BY <2>2
    <3> HIDE DEF s
    <3> QED  BY <3>1
  <2>5. Then(t, first \o last) /\ handle' = handle
    BY <1>9 DEF LogOut
  <2> HIDE DEF first, last, s
  <2>6. first \o last \in Seq(OfSes(s))
    BY <2>3, <2>4, ConcatProperties
  <2>7. Goes(t, s)
    BY <2>5, <2>6 DEF Goes
  <2> QED  BY <1>1, <1>3, <2>1, <2>5, <2>7, StillLive
<1>10. CASE LogIn(t)
  <2>1. CASE Live(waitingSession)
    <3>1. waitingSession \in Objects
      BY <1>2, <2>1 DEF Live
    <3>2. <<Step("revive", waitingSession)>> \in Seq(OfSes(waitingSession))
      BY <3>1, OneOfSes DEF StepNames
    <3>3. Goes(t, waitingSession) /\ handle' = handle
      BY <1>10, <2>1, <3>2 DEF LogIn, Goes
    <3> QED  BY <1>1, <1>3, <2>1, <3>3, StillLive
  <2>2. CASE ~Live(waitingSession)
    <3>1. Goes(t, None) /\ handle' = handle
      BY <1>4, <1>10, <2>2 DEF LogIn, Goes
    <3> QED  BY <1>1, <1>3, <3>1, StillLive
  <2> QED  BY <2>1, <2>2
<1>11. CASE TokenFails(t)
  <2>1. ~handle'.strong
    BY <1>2, <1>11 DEF TokenFails, NoHandle
  <2>2. CASE Then(t, <<>>)
    <3>1. Goes(t, None)
      BY <1>4, <2>2 DEF Goes
    <3> QED  BY <1>1, <1>3, <2>1, <3>1, StillLive
  <2>3. CASE handle.strong /\ Then(t, <<Step("logOut", handle.session)>>)
    <3>1. handle.session \in Objects /\ Live(handle.session)
      BY <1>2, <1>11, <2>3 DEF TokenFails, Live
    <3>2. <<Step("logOut", handle.session)>> \in Seq(OfSes(handle.session))
      BY <3>1, OneOfSes DEF StepNames
    <3>3. Goes(t, handle.session)
      BY <2>3, <3>2 DEF Goes
    <3> QED  BY <1>1, <1>3, <2>1, <3>1, <3>3, StillLive
  <2> QED  BY <1>11, <2>2, <2>3 DEF TokenFails
<1>12. CASE CallSession(t)
  <2>1. handle' = handle
    BY <1>12 DEF CallSession
  <2>2. PICK s \in LiveSessions \cup {userSession}, do \in {"logOut", "revive", "configure"} :
            Live(s) /\ Then(t, <<Step(do, s)>>)
    BY <1>12 DEF CallSession, LiveSessions
  <2>3. s \in Objects
    BY <1>1, <1>2, <2>2, ObjectsAre DEF Live
  <2>4. <<Step(do, s)>> \in Seq(OfSes(s))
    BY <2>3, OneOfSes DEF StepNames
  <2>5. Goes(t, s)
    BY <2>2, <2>4 DEF Goes
  <2> QED  BY <1>1, <1>3, <2>1, <2>2, <2>5, StillLive
<1>13. CASE Reconnect(t)
  <2>1. Goes(t, None) /\ handle'.session = registered
    BY <1>13 DEF Reconnect, Goes
  <2>2. registered \in Objects => Live(registered)
    BY <1>1 DEF Live
  <2> QED  BY <1>1, <1>3, <2>1, <2>2, StillLive
<1>14. CASE Upload
  <2>1. Goes(t, None) /\ handle' = handle
    BY <1>14 DEF Upload, Goes
  <2> QED  BY <1>1, <1>3, <2>1, StillLive
<1> QED  BY <1>5, <1>6, <1>7, <1>8, <1>9, <1>10, <1>11, <1>12, <1>13, <1>14

\* References come and go, and the table forgets who is not referenced.
LEMMA TableTracks ==
  ASSUME IInv, NEW t \in AllThreads,
         UnlockManager(t) \/ Reference(t) \/ Unregister(t) \/ DropReference(t)
  PROVE  UNCHANGED <<ses, ops>> /\ LiveKept
<1>1. TypeInv /\ None \notin Objects /\ DOMAIN ses = Objects /\ DOMAIN refs = Objects
  BY ObjectsAre DEF IInv
<1>2. refs \in [Objects -> Nat]
  BY <1>1, SeqLen, SeqDef DEF TypeInv, Objects
<1>3. UNCHANGED <<ses, ops, handle>>
  BY DEF UnlockManager, Reference, Unregister, DropReference
<1> SUFFICES LiveKept
  BY <1>3
<1>4. \A s : <<>> \in Seq(OfSes(s))
  OBVIOUS
<1>5. CASE UnlockManager(t)
  <2>1. Goes(t, None) /\ UNCHANGED <<refs, registered>>
    BY <1>4, <1>5 DEF UnlockManager, Goes
  <2> QED  BY <1>1, <1>3, <2>1, StillLive
<1>6. CASE Reference(t)
  <2> DEFINE s == Session(t)
  <2>1. s \in Objects /\ Live(s)
    BY <1>1, <1>6, HeadStep, AtLive DEF Reference
  <2>2. refs' = [refs EXCEPT ![s] = @ + 1] /\ registered' = registered /\ Goes(t, s)
    BY <1>4, <1>6 DEF Reference, Goes, managerVars
  <2> HIDE DEF s
  <2>3. Finds
    BY <1>1, <2>1, <2>2, GoesFinds
  <2>4. ASSUME NEW r \in Objects, refs'[r] > 0 PROVE Live(r)
    <3>1. CASE r = s
      BY <2>1, <3>1
    <3>2. CASE r # s
      BY <1>1, <1>2, <2>2, <2>4, <3>2 DEF Live
    <3> QED  BY <3>1, <3>2
  <2> QED  BY <1>1, <1>3, <2>2, <2>3, <2>4, LiveFrom
<1>7. CASE Unregister(t)
  <2>1. refs' = refs /\ (registered' = registered \/ registered' = None)
    BY <1>7 DEF Unregister
  <2>2. Goes(t, None)
    BY <1>4, <1>7 DEF Unregister, Goes
  <2>3. Finds
    BY <1>1, <2>2, GoesFinds
  <2>4. ASSUME NEW r \in Objects, refs'[r] > 0 PROVE Live(r)
    BY <1>1, <2>1, <2>4 DEF Live
  <2> QED  BY <1>1, <1>3, <2>1, <2>3, <2>4, LiveFrom
<1>8. CASE DropReference(t)
  <2>1. PICK s \in DOMAIN ses :
          /\ refs[s] > (IF Returning(s) THEN 1 ELSE 0)
          /\ refs' = [refs EXCEPT ![s] = @ - 1]
          /\ Then(t, IF refs[s] = 1 THEN <<Step("dropped", s)>> ELSE <<>>)
    BY <1>8 DEF DropReference
  <2>2. s \in Objects /\ refs[s] > 0
    BY <1>1, <1>2, <2>1
  <2>3. Live(s)
    BY <1>1, <2>2 DEF Live
  <2>4. <<Step("dropped", s)>> \in Seq(OfSes(s))
    BY <2>2, OneOfSes DEF StepNames
  <2>5. Goes(t, s)
    BY <1>4, <2>1, <2>4 DEF Goes
  <2>6. Finds
    BY <1>1, <2>3, <2>5, GoesFinds
  <2>7. ASSUME NEW r \in Objects, refs'[r] > 0 PROVE Live(r)
    <3>1. CASE r = s
      BY <2>3, <3>1
    <3>2. CASE r # s
      BY <1>1, <1>2, <2>1, <2>7, <3>2 DEF Live
    <3> QED  BY <3>1, <3>2
  <2>8. registered' = registered
    BY <1>8 DEF DropReference, managerVars
  <2> QED  BY <1>1, <1>3, <2>6, <2>7, <2>8, LiveFrom
<1> QED  BY <1>5, <1>6, <1>7, <1>8

\* A new session is inactive and owed nothing.
LEMMA GetSessionKeeps ==
  ASSUME IInv, OpsInv, NEW t \in Threads, GetSession(t)
  PROVE  /\ OpsInv' /\ ops' = ops
         /\ \A s \in Objects : ses'[s] = ses[s]
<1>1. /\ TypeInv /\ None \notin Objects /\ DOMAIN ses = Objects /\ DOMAIN refs = Objects
      /\ t \in AllThreads /\ ses \in Seq(Sess) /\ refs \in Seq(Nat) /\ Len(refs) = Len(ses)
      /\ \A op \in DOMAIN ops : op.s \in Objects
  BY ObjectsAre DEF IInv, TypeInv, AllThreads
<1>2. UNCHANGED <<handle, ops>>
  BY DEF GetSession
<1>3. CASE /\ registered # None
           /\ Then(t, <<Step("register", registered), Step("reference", registered),
                        Step("unlockManager", registered)>>)
           /\ UNCHANGED <<ses, refs, registered>>
  <2>1. registered \in Objects /\ Live(registered)
    BY <1>1, <1>3 DEF TypeInv, Live
  <2> DEFINE a == Step("register", registered)
             b == Step("reference", registered)
             c == Step("unlockManager", registered)
  <2>2. a \in OfSes(registered) /\ b \in OfSes(registered) /\ c \in OfSes(registered)
    BY <2>1, OneOfSes DEF StepNames
  <2>3. Then(t, <<a, b, c>>)
    BY <1>3
  <2> HIDE DEF a, b, c
  <2>4. <<a, b, c>> \in Seq(OfSes(registered))
    BY <2>2
  <2>5. Goes(t, registered)
    BY <2>3, <2>4 DEF Goes
  <2>6. LiveKept
    BY <1>1, <1>2, <1>3, <2>1, <2>5, StillLive
  <2>7. Track
    BY <1>2, <1>3 DEF Track
  <2> QED  BY <1>2, <1>3, <2>6, <2>7, TrackStep
<1>4. ASSUME NEW s, s = Len(ses) + 1,
             ses' = Append(ses, NewSession), refs' = Append(refs, 1), registered' = s,
             Then(t, <<Step("register", s), Step("unlockManager", s)>>)
      PROVE  OpsInv' /\ \A r \in Objects : ses'[r] = ses[r]
  <2>1. Len(ses) \in Nat
    BY <1>1, SeqLen
  <2>2. NewSession \in Sess /\ NewSession.state = "inactive"
    BY DEF NewSession, Sess
  <2>3. /\ ses' \in Seq(Sess) /\ Len(ses') = s /\ DOMAIN ses' = 1 .. s
        /\ ses'[s] = NewSession /\ \A r \in Objects : ses'[r] = ses[r]
    <3>1. /\ ses' \in Seq(Sess) /\ Len(ses') = s
          /\ ses'[s] = NewSession /\ \A r \in Objects : ses'[r] = ses[r]
      BY <1>1, <1>4, <2>1, <2>2, AppendProperties DEF Objects
    <3> QED  BY <3>1, SeqLen
  <2>4. \A r \in Objects : refs'[r] = refs[r]
    BY <1>1, <1>4, <2>1, AppendProperties DEF Objects
  <2>5. Objects' = Objects \cup {s} /\ s \notin Objects
    BY <1>4, <2>1, <2>3 DEF Objects
  <2> DEFINE S == OwnSteps(Objects')
             a == Step("register", s)
             c == Step("unlockManager", s)
  <2>6. todo \in [AllThreads -> Seq(S)]
    <3>1. OwnSteps(Objects) \subseteq S
      BY <2>5 DEF OwnSteps
    <3>2. Seq(OwnSteps(Objects)) \subseteq Seq(S)
      BY <3>1, SeqDef
    <3>3. todo \in [AllThreads -> Seq(OwnSteps(Objects))]
      BY <1>1 DEF TypeInv
    <3> HIDE DEF S
    <3> QED  BY <3>2, <3>3
  <2>7. a \in S /\ c \in S /\ a.s = s /\ c.s = s
    BY <2>5 DEF Step, OwnSteps, StepNames
  <2>8. Then(t, <<a, c>>)
    BY <1>4
  <2> HIDE DEF S, a, c
  <2>9. /\ <<a, c>> \in Seq(S)
        /\ \A i \in 1 .. Len(<<a, c>>) : <<a, c>>[i].s = s
    BY <2>7
  <2>10. Finds
    BY <1>1, <2>5, <2>6, <2>8, <2>9, ThenFinds
  <2>11. LiveKept
    <3>1. \A r \in Objects : refs'[r] > 0 => Live(r)
      BY <1>1, <2>4 DEF Live
    <3> QED  BY <1>1, <1>2, <1>4, <2>5, <2>10, <3>1, LiveFrom
  <2>12. DeathInv'
    BY <1>1, <1>2, <2>3 DEF OpsInv, DeathInv
  <2>13. WaitIsRegistered'
    <3>1. SUFFICES ASSUME NEW r \in LiveSessions', NEW d \in Directions,
                          Running(r)', ses'[r].waits[d] # {}
                   PROVE  \E op \in BagToSet(ops') :
                             op.kind = d /\ op.s = r /\ op.client = ses'[r].client
      BY DEF WaitIsRegistered, Directions
    <3>2. r \in DOMAIN ses' /\ Live(r)'
      BY <3>1 DEF LiveSessions
    <3>3. r # s
      BY <2>2, <2>3, <3>1 DEF Running
    <3>4. r \in Objects
      BY <1>4, <2>1, <2>3, <3>2, <3>3 DEF Objects
    <3>5. r \in LiveSessions /\ ses'[r] = ses[r]
      BY <1>1, <2>3, <2>11, <3>2, <3>4 DEF LiveKept, LiveSessions
    <3> QED  BY <1>2, <3>1, <3>5 DEF OpsInv, WaitIsRegistered, Running
  <2>14. Positive(ops')
    BY <1>2 DEF OpsInv
  <2> QED  BY <2>3, <2>12, <2>13, <2>14 DEF OpsInv, Positive
<1> QED  BY <1>2, <1>3, <1>4 DEF GetSession

-----------------------------------------------------------------------------
(* The client completes an operation *)

\* A dying session that its client stops has nothing left to upload.
UploadedAtDeath ==
  \A s \in DOMAIN ses :
     ses[s].state = "dying" /\ ses'[s].state = "inactive" /\ ops' # ops
         => uploaded >= ses[s].known

\* The operation that ends is the only one that is missed, by the callbacks it
\* has called.
LEMMA CompleteWaitKeeps ==
  ASSUME IInv, OpsInv, CompleteWait
  PROVE  OpsInv' /\ UploadedAtDeath
<1>1. /\ TypeInv /\ ClientInv /\ DOMAIN ses = Objects /\ Loop \in AllThreads
      /\ ses \in [Objects -> Sess] /\ None \notin Objects
  <2>1. ses \in [Objects -> Sess]
    BY SeqLen, SeqDef DEF IInv, TypeInv, Objects
  <2> QED  BY <2>1, ObjectsAre DEF IInv
<1>2. PICK op \in BagToSet(ops) :
        LET x == ses[op.s]
            gone == ~Live(op.s) \/ x.client # op.client
        IN  /\ gone \/ uploaded >= op.target
            /\ ops' = ops (-) SetToBag({op})
            /\ \/ /\ op.kind \in Directions /\ Live(op.s)
                  /\ ses' = [ses EXCEPT ![op.s].waits[op.kind] = {}]
                  /\ UNCHANGED todo
               \/ /\ op.kind = "death" /\ Live(op.s)
                  /\ x.state = "dying" /\ x.deaths = op.death
                  /\ ses' = [ses EXCEPT ![op.s] = Stopped(@)]
                  /\ Then(Loop, <<Step("unregister", op.s)>>)
               \/ /\ ~Live(op.s) \/ op.kind = "death"
                  /\ UNCHANGED <<ses, todo>>
  BY DEF CompleteWait
<1> DEFINE s == op.s
<1>3. s \in Objects /\ op \in DOMAIN ops
  BY <1>1, <1>2 DEF TypeInv, BagToSet
<1>4. ses[s] \in Sess /\ ses[s].waits \in [Directions -> SUBSET Waits]
  <2>1. ses[s] \in Sess
    BY <1>1, <1>3
  <2> QED  BY <2>1 DEF Sess
<1>5. /\ Positive(ops') /\ DOMAIN ops' \subseteq DOMAIN ops
      /\ \A o \in DOMAIN ops : o # op => o \in DOMAIN ops'
  BY <1>2, MinusOne, Zenon DEF OpsInv
<1>6. UNCHANGED <<refs, registered, handle, uploaded>>
  BY DEF CompleteWait, managerVars
<1>7. LiveKept
  <2>1. Goes(Loop, s) /\ (todo' = todo \/ Live(s))
    <3>1. CASE todo' = todo
      BY <3>1 DEF Goes
    <3>2. CASE Live(s) /\ Then(Loop, <<Step("unregister", s)>>)
      <4>1. <<Step("unregister", s)>> \in Seq(OfSes(s))
        BY <1>3, OneOfSes DEF StepNames
      <4> QED  BY <3>2, <4>1 DEF Goes
    <3> QED  BY <1>2, <3>1, <3>2
  <2>2. CASE todo' = todo
    <3>1. Goes(Loop, None)
      BY <2>2 DEF Goes
    <3> QED  BY <1>1, <1>6, <3>1, StillLive
  <2>3. CASE Live(s)
    BY <1>1, <1>6, <2>1, <2>3, StillLive
  <2> QED  BY <2>1, <2>2, <2>3
\* What the step does to a session.
<1>8. /\ DOMAIN ses' = Objects
      /\ \A r \in Objects : r # s => ses'[r] = ses[r]
      /\ ses'[s].deaths = ses[s].deaths
      /\ \/ /\ op.kind \in Directions /\ ses'[s].state = ses[s].state
            /\ ses'[s].client = ses[s].client /\ ses'[s].known = ses[s].known
            /\ \A d \in Directions :
                  ses'[s].waits[d] = IF d = op.kind THEN {} ELSE ses[s].waits[d]
         \/ /\ op.kind = "death" /\ Live(s)
            /\ ses[s].state = "dying" /\ ses[s].deaths = op.death
            /\ ses'[s].state = "inactive"
         \/ ses' = ses /\ (~Live(s) \/ op.kind = "death")
  <2>1. CASE /\ op.kind \in Directions
             /\ ses' = [ses EXCEPT ![op.s].waits[op.kind] = {}]
    <3> DEFINE ww == [ses[s].waits EXCEPT ![op.kind] = {}]
               y == [ses[s] EXCEPT !.waits = ww]
    <3>1. \A d \in Directions : ww[d] = IF d = op.kind THEN {} ELSE ses[s].waits[d]
      BY <1>4
    <3>2. ses' = [ses EXCEPT ![s] = y]
      BY <2>1
    <3> HIDE DEF ww
    <3>3. /\ y.deaths = ses[s].deaths /\ y.state = ses[s].state /\ y.client = ses[s].client
          /\ y.known = ses[s].known /\ y.waits = ww
      BY <1>4 DEF Sess
    <3> HIDE DEF y, s
    <3>4. DOMAIN ses' = Objects /\ ses'[s] = y /\ \A r \in Objects : r # s => ses'[r] = ses[r]
      BY <1>1, <1>3, <3>2
    <3> QED  BY <2>1, <3>1, <3>3, <3>4
  <2>2. CASE /\ op.kind = "death" /\ Live(op.s)
             /\ ses[op.s].state = "dying" /\ ses[op.s].deaths = op.death
             /\ ses' = [ses EXCEPT ![op.s] = Stopped(@)]
    <3> DEFINE y == Stopped(ses[s])
    <3>1. ses' = [ses EXCEPT ![s] = y]
      BY <2>2
    <3>2. y.deaths = ses[s].deaths /\ y.state = "inactive"
      BY <1>4 DEF Sess, Stopped
    <3> HIDE DEF y, s
    <3>3. DOMAIN ses' = Objects /\ ses'[s] = y /\ \A r \in Objects : r # s => ses'[r] = ses[r]
      BY <1>1, <1>3, <3>1
    <3> QED  BY <2>2, <3>2, <3>3 DEF s
  <2>3. CASE ses' = ses /\ (~Live(op.s) \/ op.kind = "death")
    BY <1>1, <2>3
  <2> QED  BY <1>2, <2>1, <2>2, <2>3
<1> HIDE DEF s
<1>9. DeathInv'
  <2>1. SUFFICES ASSUME NEW o \in DOMAIN ops', o.kind = "death"
                 PROVE  o.death \in Nat /\ DeathOf(o, ses'[o.s])
    BY DEF DeathInv
  <2>2. o \in DOMAIN ops /\ o.death \in Nat /\ DeathOf(o, ses[o.s]) /\ o.s \in Objects
    BY <1>1, <1>5, <2>1 DEF OpsInv, DeathInv, TypeInv
  <2>3. CASE o.s # s
    BY <1>8, <2>2, <2>3
  <2>4. CASE o.s = s
    BY <1>8, <2>2, <2>4 DEF DeathOf
  <2> QED  BY <2>3, <2>4
<1>10. WaitIsRegistered'
  <2>1. SUFFICES ASSUME NEW r \in LiveSessions', NEW d \in Directions,
                        IsRunning(ses'[r]), ses'[r].waits[d] # {}
                 PROVE  \E o \in DOMAIN ops' : o.kind = d /\ o.s = r /\ o.client = ses'[r].client
    BY DEF WaitIsRegistered, Running, IsRunning, BagToSet
  <2>2. r \in Objects /\ r \in LiveSessions
    BY <1>1, <1>7, <1>8 DEF LiveSessions, LiveKept
  <2>3. Live(r)
    BY <2>2 DEF LiveSessions
  <2>4. ASSUME IsRunning(ses[r]), ses[r].waits[d] # {}
        PROVE  \E o \in DOMAIN ops : o.kind = d /\ o.s = r /\ o.client = ses[r].client
    BY <2>2, <2>4 DEF OpsInv, WaitIsRegistered, Running, IsRunning, BagToSet
  <2>5. CASE r # s
    <3>1. ses'[r] = ses[r]
      BY <1>8, <2>2, <2>5
    <3>2. PICK o \in DOMAIN ops : o.kind = d /\ o.s = r /\ o.client = ses[r].client
      BY <2>1, <2>4, <3>1
    <3>3. o \in DOMAIN ops'
      BY <1>5, <2>5, <3>2 DEF s
    <3> QED  BY <3>1, <3>2, <3>3
  <2>6. CASE r = s
    <3>1. /\ op.kind # d /\ IsRunning(ses[r]) /\ ses[r].waits[d] # {}
          /\ ses'[r].client = ses[r].client
      BY <1>8, <2>1, <2>3, <2>6 DEF IsRunning, Directions
    <3>2. PICK o \in DOMAIN ops : o.kind = d /\ o.s = r /\ o.client = ses[r].client
      BY <2>4, <3>1
    <3>3. o \in DOMAIN ops'
      BY <1>5, <3>1, <3>2
    <3> QED  BY <3>1, <3>2, <3>3
  <2> QED  BY <2>5, <2>6
<1>11. UploadedAtDeath
  <2>1. SUFFICES ASSUME NEW r \in Objects, ses[r].state = "dying", ses'[r].state = "inactive"
                 PROVE  uploaded >= ses[r].known
    BY <1>1 DEF UploadedAtDeath
  <2>2. /\ r = s /\ op.kind = "death" /\ Live(s) /\ ses[s].state = "dying"
        /\ ses[s].deaths = op.death
    BY <1>8, <2>1
  <2>3. op.client = ses[s].client /\ op.target = ses[s].known
    BY <1>3, <2>2 DEF OpsInv, DeathInv, DeathOf, s
  <2> QED  BY <1>2, <2>2, <2>3 DEF s
<1> QED  BY <1>5, <1>9, <1>10, <1>11 DEF OpsInv, Positive

-----------------------------------------------------------------------------
(* The invariant holds *)

\* Only the client stops a session and ends an operation in one step.
LEMMA TrackUploads ==
  ASSUME IInv, Track
  PROVE  UploadedAtDeath
<1>1. TypeInv /\ DOMAIN ses = Objects
  BY ObjectsAre DEF IInv
<1>2. CASE ops' = ops
  BY <1>2 DEF UploadedAtDeath
<1>3. ASSUME NEW s \in Objects, NEW x \in Sess, Tracks(s, x)
      PROVE  UploadedAtDeath
  <2>1. /\ ses' = [ses EXCEPT ![s] = x]
        /\ x.state = "inactive" /\ ses[s].state # "inactive" => ops' = ops
    BY <1>3 DEF Tracks
  <2>2. ses'[s] = x /\ \A r \in Objects : r # s => ses'[r] = ses[r]
    BY <1>1, <2>1
  <2>3. ASSUME NEW r \in Objects, ses[r].state = "dying", ses'[r].state = "inactive"
        PROVE  ops' = ops
    BY <2>1, <2>2, <2>3
  <2> QED  BY <1>1, <2>3 DEF UploadedAtDeath
<1> QED  BY <1>2, <1>3 DEF Track

LEMMA InitOps == Init => OpsInv
<1> SUFFICES ASSUME Init PROVE OpsInv
  OBVIOUS
<1>1. Positive(ops) /\ DOMAIN ops = {}
  BY AnEmptyBag DEF Init
<1>2. DOMAIN ses = {}
  BY DEF Init
<1> QED  BY <1>1, <1>2 DEF OpsInv, DeathInv, WaitIsRegistered, LiveSessions

LEMMA NextOps == IInv /\ OpsInv /\ [Next]_vars => OpsInv' /\ UploadedAtDeath
<1> SUFFICES ASSUME IInv, OpsInv, [Next]_vars PROVE OpsInv' /\ UploadedAtDeath
  OBVIOUS
<1>1. Threads \subseteq AllThreads /\ Loop \in AllThreads
  BY DEF AllThreads
<1>2. ASSUME Track, LiveKept PROVE OpsInv' /\ UploadedAtDeath
  BY <1>2, TrackStep, TrackUploads
<1>3. ASSUME UNCHANGED <<ses, ops>>, LiveKept PROVE OpsInv' /\ UploadedAtDeath
  BY <1>2, <1>3 DEF Track
<1>4. ASSUME NEW t \in AllThreads,
             \/ Revive(t) \/ Dropped(t) \/ LogOutSession(t) \/ Configure(t)
             \/ UnlockManager(t) \/ Reference(t) \/ Unregister(t) \/ Register(t)
             \/ EndLogOut(t) \/ InvalidateHandles(t) \/ Invalidate(t) \/ Bind(t)
      PROVE  OpsInv' /\ UploadedAtDeath
  BY <1>2, <1>3, <1>4, SectionsTrack, TableTracks, UserAndHandleTracks
<1>5. ASSUME NEW t \in Threads,
             \/ DropReference(t) \/ LogOut(t) \/ LogIn(t)
             \/ TokenArrives(t) \/ TokenFails(t) \/ CallSession(t) \/ Reconnect(t)
             \/ WaitFor(t) \/ Commit(t)
      PROVE  OpsInv' /\ UploadedAtDeath
  BY <1>1, <1>2, <1>3, <1>5, TokenArrivesTracks, WaitForTracks, CommitTracks, TableTracks,
     UserAndHandleTracks
<1>6. ASSUME NEW t \in Threads, GetSession(t)
      PROVE  OpsInv' /\ UploadedAtDeath
  BY <1>6, GetSessionKeeps DEF UploadedAtDeath
<1>7. CASE Upload \/ ReceiveError \/ HandleError
  BY <1>1, <1>2, <1>3, <1>7, UserAndHandleTracks, ReceiveErrorTracks, HandleErrorTracks
<1>8. CASE CompleteWait
  BY <1>8, CompleteWaitKeeps
<1>9. CASE UNCHANGED vars
  <2>1. UNCHANGED <<ses, ops>> /\ LiveKept
    BY <1>9 DEF vars, managerVars, LiveKept, Live, AllThreads
  <2> QED  BY <1>3, <2>1
<1> QED  BY <1>4, <1>5, <1>6, <1>7, <1>8, <1>9 DEF Next

(* A waiting callback of a session that runs and that somebody still holds *)
(* is owed an answer by the client session it has now.                     *)
THEOREM SessionWaitIsRegistered == Spec => []WaitIsRegistered
<1>1. OpsInv => WaitIsRegistered
  BY DEF OpsInv
<1> QED  BY <1>1, InitOps, NextOps, SessionInvariant, PTL DEF Spec

(* A dying session that the client stops has uploaded all it knew of when  *)
(* it last began to die.                                                   *)
THEOREM SessionDyingUploadsAll == Spec => DyingUploadsAll
<1>1. IInv /\ OpsInv /\ [Next]_vars =>
        [\A s \in DOMAIN ses :
            ses[s].state = "dying" /\ ses'[s].state = "inactive" /\ ops' # ops
                => uploaded >= ses[s].known]_vars
  BY NextOps DEF UploadedAtDeath
<1> QED  BY <1>1, InitOps, NextOps, SessionInvariant, PTL DEF Spec, DyingUploadsAll
=============================================================================
