-------------------------- MODULE ClientGetProofs --------------------------
(***************************************************************************)
(* Proofs about ClientGet, for any gets, processes, keys and scenarios:    *)
(* every get is answered at most once, the gets of a process share one     *)
(* request, and the callback object of a posted receive is there unless    *)
(* its own timer released it, until a message comes for such an object.    *)
(***************************************************************************)
EXTENDS ClientGet, TLAPS

Stages == {"idle", "shifted", "pending", "query", "over"}
Answers == {"success", "not_found", "timeout"}

\* The functions have their domains, and only gets of the scenario are begun.
Shapes ==
    /\ outcome \in [Gets -> Seq(Answers)]
    /\ connected \in BOOLEAN /\ dangling \in BOOLEAN
    /\ posted \subseteq Gets
    /\ \A g \in Gets : stage[g] # "idle" => g \in InUse
    /\ ~connected => held = {} /\ inflight = {}

Timed(g) == "timeout" \in req(g).dirs

\* Only gets that asked for a timeout have a timer.
TimersAsked == \A g \in timers : Timed(g)

\* The get of a posted receive waits, or its timer released it, or it was
\* answered when such a receive had been read.
PostedWait ==
    connected => \A g \in posted :
       \/ stage[g] = "pending"
       \/ stage[g] = "over" /\ (dangling \/ (Timed(g) /\ outcome[g] = <<"timeout">>))

\* No two of those that wait ask about the same process.
OneWaits ==
    connected => \A g, h \in posted :
       (stage[g] = "pending" /\ stage[h] = "pending" /\ req(g).proc = req(h).proc) => g = h

NoneTimedOut == \A g \in Gets : outcome[g] # <<"timeout">>

\* While none has timed out, who waits has a receive posted for its process.
WaitersAsked ==
    (connected /\ NoneTimedOut) =>
       \A g \in pending : \E h \in posted : req(h).proc = req(g).proc /\ stage[h] = "pending"

\* A receive was read late only after a get of the client had timed out.
Released == dangling => \E g \in Gets : g \in InUse /\ Timed(g) /\ outcome[g] = <<"timeout">>

\* A request is held by the server, or its one answer is under way.
OneAnswer ==
    /\ \A m, n \in inflight : m.for = n.for => m = n
    /\ \A m \in inflight : m.for \notin held

IInv == /\ TypeOK /\ Shapes /\ AnsweredOnce /\ TimersAsked
        /\ PostedWait /\ OneWaits /\ WaitersAsked /\ Released /\ OneAnswer

-----------------------------------------------------------------------------
(* The invariant holds at first, and every step keeps it *)

\* Initially no get is in progress.
LEMMA GetInit ==
    ASSUME Init
    PROVE  IInv
<1> USE DEF Init
<1>1. /\ \A g \in Gets : stage[g] = "idle" /\ outcome[g] = <<>>
      /\ pending = {} /\ timers = {} /\ posted = {} /\ held = {} /\ inflight = {}
      /\ connected = TRUE /\ dangling = FALSE
  OBVIOUS
<1>2. TypeOK
  <2>1. stage \in [Gets -> Stages]
    BY DEF Stages
  <2> QED BY <1>1, <2>1 DEF TypeOK, Stages
<1>3. Shapes
  <2>1. <<>> \in Seq(Answers)
    OBVIOUS
  <2>2. outcome \in [Gets -> Seq(Answers)]
    BY <2>1
  <2> QED BY <1>1, <2>2, Zenon DEF Shapes
<1>4. AnsweredOnce
  <2>1. Len(<<>>) <= 1
    OBVIOUS
  <2>2. ASSUME NEW g \in Gets
        PROVE  Len(outcome[g]) <= 1 /\ (stage[g] = "over" <=> outcome[g] # <<>>)
    <3>1. outcome[g] = <<>> /\ stage[g] = "idle"
      BY <1>1
    <3> HIDE DEF Init
    <3>2. Len(outcome[g]) <= 1
      BY <2>1, <3>1, Zenon
    <3> QED BY <3>1, <3>2
  <2> QED BY <2>2, Zenon DEF AnsweredOnce
<1>5. TimersAsked /\ PostedWait /\ OneWaits /\ WaitersAsked /\ Released /\ OneAnswer
  BY <1>1 DEF TimersAsked, PostedWait, OneWaits, WaitersAsked, Released, OneAnswer
<1> QED BY <1>2, <1>3, <1>4, <1>5 DEF IInv

\* A get that does not wait for a message goes on to another stage, or is
\* answered: it is over and was not before.
LEMMA SettleStep ==
    ASSUME IInv, NEW g \in Gets, g \in InUse,
           stage[g] \in {"idle", "shifted", "query"},
           NEW s \in {"shifted", "query", "over"},
           stage' = [stage EXCEPT ![g] = s],
           NEW a \in Answers,
           outcome' = IF s = "over" THEN [outcome EXCEPT ![g] = Append(@, a)] ELSE outcome,
           UNCHANGED <<env, pending, timers, posted, held, inflight, connected, dangling>>
    PROVE  IInv'
<1>0. (\A h : req(h)' = req(h) /\ Timed(h)' = Timed(h)) /\ InUse' = InUse
  BY DEF req, Timed, InUse
<1>1. stage'[g] = s /\ \A h \in Gets : h # g => stage'[h] = stage[h]
  BY DEF IInv, TypeOK
<1>2. /\ outcome[g] \in Seq(Answers) /\ outcome[g] = <<>>
      /\ \A h \in Gets : h # g => outcome'[h] = outcome[h]
      /\ outcome'[g] = IF s = "over" THEN Append(outcome[g], a) ELSE outcome[g]
  BY DEF IInv, Shapes, AnsweredOnce
<1>3. TypeOK'
  <2>1. stage' \in [Gets -> {"idle", "shifted", "pending", "query", "over"}]
    BY DEF IInv, TypeOK
  <2>2. \A h \in Gets : stage'[h] = "pending" <=> stage[h] = "pending"
    BY <1>1
  <2> QED BY <2>1, <2>2 DEF IInv, TypeOK
<1>4. Append(outcome[g], a) \in Seq(Answers) /\ Len(Append(outcome[g], a)) = 1
      /\ Append(outcome[g], a) # <<>>
  BY <1>2
<1>5. Shapes'
  <2>1. outcome' \in [Gets -> Seq(Answers)]
    BY <1>2, <1>4 DEF IInv, Shapes
  <2> QED BY <1>0, <1>1, <2>1 DEF IInv, Shapes
<1>6. AnsweredOnce'
  BY <1>1, <1>2, <1>4 DEF IInv, AnsweredOnce
<1>7. TimersAsked'
  BY <1>0 DEF IInv, TimersAsked
<1>8. connected => g \notin posted
  BY DEF IInv, PostedWait
<1>9. PostedWait' /\ OneWaits'
  BY <1>0, <1>1, <1>2, <1>8 DEF IInv, PostedWait, OneWaits, Shapes
<1>t. \A h \in Gets : outcome[h] = <<"timeout">> => outcome'[h] = <<"timeout">>
  BY <1>2
<1>10. WaitersAsked'
  <2>1. SUFFICES ASSUME connected, NoneTimedOut', NEW h \in pending
                 PROVE  \E k \in posted : req(k).proc = req(h).proc /\ stage'[k] = "pending"
    BY <1>0 DEF WaitersAsked
  <2>2. NoneTimedOut
    BY <1>t, <2>1 DEF NoneTimedOut
  <2>3. PICK k \in posted : req(k).proc = req(h).proc /\ stage[k] = "pending"
    BY <2>1, <2>2 DEF IInv, WaitersAsked
  <2>4. k \in Gets /\ k # g
    BY <1>8, <2>1, <2>3 DEF IInv, Shapes
  <2> QED BY <1>1, <2>3, <2>4
<1>11. Released'
  BY <1>0, <1>t DEF IInv, Released
<1>12. OneAnswer'
  BY DEF IInv, OneAnswer
<1> QED BY <1>3, <1>5, <1>6, <1>7, <1>9, <1>10, <1>11, <1>12 DEF IInv


\* A get waits: it asks the server, or shares the request of another one.
LEMMA RequestStep ==
    ASSUME IInv, NEW g \in Gets, stage[g] = "shifted", connected, Request(g),
           UNCHANGED <<env, inflight, connected, dangling>>
    PROVE  IInv'
<1>0. (\A h : req(h)' = req(h) /\ Timed(h)' = Timed(h)) /\ InUse' = InUse
  BY DEF req, Timed, InUse
<1>1. stage'[g] = "pending" /\ \A h \in Gets : h # g => stage'[h] = stage[h]
  BY DEF IInv, TypeOK, Request
<1>2. /\ pending' = pending \cup {g} /\ outcome' = outcome
      /\ timers' = timers \/ (timers' = timers \cup {g} /\ Timed(g))
  BY DEF Request, Timed
<1>3. \/ /\ \E h \in pending : req(h).proc = req(g).proc
         /\ posted' = posted /\ held' = held
      \/ /\ ~ \E h \in pending : req(h).proc = req(g).proc
         /\ posted' = posted \cup {g} /\ held' = held \cup {g}
  BY DEF Request
<1>4. g \in InUse /\ g \notin posted
  BY DEF IInv, Shapes, PostedWait
<1>5. TypeOK'
  <2>1. stage' \in [Gets -> {"idle", "shifted", "pending", "query", "over"}]
    BY DEF IInv, TypeOK, Request
  <2>2. {h \in Gets : stage'[h] = "pending"} = pending'
    BY <1>1, <1>2 DEF IInv, TypeOK
  <2>3. held' \cup {m.for : m \in inflight'} \subseteq posted'
    BY <1>3 DEF IInv, TypeOK
  <2>4. timers' \subseteq pending'
    BY <1>2 DEF IInv, TypeOK
  <2> QED BY <2>1, <2>2, <2>3, <2>4 DEF TypeOK
<1>6. Shapes'
  BY <1>0, <1>1, <1>2, <1>3, <1>4 DEF IInv, Shapes
<1>7. AnsweredOnce'
  BY <1>1, <1>2 DEF IInv, AnsweredOnce
<1>8. TimersAsked'
  BY <1>0, <1>2 DEF IInv, TimersAsked
<1>9. PostedWait'
  BY <1>0, <1>1, <1>2, <1>3 DEF IInv, PostedWait, Shapes
<1>10. OneWaits'
  <2>1. \A h \in posted : stage[h] = "pending" => h \in pending
    BY DEF IInv, Shapes, TypeOK
  <2>2. \A h \in posted : h \in Gets /\ h # g /\ stage'[h] = stage[h]
    BY <1>1, <1>4 DEF IInv, Shapes
  <2>3. ASSUME NEW h \in posted', NEW k \in posted', stage'[h] = "pending", stage'[k] = "pending",
               req(h).proc = req(k).proc
        PROVE  h = k
    <3>1. CASE h \in posted /\ k \in posted
      BY <2>2, <2>3, <3>1 DEF IInv, OneWaits
    <3>2. CASE h \notin posted \/ k \notin posted
      BY <1>3, <2>1, <2>2, <2>3, <3>2
    <3> QED BY <3>1, <3>2
  <2> QED BY <1>0, <2>3 DEF OneWaits
<1>11. WaitersAsked'
  <2>1. SUFFICES ASSUME NoneTimedOut, NEW h \in pending'
                 PROVE  \E k \in posted' : req(k).proc = req(h).proc /\ stage'[k] = "pending"
    BY <1>0, <1>2 DEF WaitersAsked, NoneTimedOut
  <2>2. \A k \in posted : stage[k] = "pending" => stage'[k] = "pending" /\ k \in posted'
    BY <1>1, <1>3 DEF IInv, Shapes
  <2>3. \A k \in pending : \E l \in posted : req(l).proc = req(k).proc /\ stage[l] = "pending"
    BY <2>1 DEF IInv, WaitersAsked
  <2>4. CASE h = g
    BY <1>1, <1>3, <2>2, <2>3, <2>4
  <2>5. CASE h # g
    BY <1>2, <2>2, <2>3, <2>5
  <2> QED BY <2>4, <2>5
<1>12. Released'
  BY <1>0, <1>2 DEF IInv, Released
<1>13. OneAnswer'
  <2>1. \A m \in inflight : m.for # g
    BY <1>4 DEF IInv, TypeOK
  <2> QED BY <1>3, <2>1 DEF IInv, OneAnswer
<1> QED BY <1>5, <1>6, <1>7, <1>8, <1>9, <1>10, <1>11, <1>12, <1>13 DEF IInv

\* timeout: the get is over; its receive stays posted.
LEMMA TimeoutStep ==
    ASSUME IInv, NEW g \in Gets, timeout(g)
    PROVE  IInv'
<1>u. /\ g \in timers /\ pending' = pending \ {g} /\ timers' = timers \ {g}
      /\ stage' = [stage EXCEPT ![g] = "over"]
      /\ outcome' = [outcome EXCEPT ![g] = Append(@, "timeout")]
      /\ UNCHANGED <<env, posted, held, inflight, connected, dangling>>
  BY DEF timeout
<1>0. (\A h : req(h)' = req(h) /\ Timed(h)' = Timed(h)) /\ InUse' = InUse
  BY <1>u DEF req, Timed, InUse
<1>1. /\ stage[g] = "pending" /\ Timed(g) /\ g \in InUse
      /\ stage'[g] = "over" /\ \A h \in Gets : h # g => stage'[h] = stage[h]
  BY <1>u DEF IInv, TypeOK, TimersAsked, Shapes
<1>2. /\ outcome[g] \in Seq(Answers) /\ outcome[g] = <<>>
      /\ \A h \in Gets : h # g => outcome'[h] = outcome[h]
      /\ outcome'[g] = Append(outcome[g], "timeout")
  BY <1>u, <1>1 DEF IInv, Shapes, AnsweredOnce
<1>3. outcome'[g] = <<"timeout">> /\ outcome'[g] \in Seq(Answers) /\ Len(outcome'[g]) = 1
      /\ outcome'[g] # <<>>
  <2>1. Append(<<>>, "timeout") = <<"timeout">>
    OBVIOUS
  <2>2. <<"timeout">> \in Seq(Answers) /\ Len(<<"timeout">>) = 1 /\ <<"timeout">> # <<>>
    BY DEF Answers
  <2>3. outcome'[g] = <<"timeout">>
    BY <1>2, <2>1, Zenon
  <2> QED BY <2>2, <2>3, Zenon
<1>4. TypeOK'
  <2>1. stage' \in [Gets -> {"idle", "shifted", "pending", "query", "over"}]
    BY <1>u DEF IInv, TypeOK
  <2>2. {h \in Gets : stage'[h] = "pending"} = pending'
    BY <1>u, <1>1 DEF IInv, TypeOK
  <2> QED BY <1>u, <2>1, <2>2 DEF IInv, TypeOK
<1>5. Shapes'
  <2>1. outcome' \in [Gets -> Seq(Answers)]
    BY <1>u, <1>2, <1>3 DEF IInv, Shapes
  <2> QED BY <1>u, <1>0, <1>1, <2>1 DEF IInv, Shapes
<1>6. AnsweredOnce'
  <2>1. ASSUME NEW h \in Gets, h # g
        PROVE  Len(outcome'[h]) <= 1 /\ (stage'[h] = "over" <=> outcome'[h] # <<>>)
    <3>1. Len(outcome[h]) <= 1 /\ (stage[h] = "over" <=> outcome[h] # <<>>)
      BY DEF IInv, AnsweredOnce
    <3>2. stage'[h] = stage[h] /\ outcome'[h] = outcome[h]
      BY <1>1, <1>2, <2>1
    <3> QED BY <3>1, <3>2, Zenon
  <2>2. Len(outcome'[g]) <= 1
    BY <1>3
  <2> QED BY <1>1, <1>3, <2>1, <2>2, Zenon DEF AnsweredOnce
<1>7. TimersAsked'
  BY <1>u, <1>0 DEF IInv, TimersAsked
<1>8. PostedWait' /\ OneWaits'
  BY <1>u, <1>0, <1>1, <1>2, <1>3 DEF IInv, PostedWait, OneWaits, Shapes
<1>9. WaitersAsked'
  BY <1>3 DEF WaitersAsked, NoneTimedOut
<1>10. Released'
  BY <1>u, <1>0, <1>1, <1>3 DEF Released
<1>11. OneAnswer'
  BY <1>u DEF IInv, OneAnswer
<1> QED BY <1>4, <1>5, <1>6, <1>7, <1>8, <1>9, <1>10, <1>11 DEF IInv

\* The server sends the answer to a request it holds.
LEMMA ReplyStep ==
    ASSUME IInv, NEW g \in Gets, NEW s, ServerReplies(g, s)
    PROVE  IInv'
<1> DEFINE new == [for |-> g, status |-> s,
                   data |-> IF s = "success" THEN committed[req(g).proc] ELSE {}]
<1>u. /\ g \in held /\ held' = held \ {g} /\ inflight' = inflight \cup {new}
      /\ UNCHANGED <<env, stage, outcome, pending, timers, posted, connected, dangling>>
  BY DEF ServerReplies
<1>1. new.for = g
  OBVIOUS
<1> HIDE DEF new
<1>0. (\A h : req(h)' = req(h) /\ Timed(h)' = Timed(h)) /\ InUse' = InUse
  BY <1>u DEF req, Timed, InUse
<1>2. TypeOK'
  <2>1. ASSUME NEW m \in inflight' PROVE m.for \in posted
    BY <1>u, <1>1, <2>1 DEF IInv, TypeOK
  <2> QED BY <1>u, <2>1 DEF IInv, TypeOK
<1>3. Shapes' /\ AnsweredOnce'
  BY <1>u, <1>0 DEF IInv, Shapes, AnsweredOnce
<1>4. TimersAsked' /\ PostedWait' /\ OneWaits' /\ WaitersAsked' /\ Released'
  BY <1>u, <1>0
     DEF IInv, TimersAsked, PostedWait, OneWaits, WaitersAsked, NoneTimedOut, Released
<1>5. OneAnswer'
  BY <1>u, <1>1 DEF IInv, OneAnswer
<1> QED BY <1>2, <1>3, <1>4, <1>5 DEF IInv


-----------------------------------------------------------------------------
(* Answers *)

\* The gets that an answer for the processes ps completes.
Them(ps) == {g \in pending : req(g).proc \in ps}

\* AnswerAll completes those, and touches no other get.
LEMMA AnswerFacts ==
    ASSUME IInv, NEW ps, AnswerAll(ps)
    PROVE  /\ Them(ps) \subseteq Gets
           /\ \A g \in Them(ps) :
                /\ stage[g] = "pending" /\ outcome[g] = <<>>
                /\ stage'[g] = "over"
                /\ outcome'[g] \in Seq(Answers) /\ Len(outcome'[g]) <= 1 /\ outcome'[g] # <<>>
           /\ \A g \in Gets \ Them(ps) : stage'[g] = stage[g] /\ outcome'[g] = outcome[g]
           /\ stage' \in [Gets -> Stages]
           /\ outcome' \in [Gets -> Seq(Answers)]
           /\ pending' = pending \ Them(ps)
           /\ timers' = timers \ Them(ps)
<1> DEFINE T == Them(ps)
           x(g) == IF req(g).key \in store'[req(g).proc] THEN "success" ELSE "not_found"
<1>1. UNION {WaitingFor(p, pending) : p \in ps} = T
  BY DEF WaitingFor, Them
<1>2. /\ outcome' = [g \in Gets |-> IF g \notin T THEN outcome[g] ELSE Append(outcome[g], x(g))]
      /\ stage' = [g \in Gets |-> IF g \in T THEN "over" ELSE stage[g]]
      /\ pending' = pending \ T
      /\ timers' = timers \ T
  BY <1>1 DEF AnswerAll
<1>3. /\ T \subseteq Gets
      /\ \A g \in T : stage[g] = "pending"
  BY DEF Them, IInv, TypeOK
<1>4. \A g \in T : outcome[g] = <<>>
  BY <1>3, Zenon DEF IInv, AnsweredOnce
<1>5. \A g \in Gets : x(g) \in Answers
  BY DEF Answers
<1> HIDE DEF T, x
<1>6. ASSUME NEW g \in T
      PROVE  /\ outcome'[g] \in Seq(Answers) /\ Len(outcome'[g]) <= 1 /\ outcome'[g] # <<>>
  <2>1. PICK a \in Answers : a = x(g)
    BY <1>3, <1>5
  <2>2. outcome'[g] = Append(<<>>, a)
    BY <1>2, <1>3, <1>4, <2>1, Zenon
  <2>3. Append(<<>>, a) \in Seq(Answers) /\ Len(Append(<<>>, a)) <= 1 /\ Append(<<>>, a) # <<>>
    OBVIOUS
  <2> QED BY <2>2, <2>3, Zenon
<1>7. \A g \in Gets \ T : stage'[g] = stage[g] /\ outcome'[g] = outcome[g]
  BY <1>2
<1>8. outcome' \in [Gets -> Seq(Answers)]
  <2>1. \A g \in Gets : outcome'[g] \in Seq(Answers)
    BY <1>6, <1>7 DEF IInv, Shapes
  <2> QED BY <1>2, <2>1
<1>9. stage' \in [Gets -> Stages]
  BY <1>2 DEF IInv, TypeOK, Stages
<1>10. \A g \in T : stage'[g] = "over"
  BY <1>2, <1>3
<1> QED BY <1>2, <1>3, <1>4, <1>6, <1>7, <1>8, <1>9, <1>10 DEF T

\* What every such step keeps, whether a receive or the loss of the connection
\* brings it about.
LEMMA AnswerKeeps ==
    ASSUME IInv, NEW ps, AnswerAll(ps), env' = env, dangling' \in BOOLEAN,
           connected' \in BOOLEAN, posted' \subseteq posted,
           held' \cup {m.for : m \in inflight'} \subseteq posted',
           ~connected' => held' = {} /\ inflight' = {},
           dangling' => dangling \/ \E g \in posted : connected /\ stage[g] = "over"
    PROVE  TypeOK' /\ Shapes' /\ AnsweredOnce' /\ TimersAsked' /\ Released'
<1> DEFINE T == Them(ps)
<1>a. /\ T \subseteq Gets
      /\ \A g \in T : /\ stage[g] = "pending" /\ outcome[g] = <<>>
                      /\ stage'[g] = "over"
                      /\ Len(outcome'[g]) <= 1 /\ outcome'[g] # <<>>
      /\ \A g \in Gets \ T : stage'[g] = stage[g] /\ outcome'[g] = outcome[g]
      /\ stage' \in [Gets -> Stages]
      /\ outcome' \in [Gets -> Seq(Answers)]
      /\ pending' = pending \ T
      /\ timers' = timers \ T
  BY AnswerFacts
<1> HIDE DEF T
<1>0. (\A h : req(h)' = req(h) /\ Timed(h)' = Timed(h)) /\ InUse' = InUse
  BY DEF req, Timed, InUse
<1>1. TypeOK'
  <2>1. {g \in Gets : stage'[g] = "pending"} = pending'
    BY <1>a DEF IInv, TypeOK
  <2>2. timers' \subseteq pending'
    BY <1>a DEF IInv, TypeOK
  <2> QED BY <1>a, <2>1, <2>2 DEF TypeOK, Stages
<1>2. Shapes'
  <2>1. \A g \in Gets : stage'[g] # "idle" => g \in InUse
    BY <1>a, Zenon DEF IInv, Shapes
  <2> QED BY <1>a, <1>0, <2>1 DEF IInv, Shapes
<1>3. AnsweredOnce'
  <2>1. ASSUME NEW g \in Gets \ T
        PROVE  Len(outcome'[g]) <= 1 /\ (stage'[g] = "over" <=> outcome'[g] # <<>>)
    <3>1. Len(outcome[g]) <= 1 /\ (stage[g] = "over" <=> outcome[g] # <<>>)
      BY DEF IInv, AnsweredOnce
    <3> QED BY <1>a, <3>1, Zenon
  <2> QED BY <1>a, <2>1, Zenon DEF AnsweredOnce
<1>4. TimersAsked'
  BY <1>a, <1>0 DEF IInv, TimersAsked
<1>5. Released'
  <2>1. ASSUME dangling'
        PROVE  \E g \in Gets : g \in InUse /\ Timed(g) /\ outcome[g] = <<"timeout">>
    <3>1. CASE dangling
      BY <3>1 DEF IInv, Released
    <3>2. CASE ~dangling
      <4>1. PICK g \in posted : connected /\ stage[g] = "over"
        BY <2>1, <3>2
      <4>2. g \in Gets /\ g \in InUse
        BY <4>1 DEF IInv, Shapes
      <4>3. Timed(g) /\ outcome[g] = <<"timeout">>
        BY <3>2, <4>1 DEF IInv, PostedWait
      <4> QED BY <4>2, <4>3
    <3> QED BY <3>1, <3>2
  <2>2. ASSUME NEW g \in Gets, outcome[g] = <<"timeout">> PROVE outcome'[g] = <<"timeout">>
    <3>1. <<"timeout">> # <<>>
      OBVIOUS
    <3>2. g \notin T
      BY <1>a, <2>2, <3>1
    <3> QED BY <1>a, <2>2, <3>2
  <2> QED BY <1>0, <2>1, <2>2 DEF Released
<1> QED BY <1>1, <1>2, <1>3, <1>4, <1>5


\* _getnb_cbfunc: an answer is read and serves the gets of its process.
LEMMA ArrivalStep ==
    ASSUME IInv, NEW m \in inflight, _getnb_cbfunc(m)
    PROVE  IInv'
<1> DEFINE a == m.for
           released == {g \in {a} : stage[g] = "over"}
<1>u. /\ inflight' = inflight \ {m} /\ posted' = posted \ {a} /\ CallBack({a})
      /\ UNCHANGED <<env, held, connected>>
  BY DEF _getnb_cbfunc
<1>1. a \in posted /\ a \in Gets /\ connected
  BY DEF IInv, TypeOK, Shapes
<1>p. PICK S \in SUBSET released : AnswerAll({req(g).proc : g \in ({a} \ released) \cup S})
  BY <1>u, Zenon DEF CallBack
<1>d. dangling' = (dangling \/ released # {})
  BY <1>u DEF CallBack
<1> DEFINE ps == {req(g).proc : g \in ({a} \ released) \cup S}
           T == Them(ps)
<1>2. ps \subseteq {req(a).proc} /\ (stage[a] # "over" => ps = {req(a).proc})
  OBVIOUS
<1>3. /\ dangling' \in BOOLEAN
      /\ dangling' <=> (dangling \/ stage[a] = "over")
  BY <1>d DEF IInv, Shapes
<1>4. AnswerAll(ps)
  BY <1>p
<1> HIDE DEF a, ps, released
<1>0. (\A h : req(h)' = req(h) /\ Timed(h)' = Timed(h)) /\ InUse' = InUse
  BY <1>u DEF req, Timed, InUse
<1>a. /\ \A g \in T : stage[g] = "pending" /\ stage'[g] = "over"
      /\ \A g \in Gets \ T : stage'[g] = stage[g] /\ outcome'[g] = outcome[g]
      /\ pending' = pending \ T
  BY <1>4, AnswerFacts
<1>t. \A g : g \in T <=> g \in pending /\ req(g).proc \in ps
  BY DEF Them
<1> HIDE DEF T
<1>5. held' \cup {n.for : n \in inflight'} \subseteq posted'
  <2>1. a \notin held /\ \A n \in inflight' : n \in inflight /\ n.for # a
    BY <1>u DEF IInv, OneAnswer, a
  <2> QED BY <1>u, <2>1 DEF IInv, TypeOK
<1>6. TypeOK' /\ Shapes' /\ AnsweredOnce' /\ TimersAsked' /\ Released'
  <2>1. dangling' => dangling \/ \E g \in posted : connected /\ stage[g] = "over"
    BY <1>1, <1>3
  <2>2. ~connected' => held' = {} /\ inflight' = {}
    BY <1>1, <1>u
  <2>3. connected' \in BOOLEAN /\ posted' \subseteq posted /\ env' = env
    BY <1>u DEF IInv, Shapes
  <2> QED BY <1>3, <1>4, <1>5, <2>1, <2>2, <2>3, AnswerKeeps
<1>7. \A g \in posted : g \in Gets
  BY Zenon DEF IInv, Shapes
<1>8. PostedWait'
  <2>1. ASSUME NEW g \in posted'
        PROVE  \/ stage'[g] = "pending"
               \/ stage'[g] = "over" /\ (dangling' \/ (Timed(g) /\ outcome'[g] = <<"timeout">>))
    <3>1. g \in posted /\ g # a /\ g \in Gets
      BY <1>u, <1>7, <2>1
    <3>2. \/ stage[g] = "pending"
          \/ stage[g] = "over" /\ (dangling \/ (Timed(g) /\ outcome[g] = <<"timeout">>))
      BY <1>1, <3>1 DEF IInv, PostedWait
    <3>3. CASE g \in T
      <4>1. stage[g] = "pending" /\ stage'[g] = "over" /\ req(g).proc = req(a).proc
        BY <1>2, <1>a, <1>t, <3>3
      <4>2. stage[a] # "pending"
        BY <1>1, <3>1, <4>1 DEF IInv, OneWaits
      <4>3. stage[a] = "over"
        BY <1>1, <4>2 DEF IInv, PostedWait
      <4> QED BY <1>3, <4>1, <4>3
    <3>4. CASE g \notin T
      BY <1>3, <1>a, <3>1, <3>2, <3>4
    <3> QED BY <3>3, <3>4
  <2> QED BY <1>0, <2>1 DEF PostedWait
<1>9. OneWaits'
  <2>1. \A g \in posted' : g \in posted /\ (stage'[g] = "pending" => stage[g] = "pending")
    BY <1>u, <1>7, <1>a
  <2> QED BY <1>0, <1>1, <2>1 DEF IInv, OneWaits
<1>10. WaitersAsked'
  <2>1. SUFFICES ASSUME NoneTimedOut', NEW g \in pending'
                 PROVE  \E h \in posted' : req(h).proc = req(g).proc /\ stage'[h] = "pending"
    BY <1>0 DEF WaitersAsked
  <2>2. ~dangling' /\ NoneTimedOut
    <3>1. ~dangling'
      BY <1>6, <2>1 DEF Released, NoneTimedOut
    <3>2. \A h \in T : outcome[h] = <<>>
      BY <1>4, AnswerFacts DEF T
    <3>3. <<>> # <<"timeout">>
      OBVIOUS
    <3>4. ASSUME NEW h \in Gets PROVE outcome[h] # <<"timeout">>
      BY <1>a, <2>1, <3>2, <3>3 DEF NoneTimedOut
    <3> QED BY <3>1, <3>4 DEF NoneTimedOut
  <2>3. ps = {req(a).proc}
    BY <1>2, <1>3, <2>2
  <2>4. g \in pending /\ g \notin T
    BY <1>a, <2>1
  <2>5. req(g).proc # req(a).proc
    BY <1>t, <2>3, <2>4
  <2>6. PICK h \in posted : req(h).proc = req(g).proc /\ stage[h] = "pending"
    BY <1>1, <2>2, <2>4 DEF IInv, WaitersAsked
  <2>7. h # a /\ h \notin T /\ h \in Gets
    BY <1>7, <1>t, <2>3, <2>5, <2>6
  <2> QED BY <1>u, <1>a, <2>6, <2>7
<1>11. OneAnswer'
  BY <1>u DEF IInv, OneAnswer
<1> QED BY <1>6, <1>8, <1>9, <1>10, <1>11 DEF IInv

\* The connection is lost: every posted receive is completed.
LEMMA LossStep ==
    ASSUME IInv, LostConnection
    PROVE  IInv'
<1>u. /\ connected /\ connected' = FALSE /\ held' = {} /\ inflight' = {} /\ CallBack(posted)
      /\ UNCHANGED <<env, posted>>
  BY DEF LostConnection
<1> DEFINE released == {g \in posted : stage[g] = "over"}
<1>p. PICK S \in SUBSET released : AnswerAll({req(g).proc : g \in (posted \ released) \cup S})
  BY <1>u, Zenon DEF CallBack
<1> DEFINE ps == {req(g).proc : g \in (posted \ released) \cup S}
<1>1. AnswerAll(ps)
  BY <1>p
<1>2. /\ dangling' \in BOOLEAN
      /\ dangling' => dangling \/ \E g \in posted : connected /\ stage[g] = "over"
  BY <1>u DEF CallBack, IInv, Shapes
<1> HIDE DEF ps, released
<1>3. held' \cup {n.for : n \in inflight'} \subseteq posted'
  BY <1>u
<1>4. TypeOK' /\ Shapes' /\ AnsweredOnce' /\ TimersAsked' /\ Released'
  <2>1. connected' \in BOOLEAN /\ posted' \subseteq posted /\ env' = env
    BY <1>u, Zenon
  <2>2. ~connected' => held' = {} /\ inflight' = {}
    BY <1>u
  <2> QED BY <1>1, <1>2, <1>3, <2>1, <2>2, AnswerKeeps
<1>5. PostedWait' /\ OneWaits' /\ WaitersAsked' /\ OneAnswer'
  BY <1>u DEF PostedWait, OneWaits, WaitersAsked, OneAnswer
<1> QED BY <1>4, <1>5 DEF IInv

-----------------------------------------------------------------------------
(* The theorem *)

\* Every step keeps the invariant.
LEMMA GetNext ==
    ASSUME IInv, [Next]_vars
    PROVE  IInv'
<1>r. ASSUME NEW g \in Gets, stage[g] \in {"shifted", "query"}, NEW s \in Statuses, Respond(g, s),
             UNCHANGED <<env, inflight, connected, dangling>>
      PROVE  IInv'
  <2>1. g \in InUse /\ s \in Answers
    BY <1>r DEF IInv, Shapes, Statuses, Answers
  <2>2. stage' = [stage EXCEPT ![g] = "over"] /\ outcome' = [outcome EXCEPT ![g] = Append(@, s)]
        /\ UNCHANGED <<env, pending, timers, posted, held, inflight, connected, dangling>>
    BY <1>r DEF Respond
  <2> QED BY <1>r, <2>1, <2>2, SettleStep, Zenon
<1>1. ASSUME NEW g \in Gets, PMIx_Get(g) PROVE IInv'
  <2>1. /\ g \in InUse /\ stage[g] = "idle" /\ "success" \in Answers
        /\ UNCHANGED <<env, pending, timers, posted, held, inflight, connected, dangling>>
    BY <1>1 DEF PMIx_Get, Answers
  <2>2. \/ /\ stage' = [stage EXCEPT ![g] = "over"]
           /\ outcome' = [outcome EXCEPT ![g] = Append(@, "success")]
        \/ stage' = [stage EXCEPT ![g] = "shifted"] /\ outcome' = outcome
    BY <1>1 DEF PMIx_Get
  <2> QED BY <2>1, <2>2, SettleStep
<1>2. ASSUME NEW g \in Gets, _getnbfn(g) PROVE IInv'
  <2>1. stage[g] = "shifted" /\ UNCHANGED <<env, inflight, connected, dangling>>
    BY <1>2 DEF _getnbfn
  <2>2. \/ Respond(g, "success") \/ Respond(g, "not_found")
        \/ /\ stage' = [stage EXCEPT ![g] = "query"]
           /\ UNCHANGED <<outcome, pending, timers, posted, held, late>>
        \/ connected /\ Request(g)
    BY <1>2 DEF _getnbfn
  <2>3. g \in InUse /\ "success" \in Answers /\ "success" \in Statuses /\ "not_found" \in Statuses
    BY <2>1 DEF IInv, Shapes, Answers, Statuses
  <2>4. CASE stage' = [stage EXCEPT ![g] = "query"]
             /\ UNCHANGED <<outcome, pending, timers, posted, held, late>>
    BY <2>1, <2>3, <2>4, SettleStep, Zenon
  <2>5. CASE connected /\ Request(g)
    BY <2>1, <2>5, RequestStep
  <2> QED BY <1>r, <2>1, <2>2, <2>3, <2>4, <2>5
<1>3. ASSUME NEW g \in Gets, timeout(g) PROVE IInv'
  BY <1>3, TimeoutStep
<1>4. ASSUME NEW g \in Gets, NEW s \in Statuses, infocb(g, s) PROVE IInv'
  BY <1>4, <1>r DEF infocb
<1>5. ASSUME NEW g \in Gets, NEW s \in Statuses, ServerReplies(g, s) PROVE IInv'
  BY <1>5, ReplyStep
<1>s. ASSUME UNCHANGED <<env, stage, outcome, pending, timers, posted, held, inflight, connected, dangling>>
      PROVE  IInv'
  <2>0. (\A h : req(h)' = req(h) /\ Timed(h)' = Timed(h)) /\ InUse' = InUse
    BY <1>s DEF req, Timed, InUse
  <2>1. TypeOK' /\ Shapes' /\ AnsweredOnce' /\ OneAnswer'
    BY <1>s, <2>0 DEF IInv, TypeOK, Shapes, AnsweredOnce, OneAnswer
  <2>2. TimersAsked' /\ PostedWait' /\ OneWaits' /\ WaitersAsked' /\ Released'
    BY <1>s, <2>0
       DEF IInv, TimersAsked, PostedWait, OneWaits, WaitersAsked, NoneTimedOut, Released
  <2> QED BY <2>1, <2>2 DEF IInv
<1>6. ASSUME NEW p \in Procs, NEW k \in Keys, Commit(p, k) PROVE IInv'
  BY <1>6, <1>s DEF Commit
<1>7. ASSUME NEW m \in inflight, _getnb_cbfunc(m) PROVE IInv'
  BY <1>7, ArrivalStep
<1>8. CASE LostConnection
  BY <1>8, LossStep
<1>9. CASE UNCHANGED vars
  BY <1>9, <1>s DEF vars
<1> QED BY <1>1, <1>2, <1>3, <1>4, <1>5, <1>6, <1>7, <1>8, <1>9 DEF Next

\* What the invariant is for.
LEMMA GetsAreSound ==
    ASSUME IInv
    PROVE  GetsSound
<1>1. OneRequest
  <2>1. SUFFICES ASSUME connected, NoneTimedOut
                 PROVE  /\ \A g, h \in posted : req(g).proc = req(h).proc => g = h
                        /\ \A g \in pending :
                             \E h \in posted : req(h).proc = req(g).proc /\ stage[h] = "pending"
    BY DEF OneRequest, NoneTimedOut
  <2>2. ~dangling
    BY <2>1 DEF IInv, Released, NoneTimedOut
  <2>3. \A g \in posted : stage[g] = "pending"
    <3>1. \A g \in posted : g \in Gets
      BY Zenon DEF IInv, Shapes
    <3> QED BY <2>1, <2>2, <3>1 DEF IInv, PostedWait, NoneTimedOut
  <2> QED BY <2>1, <2>3 DEF IInv, OneWaits, WaitersAsked
<1>2. ReceivesOwned
  <2>1. (connected /\ ~dangling) =>
           \A g \in posted : stage[g] = "pending" \/ outcome[g] = <<"timeout">>
    BY DEF IInv, PostedWait
  <2>2. dangling => \E g \in InUse : "timeout" \in req(g).dirs /\ outcome[g] = <<"timeout">>
    BY DEF IInv, Released, Timed
  <2> QED BY <2>1, <2>2 DEF ReceivesOwned
<1> QED BY <1>1, <1>2 DEF IInv, GetsSound

\* Whatever gets the client's threads make, and however answers, timers and the
\* loss of the connection race (_getnbfn, _getnb_cbfunc, timeout, infocb), no get
\* is answered twice, gets of one process share one request while none has timed
\* out, and the first object a message comes for too late was released by its
\* own timer.
THEOREM GetsAnsweredOnce == Spec => []GetsSound
<1>1. Init => IInv
  BY GetInit
<1>2. IInv /\ [Next]_vars => IInv'
  BY GetNext
<1>3. IInv => GetsSound
  BY GetsAreSound
<1> QED BY <1>1, <1>2, <1>3, PTL DEF Spec

=============================================================================
