------------------------- MODULE MessageOrderProofs -------------------------
(***************************************************************************)
(* What a side queued the other handles in that order, by the receive it   *)
(* is meant for: the steps of threads, and what is written, read and lost, *)
(* keep the invariant of queues, streams and events of MessagingProofs,    *)
(* which implies MessagesSound.                                            *)
(***************************************************************************)
EXTENDS MessagingProofs

\* Most steps are first-order reasoning: Zenon proves them, and those that need
\* arithmetic, records or sequences cite SMT.
USE Zenon

\* What a peer is after k units were written.
WrittenPeer(p, k) ==
    IF k < Len(p.send_msg)
    THEN [p EXCEPT !.send_msg = SubSeq(p.send_msg, k + 1, Len(p.send_msg))]
    ELSE IF p.send_queue = <<>> THEN [p EXCEPT !.send_msg = None, !.send_ev = FALSE]
    ELSE [p EXCEPT !.send_msg = Units(Head(p.send_queue)), !.send_queue = Tail(p.send_queue)]

\* What a side reads off a stream that is in order: a message; a part of one, or
\* nothing; or the loss of the connection.
ReadOff(s) ==
    LET line == Line(Other(s))
        x == Unsent(Other(s))
        open == peer[Other(s)].sd
    IN  \/ \E m \in Messages : \E rest \in Seq(Wares) :
              /\ Complete(s, m, rest) /\ Cut(rest) /\ Stream(rest \o x, None, open)
              /\ Loses(line, rest \o x, EndTag, m.tag)
        \/ \E m \in Messages \cup {None} : \E rest \in Seq(Wares) :
              /\ Blocked(s, m, rest) /\ Cut(rest) /\ Stream(rest \o x, m, open)
              /\ Loses(line, rest \o x, EndTag, 0)
        \/ ReadFailed(s)

-----------------------------------------------------------------------------
(* The steps of threads *)

\* Calls, answers, messages without an answer, activations and events keep the
\* invariant of the message layer.
LEMMA EventSteps ==
    Setting /\ IInv /\ IInv' /\ Always =>
       /\ \A c \in Calls : Call(c) \/ Answer(c) => Always' /\ (Exact => Exact')
       /\ \A s \in Sides : \A x \in Beats \cup Notes :
             SendOneway(s, x) => Always' /\ (Exact => Exact')
       /\ \A s \in Sides : Poll(s) \/ RunEvent(s) => Always' /\ (Exact => Exact')
       /\ UNCHANGED vars => Always' /\ (Exact => Exact')
\* A request gets the next tag and is queued.
<1>FlowQueued.
    ASSUME NEW base, NEW ev, NEW f, NEW line, NEW q, NEW last,
           Flow(base, ev, f, line, q, last, TRUE), NEW q2, Gains(q, q2, TagOf, last + 1),
           base \in Nat, base >= DYNAMIC, last \in Nat
    PROVE  Flow(base, ev, f, line, q2, last + 1, TRUE)
  <2> USE <1>FlowQueued
  <2>1. PICK e \in Nat :
           /\ Carries(ev, f, base, e) /\ Runs(line, EndTag, e)
           /\ \E l \in Nat : Carries(line, EndTag, e, l) /\ Carries(q, TagOf, l, last)
    BY DEF Flow
  <2>2. PICK l \in Nat : Carries(line, EndTag, e, l) /\ Carries(q, TagOf, l, last)
    BY <2>1
  <2>3. e >= DYNAMIC
    BY <2>1, CarriesBounds
  <2>4. l >= DYNAMIC
    BY <2>2, <2>3, CarriesBounds
  <2>5. Carries(q2, TagOf, l, last + 1)
    BY <2>2, <2>4 DEF Gains
  <2> QED BY <2>1, <2>2, <2>5 DEF Flow

\* When there is no other, it is put on the line at once.
<1>FlowDirect.
    ASSUME NEW base, NEW ev, NEW f, NEW line, NEW last,
           Flow(base, ev, f, line, <<>>, last, TRUE), NEW line2,
           Gains(line, line2, EndTag, last + 1), base \in Nat, base >= DYNAMIC,
           last \in Nat
    PROVE  Flow(base, ev, f, line2, <<>>, last + 1, TRUE)
  <2> USE <1>FlowDirect
  <2>1. PICK e \in Nat :
           /\ Carries(ev, f, base, e) /\ Runs(line, EndTag, e)
           /\ \E l \in Nat : Carries(line, EndTag, e, l) /\ Carries(<<>>, TagOf, l, last)
    BY DEF Flow
  <2>2. PICK l \in Nat : Carries(line, EndTag, e, l) /\ Carries(<<>>, TagOf, l, last)
    BY <2>1
  <2>3. e >= DYNAMIC
    BY <2>1, CarriesBounds
  <2>4. l >= DYNAMIC
    BY <2>2, <2>3, CarriesBounds
  <2>5. l = last
    BY <2>2, <2>4, CarriesBounds, TagsNone
  <2>6. Carries(line2, EndTag, e, last + 1)
    BY <2>2, <2>3, <2>5 DEF Gains
  <2>7. last + 1 \in Nat
    BY SMT
  <2>8. Carries(<<>>, TagOf, last + 1, last + 1) /\ Runs(line2, EndTag, e)
    BY <2>6, <2>7, TagsNone DEF Carries
  <2> QED BY <2>1, <2>6, <2>7, <2>8 DEF Flow

\* The server takes up the request that came first.
<1>FlowTaken.
    ASSUME NEW base, NEW ev, NEW f, NEW line, NEW q, NEW last, NEW open,
           Flow(base, ev, f, line, q, last, open), NEW t, NEW ev2, Loses(ev, ev2, f, t),
           base \in Nat, base >= DYNAMIC, last \in Nat, t \in Nat
    PROVE  /\ t < DYNAMIC => Flow(base, ev2, f, line, q, last, open)
           /\ t >= DYNAMIC => t = base + 1 /\ Flow(base + 1, ev2, f, line, q, last, open)
  <2> USE <1>FlowTaken
  <2>1. PICK e \in Nat :
           /\ Carries(ev, f, base, e) /\ Runs(line, EndTag, e)
           /\ open => \E l \in Nat : Carries(line, EndTag, e, l) /\ Carries(q, TagOf, l, last)
    BY DEF Flow
  <2>2. ASSUME t < DYNAMIC PROVE Flow(base, ev2, f, line, q, last, open)
    BY <2>1, <2>2 DEF Loses, Flow
  <2>3. ASSUME t >= DYNAMIC PROVE t = base + 1 /\ Flow(base + 1, ev2, f, line, q, last, open)
    BY <2>1, <2>3 DEF Loses, Flow
  <2> QED BY <2>2, <2>3

(* Answers on their way to the client *)
\* A request is taken up whose tag is none of O.
<1>BackHeld.
    ASSUME NEW hd, NEW sev, NEW f, NEW q, NEW line, NEW cev, NEW g, NEW O,
           Back(hd, sev, f, q, line, cev, g, O),
           NEW m, m.tag \in Nat, m.tag >= DYNAMIC, m.tag \notin O
    PROVE  Back(hd \cup {m}, sev, f, q, line, cev, g, O \cup {m.tag})
  <2> USE <1>BackHeld
  <2>1. HeldTags(hd \cup {m}) = HeldTags(hd) \cup {m.tag}
    BY DEF HeldTags
  <2>2. Apart(HeldTags(hd), Dynamic(sev, f), Dynamic(q, TagOf), Dynamic(line, EndTag),
              Dynamic(cev, g), O)
    BY DEF Back
  <2>3. Apart(HeldTags(hd \cup {m}), Dynamic(sev, f), Dynamic(q, TagOf), Dynamic(line, EndTag),
              Dynamic(cev, g), O \cup {m.tag})
    BY <2>1, <2>2, SMT DEF Apart
  <2>4. \A n \in hd : n.tag # m.tag
    BY <2>2 DEF Apart, HeldTags
  <2>5. \A n, l \in hd \cup {m} : n.tag >= DYNAMIC /\ n.tag = l.tag => n = l
    BY <2>4 DEF Back
  <2> QED BY <2>3, <2>5 DEF Back

\* It is answered.
<1>BackAnswer.
    ASSUME NEW hd, NEW sev, NEW f, NEW q, NEW line, NEW cev, NEW g, NEW O,
           Back(hd, sev, f, q, line, cev, g, O),
           NEW m \in hd, m.tag \in Nat, NEW sev2, Gains(sev, sev2, f, m.tag)
    PROVE  Back(hd \ {m}, sev2, f, q, line, cev, g, O)
  <2> USE <1>BackAnswer
  <2> DEFINE t == m.tag
  <2>1. Apart(HeldTags(hd), Dynamic(sev, f), Dynamic(q, TagOf), Dynamic(line, EndTag),
              Dynamic(cev, g), O)
    BY DEF Back
  <2>2. HeldTags(hd \ {m}) \subseteq HeldTags(hd) \ {t}
    BY DEF HeldTags, Back
  <2>3. t >= DYNAMIC => t \in HeldTags(hd)
    BY DEF HeldTags
  <2>4. \A n, l \in hd \ {m} : n.tag >= DYNAMIC /\ n.tag = l.tag => n = l
    BY DEF Back
  <2>5. t < DYNAMIC \/ t >= DYNAMIC
    BY SMT DEF DYNAMIC
  <2>6. t < DYNAMIC => t \notin Dynamic(sev, f)
    BY SMT DEF DYNAMIC, Dynamic
  <2> HIDE DEF t
  <2>7. CASE t < DYNAMIC
    <3>1. Dynamic(sev2, f) = Dynamic(sev, f)
      BY <2>7 DEF Gains, t
    <3>2. Apart(HeldTags(hd \ {m}), Dynamic(sev2, f), Dynamic(q, TagOf), Dynamic(line, EndTag),
                Dynamic(cev, g), O)
      BY <2>1, <2>2, <3>1, SMT DEF Apart
    <3>3. Distinct(sev2, f)
      BY <2>6, <2>7 DEF Gains, Back, t
    <3> QED BY <2>4, <3>2, <3>3 DEF Back
  <2>8. CASE t >= DYNAMIC
    <3>1. Dynamic(sev2, f) = Dynamic(sev, f) \cup {t}
      BY <2>8 DEF Gains, t
    <3>2. Apart(HeldTags(hd \ {m}), Dynamic(sev2, f), Dynamic(q, TagOf), Dynamic(line, EndTag),
                Dynamic(cev, g), O)
      BY <2>1, <2>2, <2>3, <2>8, <3>1, SMT DEF Apart
    <3>3. t \notin Dynamic(sev, f)
      BY <2>1, <2>3, <2>8 DEF Apart
    <3>4. Distinct(sev2, f)
      BY <3>3 DEF Gains, Back, t
    <3> QED BY <2>4, <3>2, <3>4 DEF Back
  <2> QED BY <2>5, <2>7, <2>8

\* The answer is queued.
<1>BackReplied.
    ASSUME NEW hd, NEW sev, NEW f, NEW q, NEW line, NEW cev, NEW g, NEW O,
           Back(hd, sev, f, q, line, cev, g, O), NEW t,
           NEW sev2, Loses(sev, sev2, f, t), NEW q2, Gains(q, q2, TagOf, t), t \in Nat
    PROVE  Back(hd, sev2, f, q2, line, cev, g, O)
  <2> USE <1>BackReplied
  <2>1. Apart(HeldTags(hd), Dynamic(sev, f), Dynamic(q, TagOf), Dynamic(line, EndTag),
              Dynamic(cev, g), O)
    BY DEF Back
  <2>2. /\ Distinct(sev, f) /\ Distinct(q, TagOf)
        /\ Dynamic(sev, f) \cap Dynamic(q, TagOf) = {}
    BY <2>1 DEF Back, Apart
  <2>3. Moved(sev2, sev, f, q2, q, TagOf)
    BY <2>2, TagMoves
  <2>4. Apart(HeldTags(hd), Dynamic(sev2, f), Dynamic(q2, TagOf), Dynamic(line, EndTag),
              Dynamic(cev, g), O)
    BY <2>1, <2>3, SMT DEF Apart, Moved
  <2> QED BY <2>3, <2>4 DEF Back, Moved

\* The answer is put on the line at once.
<1>BackDirect.
    ASSUME NEW hd, NEW sev, NEW f, NEW q, NEW line, NEW cev, NEW g, NEW O,
           Back(hd, sev, f, q, line, cev, g, O), NEW t,
           NEW sev2, Loses(sev, sev2, f, t), NEW line2, Gains(line, line2, EndTag, t), t \in Nat
    PROVE  Back(hd, sev2, f, q, line2, cev, g, O)
  <2> USE <1>BackDirect
  <2>1. Apart(HeldTags(hd), Dynamic(sev, f), Dynamic(q, TagOf), Dynamic(line, EndTag),
              Dynamic(cev, g), O)
    BY DEF Back
  <2>2. /\ Distinct(sev, f) /\ Distinct(line, EndTag)
        /\ Dynamic(sev, f) \cap Dynamic(line, EndTag) = {}
    BY <2>1 DEF Back, Apart
  <2>3. Moved(sev2, sev, f, line2, line, EndTag)
    BY <2>2, TagMoves
  <2>4. Apart(HeldTags(hd), Dynamic(sev2, f), Dynamic(q, TagOf), Dynamic(line2, EndTag),
              Dynamic(cev, g), O)
    BY <2>1, <2>3, SMT DEF Apart, Moved
  <2> QED BY <2>3, <2>4 DEF Back, Moved

\* The client handles the message that came first, and takes the receive off.
<1>BackDone.
    ASSUME NEW hd, NEW sev, NEW f, NEW q, NEW line, NEW cev, NEW g, NEW O,
           Back(hd, sev, f, q, line, cev, g, O), NEW t,
           NEW cev2, Loses(cev, cev2, g, t), t \in Nat
    PROVE  /\ t < DYNAMIC => Back(hd, sev, f, q, line, cev2, g, O)
           /\ t >= DYNAMIC => t \in O /\ Back(hd, sev, f, q, line, cev2, g, O \ {t})
  <2> USE <1>BackDone
  <2>1. Apart(HeldTags(hd), Dynamic(sev, f), Dynamic(q, TagOf), Dynamic(line, EndTag),
              Dynamic(cev, g), O)
    BY DEF Back
  <2>2. Distinct(cev2, g) /\ Distinct(cev, g)
    BY DEF Back, Loses
  <2>3. ASSUME t < DYNAMIC PROVE Back(hd, sev, f, q, line, cev2, g, O)
    <3>1. Dynamic(cev2, g) = Dynamic(cev, g)
      BY <2>3 DEF Loses
    <3> QED BY <2>2, <3>1 DEF Back
  <2>4. ASSUME t >= DYNAMIC PROVE t \in O /\ Back(hd, sev, f, q, line, cev2, g, O \ {t})
    <3>1. /\ t \in Dynamic(cev, g) /\ Dynamic(cev, g) = Dynamic(cev2, g) \cup {t}
          /\ t \notin Dynamic(cev2, g)
      BY <2>2, <2>4 DEF Loses
    <3>2. Apart(HeldTags(hd), Dynamic(sev, f), Dynamic(q, TagOf), Dynamic(line, EndTag),
                Dynamic(cev2, g), O \ {t})
      BY <2>1, <3>1, SMT DEF Apart
    <3>3. t \in O
      BY <2>1, <3>1 DEF Apart
    <3> QED BY <2>2, <3>2, <3>3 DEF Back
  <2> QED BY <2>3, <2>4

(* Steps of threads *)
\* A step of events alone.
<1>AlwaysEvents.
    ASSUME Always, env'.monitored = env.monitored,
           UNCHANGED <<peer, wire, posted, unexpected>>,
           NEW s \in Sides, NEW q \in Seq(Deeds(s, env.monitored)),
           events' = [events EXCEPT ![s] = q], events \in [Sides -> Seq(Events)],
           held' \subseteq held,
           s = "server" => Shaped(q) /\ (~peer["server"].sd => Idle(q))
    PROVE  Always'
  <2> USE <1>AlwaysEvents
  <2>1. /\ \A u \in Sides : /\ peer[u] \in Loads(u, env.monitored)
                            /\ wire[u] \in Seq(Bound(u, env.monitored) \X Nat)
                            /\ events[u] \in Seq(Deeds(u, env.monitored))
        /\ held \subseteq Bound("client", env.monitored) /\ NOTIFY \in PostedTags
        /\ Writing(peer["client"]) /\ Writing(peer["server"])
        /\ Shaped(events["server"]) /\ (~peer["server"].sd => Idle(events["server"]))
        /\ \A m \in unexpected : m.tag = HEARTBEAT /\ ~env.monitored
    BY DEF Always, Sorted, ServerPolled, OnlyBeatsKept
  <2>2. \A u \in Sides : events'[u] = IF u = s THEN q ELSE events[u]
    OBVIOUS
  <2>3. NOTIFY \in PostedTags'
    BY <2>1 DEF PostedTags
  <2>4. \A u \in Sides : /\ peer'[u] \in Loads(u, env.monitored)
                         /\ wire'[u] \in Seq(Bound(u, env.monitored) \X Nat)
                         /\ events'[u] \in Seq(Deeds(u, env.monitored))
    BY <2>1, <2>2
  <2>5. Shaped(events'["server"]) /\ (~peer'["server"].sd => Idle(events'["server"]))
    BY <2>1, <2>2, SidesLemma
  <2>6. held' \subseteq Bound("client", env.monitored)
    BY <2>1
  <2>7. Writing(peer'["client"]) /\ Writing(peer'["server"])
    BY <2>1
  <2>8. \A m \in unexpected' : m.tag = HEARTBEAT /\ ~env.monitored
    BY <2>1
  <2> QED BY <2>3, <2>4, <2>5, <2>6, <2>7, <2>8, AlwaysFrame

\* Nothing but the queues of events changes, in what does not matter here.
<1>ExactEvents.
    ASSUME IInv, Exact, UNCHANGED <<peer, wire, posted, handled, held, tag, order, stray>>,
           Same(events["server"], events'["server"], KindTag("process_msg")),
           Same(events["server"], events'["server"], KindTag("reply")),
           Same(events["client"], events'["client"], KindTag("process_msg"))
    PROVE  Exact'
  <2> USE <1>ExactEvents
  <2>1. Base \in Nat /\ Base >= DYNAMIC /\ tag \in Nat
    BY BaseLemma
  <2>2. Base' = Base /\ PostedTags' = PostedTags
    BY DEF Base, PostedTags
  <2>3. StreamTo("client")' /\ StreamTo("server")'
    BY DEF Exact, StreamTo, Line, Unsent
  <2>4. Line("client")' = Line("client") /\ Line("server")' = Line("server")
    BY DEF Line, Unsent
  <2>5. Forward'
    <3> SUFFICES ASSUME peer["server"].sd
                 PROVE  Flow(Base, events'["server"], KindTag("process_msg"), Line("client"),
                             peer["client"].send_queue, tag, peer["client"].sd)
      BY <2>2, <2>4 DEF Forward
    <3>1. Flow(Base, events["server"], KindTag("process_msg"), Line("client"),
               peer["client"].send_queue, tag, peer["client"].sd)
      BY DEF Exact, Forward
    <3> QED BY <2>1, <3>1, FlowEvents
  <2>6. Backward'
    <3> DEFINE O == {t \in PostedTags : t <= Base}
    <3>1. Back(held, events["server"], KindTag("reply"), peer["server"].send_queue,
               Line("server"), events["client"], KindTag("process_msg"), O)
      BY DEF Exact, Backward
    <3>2. \A k \in Base + 1 .. tag : k \in PostedTags
      BY DEF Exact, Backward
    <3> HIDE DEF O
    <3>3. Back(held, events'["server"], KindTag("reply"), peer["server"].send_queue,
               Line("server"), events'["client"], KindTag("process_msg"), O)
      BY <3>1, BackLess DEF Same
    <3>4. Back(held', events'["server"], KindTag("reply"), peer'["server"].send_queue,
               Line("server")', events'["client"], KindTag("process_msg"), O)
      BY <2>4, <3>3
    <3> QED BY <2>2, <3>2, <3>4 DEF Backward, O
  <2> QED BY <2>3, <2>5, <2>6 DEF Exact

\* Nothing of all this changes.
<1>Unmoved.
    ASSUME Always, env'.monitored = env.monitored,
           UNCHANGED <<peer, wire, posted, unexpected, events, held, handled, tag, order, stray>>
    PROVE  Always' /\ (Exact => Exact')
  <2> USE <1>Unmoved
  <2>1. Always'
    <3>1. Sorted(env.monitored)'
      BY DEF Always, Sorted, PostedTags
    <3>2. Writing(peer["client"])' /\ Writing(peer["server"])'
      BY DEF Always
    <3>3. ServerPolled'
      BY DEF Always, ServerPolled
    <3>4. OnlyBeatsKept'
      BY DEF Always, OnlyBeatsKept
    <3> QED BY <3>1, <3>2, <3>3, <3>4 DEF Always
  <2>2. Exact => Exact'
    BY DEF Exact, StreamTo, Line, Unsent, Forward, Backward, Base, PostedTags
  <2> QED BY <2>1, <2>2

\* An event of a thread is put at the end of the queue of a side.
<1>EventAdded.
    ASSUME IInv, Always, env'.monitored = env.monitored,
           UNCHANGED <<peer, wire, posted, unexpected, held, handled, tag, order, stray>>,
           NEW s \in Sides, NEW e \in Deeds(s, env.monitored),
           e.ev \in {"send_recv", "send_oneway"},
           events' = [events EXCEPT ![s] = Append(@, e)]
    PROVE  Always' /\ (Exact => Exact')
  <2> USE <1>EventAdded
  <2> DEFINE q == Append(events[s], e)
  <2>1. /\ events \in [Sides -> Seq(Events)] /\ events[s] \in Seq(Deeds(s, env.monitored))
        /\ Sorted(env.monitored) /\ ServerPolled
    BY DEF IInv, Transit, Always, Sorted
  <2>2. q \in Seq(Deeds(s, env.monitored))
    BY <2>1, AppendLemma
  <2>3. e \in AllEvents /\ \A u \in Sides : events[u] \in Seq(AllEvents)
    BY <2>1, BoundLemma, SortedTypes
  <2>4. ~IsHandler(e) /\ e.ev # "process_msg" /\ e.ev # "reply"
    BY SMT DEF IsHandler
  <2>5. s = "server" => Shaped(q) /\ (~peer["server"].sd => Idle(q))
    BY <2>1, <2>4, QueueAppend DEF ServerPolled
  <2>6. events' = [events EXCEPT ![s] = q]
    OBVIOUS
  <2>7. \A u \in Sides : events'[u] = IF u = s THEN q ELSE events[u]
    BY <2>1, <2>6
  <2>8. \A u \in Sides : \A k \in {"reply", "process_msg"} :
           Same(events[u], events'[u], KindTag(k))
    BY <2>3, <2>4, <2>7, EventsSame
  <2> HIDE DEF q
  <2>9. Always'
    BY <2>1, <2>2, <2>5, <2>6, <1>AlwaysEvents
  <2>10. ASSUME Exact PROVE Exact'
    BY <2>8, <2>10, SidesLemma, <1>ExactEvents
  <2> QED BY <2>9, <2>10

\* A call of a thread of the client.
<1>CallPipe.
    ASSUME IInv, Always, NEW c \in Calls, Call(c)
    PROVE  Always' /\ (Exact => Exact')
  <2> USE <1>CallPipe
  <2>1. UNCHANGED <<env, peer, wire, posted, unexpected, held, handled, tag, order, stray>>
    BY DEF Call
  <2>2. CASE connected
    <3> DEFINE e == [ev |-> "send_recv", body |-> c]
    <3>1. e \in Deeds("client", env.monitored) /\ e.ev = "send_recv"
      BY DEF Deeds
    <3>2. events' = [events EXCEPT !["client"] = Append(@, e)]
      BY <2>2 DEF Call
    <3> HIDE DEF e
    <3> QED BY <2>1, <3>1, <3>2, <1>EventAdded, SidesLemma
  <2>3. CASE ~connected
    <3>1. UNCHANGED events
      BY <2>3 DEF Call
    <3> QED BY <2>1, <3>1, <1>Unmoved
  <2> QED BY <2>2, <2>3

\* A message without an answer.
<1>SendOnewayPipe.
    ASSUME IInv, Always, NEW s \in Sides, NEW x \in Beats \cup Notes, SendOneway(s, x)
    PROVE  Always' /\ (Exact => Exact')
  <2> USE <1>SendOnewayPipe
  <2> DEFINE e == [ev |-> "send_oneway", body |-> x]
  <2>1. env \in Envs
    BY DEF IInv, Transit
  <2>2. env'.monitored = env.monitored
    BY <2>1 DEF SendOneway, Envs
  <2>3. x \in IF s = "client" THEN Beats ELSE Notes
    BY <2>1 DEF SendOneway, Envs
  <2>4. e \in Deeds(s, env.monitored) /\ e.ev = "send_oneway"
    BY <2>3 DEF Deeds
  <2>5. /\ events' = [events EXCEPT ![s] = Append(@, e)]
        /\ UNCHANGED <<peer, wire, posted, unexpected, held, handled, tag, order, stray>>
    BY DEF SendOneway
  <2> HIDE DEF e
  <2> QED BY <2>2, <2>4, <2>5, <1>EventAdded

\* A queue in which nothing counts.
<1>SilentQueue.
    ASSUME NEW S, NEW q \in Seq(S), NEW f \in [S -> Nat], \A i \in DOMAIN q : f[q[i]] = 0
    PROVE  Same(<<>>, q, f)
  <2> USE <1>SilentQueue
  <2>1. ~(0 >= DYNAMIC)
    BY SMT DEF DYNAMIC
  <2>2. Dynamic(q, f) = {} /\ Distinct(q, f)
    BY <2>1 DEF Dynamic, Distinct
  <2>3. \A a \in Nat : Runs(q, f, a)
    BY <2>1, <2>2 DEF Runs
  <2>4. Dynamic(<<>>, f) = {}
    <3>1. 0 \in Nat
      BY SMT
    <3> QED BY <3>1, TagsNone
  <2>5. ASSUME NEW a \in Nat, NEW b \in Nat, Carries(<<>>, f, a, b) PROVE Carries(q, f, a, b)
    BY <2>2, <2>3, <2>4, <2>5 DEF Carries
  <2> QED BY <2>2, <2>4, <2>5 DEF Same

\* The events of the socket are activated.
<1>PollPipe.
    ASSUME IInv, Always, NEW s \in Sides, Poll(s)
    PROVE  Always' /\ (Exact => Exact')
  <2> USE <1>PollPipe
  <2>1. PICK q \in {<<"recv">>, <<"send">>, <<"recv", "send">>, <<"send", "recv">>} :
           events' = [events EXCEPT ![s] = [i \in DOMAIN q |-> [ev |-> q[i], body |-> None]]]
    BY DEF Poll
  <2> DEFINE h == [i \in DOMAIN q |-> [ev |-> q[i], body |-> None]]
             mon == env.monitored
  <2>2. Shaped(h)
    BY PollQueue
  <2>3. h \in Seq([ev : {"recv", "send"}, body : {None}])
    <3> DEFINE S == [ev : {"recv", "send"}, body : {None}]
    <3>1. q \in Seq({"recv", "send"})
      <4>1. <<"recv">> \in Seq({"recv", "send"}) /\ <<"send">> \in Seq({"recv", "send"})
        BY SMT
      <4>2. <<"recv", "send">> \in Seq({"recv", "send"})
        BY SMT
      <4>3. <<"send", "recv">> \in Seq({"recv", "send"})
        BY SMT
      <4>4. q \in {<<"recv">>, <<"send">>, <<"recv", "send">>, <<"send", "recv">>}
        BY <2>1
      <4> QED BY <4>1, <4>2, <4>3, <4>4
    <3>2. DOMAIN q = 1..Len(q) /\ Len(q) \in Nat
      BY <3>1, SMT
    <3>3. \A i \in 1..Len(q) : h[i] \in S
      BY <3>1, SMT
    <3>4. h \in [1..Len(q) -> S]
      BY <3>2, <3>3
    <3> HIDE DEF h, S
    <3>5. h \in Seq(S)
      BY <3>2, <3>4, SMT
    <3> QED BY <3>5, SMT DEF S
  <2>4. \A i \in DOMAIN h : h[i].ev \in {"recv", "send"}
    BY SMT
  <2> HIDE DEF h
  <2>5. [ev : {"recv", "send"}, body : {None}] \subseteq Deeds(s, mon)
    BY DEF Deeds
  <2>6. h \in Seq(Deeds(s, mon))
    BY <2>3, <2>5, SeqSubset
  <2>7. /\ UNCHANGED <<env, peer, wire, posted, unexpected, held, handled, tag, order, stray>>
        /\ events[s] = <<>> /\ events' = [events EXCEPT ![s] = h]
        /\ peer[s].sd
    BY <2>1 DEF Poll, Ready, h
  <2>8. events \in [Sides -> Seq(Events)] /\ Sorted(mon)
    BY DEF IInv, Transit, Always
  <2>9. Always'
    BY <2>2, <2>6, <2>7, <2>8, <1>AlwaysEvents
  <2>10. h \in Seq(AllEvents)
    BY <2>6, BoundLemma, SeqSubset
  <2>11. ASSUME NEW k \in {"reply", "process_msg"} PROVE Same(<<>>, h, KindTag(k))
    <3>1. ASSUME NEW i \in DOMAIN h PROVE KindTag(k)[h[i]] = 0
      <4>1. h[i] \in AllEvents
        BY <2>10, SMT
      <4>2. h[i].ev # k
        BY <2>4, SMT
      <4> QED BY <4>1, <4>2, KindLemma
    <3> QED BY <2>10, <3>1, KindLemma, <1>SilentQueue
  <2>12. \A u \in Sides : events'[u] = IF u = s THEN h ELSE events[u]
    BY <2>7, <2>8
  <2>13. \A u \in Sides : events[u] \in Seq(AllEvents)
    BY <2>8, SortedTypes
  <2>14. \A u \in Sides : \A k \in {"reply", "process_msg"} :
            Same(events[u], events'[u], KindTag(k))
    BY <2>7, <2>11, <2>12, <2>13, EventsSame
  <2>15. ASSUME Exact PROVE Exact'
    BY <2>7, <2>14, <2>15, SidesLemma, <1>ExactEvents
  <2> QED BY <2>9, <2>15

\* The receives and the streams as they are, a request is answered.
<1>AnswerPipe.
    ASSUME IInv, Always, NEW c \in Calls, Answer(c)
    PROVE  Always' /\ (Exact => Exact')
  <2> USE <1>AnswerPipe
  <2>1. PICK m \in held :
           /\ held' = held \ {m}
           /\ events' = [events EXCEPT !["server"] = Append(@, [ev |-> "reply", body |-> m])]
    BY DEF Answer
  <2> DEFINE e == [ev |-> "reply", body |-> m]
             mon == env.monitored
             q == Append(events["server"], e)
  <2>2. /\ UNCHANGED <<env, peer, wire, posted, unexpected, handled, tag, order, stray>>
        /\ events' = [events EXCEPT !["server"] = q]
    BY <2>1 DEF Answer
  <2>3. /\ events \in [Sides -> Seq(Events)] /\ Sorted(mon) /\ ServerPolled
        /\ events["server"] \in Seq(Deeds("server", mon)) /\ held \subseteq Bound("client", mon)
    BY SidesLemma DEF IInv, Transit, Always, Sorted
  <2>4. e \in Deeds("server", mon) /\ e.ev = "reply" /\ e.body = m /\ ~IsHandler(e)
    <3>1. e \in [ev : {"reply"}, body : Bound("client", mon)]
      BY <2>3
    <3>2. e \in Deeds("server", mon)
      BY <3>1 DEF Deeds
    <3> QED BY <3>2 DEF IsHandler
  <2>5. q \in Seq(Deeds("server", mon))
    BY <2>3, <2>4, AppendLemma
  <2>6. Shaped(q) /\ (~peer["server"].sd => Idle(q))
    BY <2>3, <2>4, QueueAppend DEF ServerPolled
  <2>7. /\ events["server"] \in Seq(AllEvents) /\ events["client"] \in Seq(AllEvents)
        /\ e \in AllEvents /\ m \in Messages
    BY <2>3, <2>4, BoundLemma, SortedTypes, SidesLemma
  <2>8. m.tag \in Nat
    BY <2>7 DEF Messages
  <2> HIDE DEF e
  <2>9. /\ Gains(events["server"], q, KindTag("reply"), m.tag)
        /\ Same(events["server"], q, KindTag("process_msg"))
    BY <2>4, <2>7, EventGains, EventsSame
  <2> HIDE DEF q
  <2>10. Always'
    BY <2>1, <2>2, <2>3, <2>5, <2>6, <1>AlwaysEvents, SidesLemma
  <2>11. events'["server"] = q /\ events'["client"] = events["client"]
    BY <2>2, <2>3, SidesLemma
  <2>12. ASSUME Exact PROVE Exact'
    <3>1. StreamTo("client")' /\ StreamTo("server")'
      BY <2>2, <2>12 DEF Exact, StreamTo, Line, Unsent
    <3>2. /\ Line("client")' = Line("client") /\ Line("server")' = Line("server")
          /\ Base' = Base /\ PostedTags' = PostedTags
      BY <2>2 DEF Line, Unsent, Base, PostedTags
    <3>3. Forward'
      <4> SUFFICES ASSUME peer["server"].sd
                   PROVE  Flow(Base, q, KindTag("process_msg"), Line("client"),
                               peer["client"].send_queue, tag, peer["client"].sd)
        BY <2>2, <2>11, <3>2 DEF Forward
      <4>1. Flow(Base, events["server"], KindTag("process_msg"), Line("client"),
                 peer["client"].send_queue, tag, peer["client"].sd)
        BY <2>12 DEF Exact, Forward
      <4>2. Base \in Nat /\ Base >= DYNAMIC /\ tag \in Nat
        BY <2>12, BaseLemma
      <4> QED BY <2>9, <4>1, <4>2, FlowEvents
    <3>4. Backward'
      <4> DEFINE O == {t \in PostedTags : t <= Base}
      <4>1. /\ Back(held, events["server"], KindTag("reply"), peer["server"].send_queue,
                    Line("server"), events["client"], KindTag("process_msg"), O)
            /\ \A k \in Base + 1 .. tag : k \in PostedTags
        BY <2>12 DEF Exact, Backward
      <4> HIDE DEF O
      <4>2. Back(held', events'["server"], KindTag("reply"), peer'["server"].send_queue,
                 Line("server")', events'["client"], KindTag("process_msg"), O)
        <5>1. Back(held \ {m}, q, KindTag("reply"), peer["server"].send_queue,
                   Line("server"), events["client"], KindTag("process_msg"), O)
          BY <2>8, <2>9, <4>1, <1>BackAnswer
        <5> QED BY <2>1, <2>2, <2>11, <3>2, <5>1
      <4> QED BY <2>2, <3>2, <4>1, <4>2 DEF Backward, O
    <3> QED BY <2>2, <2>12, <3>1, <3>3, <3>4 DEF Exact
  <2> QED BY <2>10, <2>12

(* Sending *)
\* What a peer is with one more message to send.
<1>QueuedLoad.
    ASSUME NEW s \in Sides, NEW mon, NEW p \in Loads(s, mon), NEW m \in Bound(Other(s), mon),
           Writing(p)
    PROVE  LET r == Queued(p, m)
           IN  /\ r \in Loads(s, mon) /\ Writing(r)
               /\ r.sd = p.sd /\ r.recv_msg = p.recv_msg
               /\ p.send_msg = None =>
                     r.send_msg = Units(m) /\ r.send_queue = <<>> /\ p.send_queue = <<>>
               /\ p.send_msg # None =>
                     r.send_msg = p.send_msg /\ r.send_queue = Append(p.send_queue, m)
  <2> USE <1>QueuedLoad
  <2> DEFINE r == Queued(p, m)
  <2>1. m \in Messages /\ m.nbytes \in {0, 1}
    <3>1. m \in Messages
      BY SidesLemma, BoundLemma
    <3> QED BY <3>1 DEF Messages
  <2>2. Units(m) \in Seq(Bound(Other(s), mon) \X Nat)
    BY <2>1, UnitsBound
  <2>3. Units(m) # None
    <3>1. <<>> \in Seq(Wares)
      BY EmptyLemma
    <3> QED BY <2>1, <3>1, UnitsAppended DEF None
  <2>4. CASE p.send_msg = None
    <3>1. r = [p EXCEPT !.send_msg = Units(m), !.send_ev = TRUE]
      BY <2>4 DEF Queued
    <3> HIDE DEF r
    <3>2. /\ r \in Loads(s, mon) /\ r.sd = p.sd /\ r.recv_msg = p.recv_msg
          /\ r.send_msg = Units(m) /\ r.send_queue = p.send_queue
      BY <2>2, <3>1 DEF Loads
    <3>3. p.send_queue = <<>> /\ Writing(r)
      BY <2>3, <2>4, <3>2 DEF Writing
    <3> QED BY <2>4, <3>2, <3>3 DEF r
  <2>5. CASE p.send_msg # None
    <3>1. r = [p EXCEPT !.send_queue = Append(@, m), !.send_ev = TRUE]
      BY <2>5 DEF Queued
    <3> HIDE DEF r
    <3>2. Append(p.send_queue, m) \in Seq(Bound(Other(s), mon))
      BY AppendLemma DEF Loads
    <3>3. /\ r \in Loads(s, mon) /\ r.sd = p.sd /\ r.recv_msg = p.recv_msg
          /\ r.send_msg = p.send_msg /\ r.send_queue = Append(p.send_queue, m)
      BY <3>1, <3>2 DEF Loads
    <3>4. Writing(r)
      BY <2>5, <3>3 DEF Writing
    <3> QED BY <2>5, <3>3, <3>4 DEF r
  <2> QED BY <2>4, <2>5

\* What goes to the other side after m is sent.
<1>QueuedLine.
    ASSUME NEW mon, Sorted(mon), peer \in [Sides -> Peers], NEW s \in Sides,
           Writing(peer[s]), NEW m \in Bound(Other(s), mon),
           peer' = [peer EXCEPT ![s] = Queued(@, m)], wire' = wire
    PROVE  /\ SentOn(s, m) /\ Line(Other(s))' = Line(Other(s))
           /\ \A u \in Sides : peer'[u] \in Loads(u, mon) /\ peer'[u].sd = peer[u].sd
           /\ peer'[Other(s)] = peer[Other(s)] /\ Writing(peer'[s])
           /\ peer'[s].recv_msg = peer[s].recv_msg
           /\ Whole(peer[s].send_msg) => Whole(peer'[s].send_msg)
  <2> USE <1>QueuedLine
  <2> DEFINE p == peer[s]
             r == Queued(p, m)
             u == Other(s)
  <2>1. u \in Sides /\ u # s /\ Other(u) = s
    BY SidesLemma DEF Other
  <2>2. p \in Loads(s, mon) /\ peer[u] \in Loads(u, mon)
    BY <2>1 DEF Sorted
  <2>3. /\ r \in Loads(s, mon) /\ Writing(r)
        /\ r.sd = p.sd /\ r.recv_msg = p.recv_msg
        /\ p.send_msg = None =>
              r.send_msg = Units(m) /\ r.send_queue = <<>> /\ p.send_queue = <<>>
        /\ p.send_msg # None =>
              r.send_msg = p.send_msg /\ r.send_queue = Append(p.send_queue, m)
    BY <2>2, <1>QueuedLoad
  <2> HIDE DEF r
  <2>4. peer'[s] = r /\ peer'[u] = peer[u] /\ wire' = wire
    BY <2>1 DEF r
  <2>5. Line(u)' = Line(u)
    <3>1. Unsent(u)' = Unsent(u)
      BY <2>4, SMT DEF Unsent
    <3> QED BY <3>1, SMT DEF Line
  <2>6. m \in Messages
    BY <2>1, BoundLemma
  <2>7. wire[u] \in Seq(Wares) /\ p.send_queue \in Seq(Messages) /\ p.sd \in BOOLEAN
    BY <2>1, SortedTypes
  <2>8. Line(s) = IF p.sd THEN wire[u] \o p.send_msg ELSE wire[u] \o <<>>
    BY DEF Line, Unsent
  <2>9. Line(s)' = IF r.sd THEN wire[u] \o r.send_msg ELSE wire[u] \o <<>>
    BY <2>4 DEF Line, Unsent
  <2>10. SentOn(s, m)
    <3>1. CASE p.send_msg = None /\ p.sd
      <4>1. Line(s) = wire[u] /\ Line(s)' = wire[u] \o Units(m)
        BY <2>3, <2>7, <2>8, <2>9, <3>1, ConcatEmpty DEF None
      <4>2. Gains(Line(s), Line(s)', EndTag, m.tag)
        BY <2>6, <2>7, <4>1, LineGains
      <4> QED BY <2>3, <2>4, <3>1, <4>1, <4>2 DEF SentOn
    <3>2. CASE p.send_msg = None /\ ~p.sd
      BY <2>3, <2>4, <2>8, <2>9, <3>2 DEF SentOn
    <3>3. CASE p.send_msg # None
      <4>1. TagOf \in [Messages -> Nat] /\ TagOf[m] = m.tag
        BY <2>6 DEF TagOf, Messages
      <4>2. Gains(p.send_queue, Append(p.send_queue, m), TagOf, m.tag)
        BY <2>6, <2>7, <4>1, GainsLast
      <4>3. Line(s)' = Line(s)
        BY <2>3, <2>8, <2>9, <3>3
      <4> QED BY <2>3, <2>4, <3>3, <4>2, <4>3 DEF SentOn
    <3> QED BY <2>7, <3>1, <3>2, <3>3
  <2>11. ASSUME Whole(p.send_msg) PROVE Whole(r.send_msg)
    <3>1. CASE p.send_msg # None
      BY <2>3, <2>11, <3>1
    <3>2. CASE p.send_msg = None
      <4>1. <<>> \in Seq(Wares)
        BY EmptyLemma
      <4>2. Units(m)[1] = <<m, 1>>
        BY <2>6, <4>1, UnitsAppended
      <4>3. Units(m)[1][1] = m
        BY <4>2, SMT
      <4> QED BY <2>3, <3>2, <4>3 DEF Whole
    <3> QED BY <3>1, <3>2
  <2>12. \A v \in Sides : peer'[v] \in Loads(v, mon) /\ peer'[v].sd = peer[v].sd
    <3>1. \A v \in Sides : v = s \/ v = u
      BY <2>1, SidesLemma
    <3> QED BY <2>2, <2>3, <2>4, <3>1
  <2> QED BY <2>3, <2>4, <2>5, <2>10, <2>11, <2>12

\* The streams after m is sent.
<1>QueuedStream.
    ASSUME NEW mon, Sorted(mon), peer \in [Sides -> Peers], NEW s \in Sides,
           Writing(peer[s]), NEW m \in Bound(Other(s), mon),
           peer' = [peer EXCEPT ![s] = Queued(@, m)], wire' = wire,
           StreamTo("client"), StreamTo("server")
    PROVE  StreamTo("client")' /\ StreamTo("server")'
  <2> USE <1>QueuedStream
  <2> DEFINE u == Other(s)
  <2>1. u \in Sides /\ u # s /\ Other(u) = s /\ (s = "client" \/ s = "server")
    BY SidesLemma DEF Other
  <2>2. /\ SentOn(s, m) /\ Line(u)' = Line(u)
        /\ peer'[s].sd = peer[s].sd /\ peer'[u] = peer[u]
        /\ peer'[s].recv_msg = peer[s].recv_msg
        /\ Whole(peer[s].send_msg) => Whole(peer'[s].send_msg)
    BY <2>1, <1>QueuedLine
  <2>3. StreamTo(s) /\ StreamTo(u)
    BY <2>1 DEF Other
  <2>4. StreamTo(s)'
    BY <2>1, <2>2, <2>3 DEF StreamTo
  <2>5. Line(s) \in Seq(Wares) /\ m \in Messages /\ peer[s].sd \in BOOLEAN
    BY <2>1, SortedTypes, BoundLemma
  <2>6. peer'[u].sd => Stream(Line(s)', peer'[u].recv_msg, peer'[s].sd)
    <3> SUFFICES ASSUME peer[u].sd
                 PROVE  Stream(Line(s)', peer[u].recv_msg, peer[s].sd)
      BY <2>2
    <3>1. Stream(Line(s), peer[u].recv_msg, peer[s].sd)
      BY <2>1, <2>3 DEF StreamTo
    <3>2. CASE Line(s)' = Line(s)
      BY <3>1, <3>2
    <3>3. CASE peer[s].sd /\ Line(s)' = Line(s) \o Units(m)
      BY <2>5, <3>1, <3>3, StreamUnits
    <3> QED BY <2>2, <3>2, <3>3 DEF SentOn
  <2>7. StreamTo(u)'
    BY <2>1, <2>2, <2>3, <2>6 DEF StreamTo
  <2>8. CASE s = "client"
    BY <2>4, <2>7, <2>8 DEF Other
  <2>9. CASE s = "server"
    BY <2>4, <2>7, <2>9 DEF Other
  <2> QED BY <2>1, <2>8, <2>9

\* The event was no handler's.
<1>RunAlways.
    ASSUME IInv, Always, env' = env, wire' = wire, NEW s \in Sides, events[s] # <<>>,
           events' = [events EXCEPT ![s] = Tail(@)],
           \A u \in Sides : /\ peer'[u] \in Loads(u, env.monitored) /\ Writing(peer'[u])
                            /\ peer'[u].sd = peer[u].sd,
           held' \subseteq Bound("client", env.monitored), NOTIFY \in PostedTags',
           \A m \in unexpected' : m.tag = HEARTBEAT /\ ~env.monitored
    PROVE  Always'
  <2> USE <1>RunAlways
  <2>1. \A u \in Sides : wire'[u] \in Seq(Bound(u, env.monitored) \X Nat)
    BY DEF Always, Sorted
  <2> QED BY <2>1, RunMoves

\* A message on a reserved tag changes neither the line nor the queue.
<1>SentAside.
    ASSUME NEW s \in Sides, NEW m, m.tag \in Nat, m.tag < DYNAMIC, SentOn(s, m)
    PROVE  /\ Same(Line(s), Line(s)', EndTag)
           /\ Same(peer[s].send_queue, peer'[s].send_queue, TagOf)
  <2> USE <1>SentAside
  <2>1. \A x, f : Same(x, x, f)
    BY DEF Same
  <2>2. CASE peer[s].send_queue = peer'[s].send_queue /\ Gains(Line(s), Line(s)', EndTag, m.tag)
    BY <2>1, <2>2, SameTags
  <2>3. CASE peer[s].send_queue = peer'[s].send_queue /\ Line(s)' = Line(s)
    BY <2>1, <2>3
  <2>4. CASE /\ Gains(peer[s].send_queue, peer'[s].send_queue, TagOf, m.tag)
             /\ Line(s)' = Line(s)
    BY <2>1, <2>4, SameTags
  <2> QED BY <2>2, <2>3, <2>4 DEF SentOn

\* A message on a reserved tag is sent.
<1>AsideExact.
    ASSUME IInv, Always, Exact, NEW s \in Sides, NEW m \in Bound(Other(s), env.monitored),
           m.tag < DYNAMIC, peer[s].sd \/ s = "server",
           peer' = [peer EXCEPT ![s] = Queued(@, m)],
           UNCHANGED <<wire, handled, held, tag, posted, order, stray>>,
           Same(events["server"], events'["server"], KindTag("process_msg")),
           Same(events["server"], events'["server"], KindTag("reply")),
           Same(events["client"], events'["client"], KindTag("process_msg"))
    PROVE  Exact'
  <2> USE <1>AsideExact
  <2> DEFINE mon == env.monitored
  <2>1. /\ Sorted(mon) /\ peer \in [Sides -> Peers] /\ Writing(peer[s])
        /\ StreamTo("client") /\ StreamTo("server")
    BY SidesLemma DEF Always, IInv, Transit, Exact
  <2>2. StreamTo("client")' /\ StreamTo("server")'
    BY <2>1, <1>QueuedStream
  <2>3. /\ SentOn(s, m) /\ Line(Other(s))' = Line(Other(s))
        /\ \A u \in Sides : peer'[u].sd = peer[u].sd
        /\ peer'[Other(s)] = peer[Other(s)]
    BY <2>1, <1>QueuedLine
  <2>4. m.tag \in Nat
    <3>1. m \in Messages
      BY SidesLemma, BoundLemma
    <3> QED BY <3>1 DEF Messages
  <2>5. /\ Same(Line(s), Line(s)', EndTag)
        /\ Same(peer[s].send_queue, peer'[s].send_queue, TagOf)
    BY <2>3, <2>4, <1>SentAside
  <2>6. CASE s = "client"
    <3>1. Line("server")' = Line("server") /\ peer'["server"] = peer["server"]
      BY <2>3, <2>6 DEF Other
    <3>2. Backward'
      BY <3>1, BackwardKept DEF Same
    <3>3. Forward'
      <4> SUFFICES ASSUME peer["server"].sd
                   PROVE  Flow(Base, events'["server"], KindTag("process_msg"), Line("client")',
                               peer'["client"].send_queue, tag, TRUE)
        BY <2>3, <2>6, SidesLemma DEF Forward, Base
      <4>1. Flow(Base, events["server"], KindTag("process_msg"), Line("client"),
                 peer["client"].send_queue, tag, TRUE)
        <5>1. peer["client"].sd = TRUE
          <6>1. peer["client"].sd \in BOOLEAN
            BY <2>1, SortedTypes, SidesLemma
          <6> QED BY <2>6, <6>1
        <5> QED BY <5>1 DEF Exact, Forward
      <4>2. Base \in Nat /\ Base >= DYNAMIC /\ tag \in Nat
        BY BaseLemma
      <4>3. Flow(Base, events'["server"], KindTag("process_msg"), Line("client"),
                 peer["client"].send_queue, tag, TRUE)
        BY <4>1, <4>2, FlowEvents
      <4> QED BY <2>5, <2>6, <4>2, <4>3, FlowOther
    <3> QED BY <2>2, <3>2, <3>3 DEF Exact
  <2>7. CASE s = "server"
    <3>1. Line("client")' = Line("client") /\ peer'["client"] = peer["client"]
      BY <2>3, <2>7 DEF Other
    <3>2. Forward'
      BY <2>3, <3>1, SidesLemma, ForwardKept
    <3>3. Backward'
      BY <2>5, <2>7, BackwardKept DEF Same
    <3> QED BY <2>2, <3>2, <3>3 DEF Exact
  <2> QED BY <2>6, <2>7, SidesLemma

\* The event at the head of a queue.
<1>HeadDeed.
    ASSUME IInv, Always, NEW s \in Sides, events[s] # <<>>
    PROVE  LET e == Head(events[s])
           IN  /\ e.ev = "send_recv" => e.body \in Calls /\ s = "client"
               /\ e.ev = "send_oneway" => e.body \in IF s = "client" THEN Beats ELSE Notes
               /\ e.ev = "reply" => e.body \in Bound("client", env.monitored) /\ s = "server"
               /\ e.ev = "process_msg" => e.body \in Bound(s, env.monitored)
  <2> USE <1>HeadDeed
  <2> DEFINE q == events[s]
             e == Head(q)
  <2>1. q \in Seq(Deeds(s, env.monitored))
    BY DEF Always, Sorted
  <2>2. e \in Deeds(s, env.monitored) /\ e = q[1] /\ 1 \in DOMAIN q
    BY <2>1, TailLemma
  <2>3. s = "server" => e.ev # "send_recv"
    BY <2>2 DEF IInv, Asked
  <2> HIDE DEF e
  <2>4. /\ e.ev = "send_recv" => e.body \in Calls
        /\ e.ev = "send_oneway" => e.body \in IF s = "client" THEN Beats ELSE Notes
        /\ e.ev = "reply" => e.body \in Bound("client", env.monitored) /\ s = "server"
        /\ e.ev = "process_msg" => e.body \in Bound(s, env.monitored)
    BY <2>2 DEF Deeds
  <2> QED BY <2>3, <2>4, SidesLemma DEF e

\* A message is sent by the event of a progress thread.
<1>SentAlways.
    ASSUME IInv, Always, NEW s \in Sides, NEW m \in Bound(Other(s), env.monitored),
           events[s] # <<>>, events' = [events EXCEPT ![s] = Tail(@)],
           peer' = [peer EXCEPT ![s] = Queued(@, m)],
           UNCHANGED <<env, wire, held, unexpected>>, NOTIFY \in PostedTags'
    PROVE  Always'
  <2> USE <1>SentAlways
  <2> DEFINE mon == env.monitored
             u == Other(s)
  <2>1. /\ Sorted(mon) /\ \A v \in Sides : Writing(peer[v])
        /\ peer \in [Sides -> Peers] /\ held \subseteq Bound("client", mon)
        /\ \A n \in unexpected : n.tag = HEARTBEAT /\ ~mon
    BY AlwaysParts DEF IInv, Transit
  <2>2. /\ \A v \in Sides : peer'[v] \in Loads(v, mon) /\ peer'[v].sd = peer[v].sd
        /\ peer'[u] = peer[u] /\ Writing(peer'[s])
    BY <2>1, <1>QueuedLine
  <2>3. \A v \in Sides : v = s \/ v = u
    BY SidesLemma DEF Other
  <2>4. \A v \in Sides : Writing(peer'[v])
    BY <2>1, <2>2, <2>3
  <2> QED BY <2>1, <2>2, <2>4, <1>RunAlways

\* An event that comes to nothing.
<1>IdlePipe.
    ASSUME IInv, Always, NEW s \in Sides, events[s] # <<>>,
           events' = [events EXCEPT ![s] = Tail(@)], Head(events[s]).ev # "process_msg",
           UNCHANGED <<env, wire, peer, held, unexpected, posted, handled, tag, order, stray>>
    PROVE  Always' /\ (Exact => Exact')
  <2> USE <1>IdlePipe
  <2>1. PostedTags' = PostedTags
    BY DEF PostedTags
  <2>2. Always'
    BY <2>1, AlwaysParts, <1>RunAlways
  <2>3. ASSUME Exact PROVE Exact'
    <3>1. Same(events["client"], events'["client"], KindTag("process_msg"))
      BY RunEvents, SidesLemma
    <3>2. Same(events["server"], events'["server"], KindTag("process_msg"))
      BY RunEvents, SidesLemma
    <3>3. CASE s = "server" /\ Head(events[s]).ev = "reply"
      <4>1. Loses(events["server"], events'["server"], KindTag("reply"),
                  Head(events["server"]).body.tag)
        BY <3>3, RunEvents
      <4>2. /\ Dynamic(events'["server"], KindTag("reply"))
                  \subseteq Dynamic(events["server"], KindTag("reply"))
            /\ Distinct(events["server"], KindTag("reply"))
                  => Distinct(events'["server"], KindTag("reply"))
        <5>1. Head(events["server"]).body.tag \in Nat
          <6>1. Head(events["server"]).body \in Messages
            BY <3>3, <1>HeadDeed, SidesLemma, BoundLemma
          <6> QED BY <6>1 DEF Messages
        <5>2. Head(events["server"]).body.tag < DYNAMIC \/ Head(events["server"]).body.tag >= DYNAMIC
          BY <5>1, SMT DEF DYNAMIC
        <5> QED BY <4>1, <5>2 DEF Loses
      <4>3. Line("client")' = Line("client") /\ Line("server")' = Line("server")
        BY DEF Line, Unsent
      <4>4. Backward'
        BY <2>3, <3>1, <4>2, <4>3, BackwardKept DEF Same
      <4>5. Forward'
        BY <2>3, <3>2, <4>3, ForwardKept
      <4>6. StreamTo("client")' /\ StreamTo("server")'
        BY <2>3 DEF Exact, StreamTo, Line, Unsent
      <4> QED BY <2>3, <4>4, <4>5, <4>6 DEF Exact
    <3>4. CASE ~(s = "server" /\ Head(events[s]).ev = "reply")
      <4>1. Same(events["server"], events'["server"], KindTag("reply"))
        BY <3>4, RunEvents, SidesLemma
      <4> QED BY <2>3, <3>1, <3>2, <4>1, <1>ExactEvents
    <3> QED BY <3>3, <3>4
  <2> QED BY <2>2, <2>3

\* A message without an answer is sent.
<1>OnewayPipe.
    ASSUME Setting, IInv, Always, NEW s \in Sides, NextEvent(s, "send_oneway"),
           pmix_ptl_base_send(s, Head(events[s]).body),
           events' = [events EXCEPT ![s] = Tail(@)],
           UNCHANGED <<env, wire, held, unexpected, posted, handled, tag, order, stray>>
    PROVE  Always' /\ (Exact => Exact')
  <2> USE <1>OnewayPipe
  <2> DEFINE x == Head(events[s]).body
  <2>1. events[s] # <<>> /\ Head(events[s]).ev = "send_oneway"
    BY DEF NextEvent
  <2>2. CASE ~peer[s].sd
    <3>1. UNCHANGED peer
      BY <2>2 DEF pmix_ptl_base_send
    <3> QED BY <2>1, <3>1, <1>IdlePipe
  <2>3. CASE peer[s].sd
    <3> DEFINE m == IF x \in Beats THEN Message(HEARTBEAT, x, 0) ELSE Message(NOTIFY, x, 1)
    <3>1. peer' = [peer EXCEPT ![s] = Queued(@, m)]
      BY <2>3 DEF pmix_ptl_base_send
    <3>2. x \in IF s = "client" THEN Beats ELSE Notes
      BY <2>1, <1>HeadDeed
    <3> HIDE DEF x
    <3>3. m \in Bound(Other(s), env.monitored) /\ m.tag < DYNAMIC
      <4>1. CASE s = "client"
        <5>1. m = Message(HEARTBEAT, x, 0)
          BY <3>2, <4>1
        <5> QED BY <3>2, <4>1, <5>1, SMT DEF Message, Bound, Messages, Other, HEARTBEAT, NOTIFY, DYNAMIC
      <4>2. CASE s = "server"
        <5>1. m = Message(NOTIFY, x, 1)
          BY <3>2, <4>2 DEF Setting
        <5> QED BY <3>2, <4>2, <5>1, SMT DEF Message, Bound, Messages, Other, HEARTBEAT, NOTIFY, DYNAMIC
      <4> QED BY <4>1, <4>2, SidesLemma
    <3> HIDE DEF m
    <3>4. PostedTags' = PostedTags /\ NOTIFY \in PostedTags
      BY AlwaysParts DEF PostedTags
    <3>5. Always'
      BY <2>1, <3>1, <3>3, <3>4, <1>SentAlways
    <3>6. /\ Same(events["server"], events'["server"], KindTag("process_msg"))
          /\ Same(events["server"], events'["server"], KindTag("reply"))
          /\ Same(events["client"], events'["client"], KindTag("process_msg"))
      BY <2>1, RunEvents, SidesLemma
    <3>7. Exact => Exact'
      BY <2>3, <3>1, <3>3, <3>6, <1>AsideExact
    <3> QED BY <3>5, <3>7
  <2> QED BY <2>2, <2>3

\* An answer is sent.
<1>ReplyPipe.
    ASSUME IInv, Always, NEW s \in Sides, NextEvent(s, "reply"),
           QueueReply(Head(events[s]).body),
           events' = [events EXCEPT ![s] = Tail(@)],
           UNCHANGED <<env, wire, held, unexpected, posted, handled, tag, order, stray>>
    PROVE  Always' /\ (Exact => Exact')
  <2> USE <1>ReplyPipe
  <2> DEFINE m == Head(events["server"]).body
  <2>1. /\ s = "server" /\ events["server"] # <<>> /\ Head(events["server"]).ev = "reply"
        /\ m \in Bound("client", env.monitored)
    BY <1>HeadDeed DEF NextEvent
  <2>2. CASE peer["server"].finalized
    <3>1. UNCHANGED peer
      BY <2>2 DEF QueueReply
    <3> QED BY <2>1, <3>1, <1>IdlePipe
  <2>3. CASE ~peer["server"].finalized
    <3>1. /\ peer' = [peer EXCEPT !["server"] = Queued(@, m)]
          /\ m \in Bound(Other("server"), env.monitored)
      BY <2>1, <2>3 DEF QueueReply, Other
    <3>2. m.tag \in Nat
      <4>1. m \in Messages
        BY <2>1, BoundLemma, SidesLemma
      <4> QED BY <4>1 DEF Messages
    <3>3. /\ Same(events["server"], events'["server"], KindTag("process_msg"))
          /\ Same(events["client"], events'["client"], KindTag("process_msg"))
          /\ Loses(events["server"], events'["server"], KindTag("reply"), m.tag)
      BY <2>1, RunEvents, SidesLemma
    <3> HIDE DEF m
    <3>4. PostedTags' = PostedTags /\ NOTIFY \in PostedTags /\ Base' = Base
      BY AlwaysParts DEF PostedTags, Base
    <3>5. Always'
      BY <2>1, <3>1, <3>4, <1>SentAlways, SidesLemma
    <3>6. ASSUME Exact PROVE Exact'
      <4>1. /\ Sorted(env.monitored) /\ peer \in [Sides -> Peers] /\ Writing(peer["server"])
            /\ StreamTo("client") /\ StreamTo("server")
        BY <3>6, SidesLemma DEF Always, IInv, Transit, Exact
      <4>2. StreamTo("client")' /\ StreamTo("server")'
        BY <3>1, <4>1, SidesLemma, <1>QueuedStream
      <4>3. /\ SentOn("server", m) /\ Line(Other("server"))' = Line(Other("server"))
            /\ \A u \in Sides : peer'[u].sd = peer[u].sd
            /\ peer'[Other("server")] = peer[Other("server")]
        BY <3>1, <4>1, SidesLemma, <1>QueuedLine
      <4>4. Line("client")' = Line("client") /\ peer'["client"] = peer["client"]
        BY <4>3 DEF Other
      <4>5. Forward'
        BY <3>3, <3>6, <4>3, <4>4, SidesLemma, ForwardKept
      <4>6. Backward'
        <5> DEFINE O == {t \in PostedTags : t <= Base}
                   q == peer["server"].send_queue
                   q2 == peer'["server"].send_queue
        <5>1. /\ Back(held, events["server"], KindTag("reply"), q, Line("server"),
                      events["client"], KindTag("process_msg"), O)
              /\ \A k \in Base + 1 .. tag : k \in PostedTags
          BY <3>6 DEF Exact, Backward
        <5> HIDE DEF O
        <5>2. \A x, f : Same(x, x, f)
          BY DEF Same
        <5>3. Back(held, events["server"], KindTag("reply"), q, Line("server"),
                   events'["client"], KindTag("process_msg"), O)
          BY <3>3, <5>1, <5>2, BackLess DEF Same
        <5>4. Back(held, events'["server"], KindTag("reply"), q2, Line("server")',
                   events'["client"], KindTag("process_msg"), O)
          <6>1. CASE q2 = q /\ Gains(Line("server"), Line("server")', EndTag, m.tag)
            BY <3>2, <3>3, <5>3, <6>1, <1>BackDirect
          <6>2. CASE q2 = q /\ Line("server")' = Line("server")
            <7>1. m.tag < DYNAMIC \/ m.tag >= DYNAMIC
              BY <3>2, SMT DEF DYNAMIC
            <7>2. /\ Dynamic(events'["server"], KindTag("reply"))
                        \subseteq Dynamic(events["server"], KindTag("reply"))
                  /\ Distinct(events["server"], KindTag("reply"))
                        => Distinct(events'["server"], KindTag("reply"))
              BY <3>3, <7>1 DEF Loses
            <7> QED BY <5>3, <6>2, <7>2, BackLess
          <6>3. CASE Gains(q, q2, TagOf, m.tag) /\ Line("server")' = Line("server")
            BY <3>2, <3>3, <5>3, <6>3, <1>BackReplied
          <6> QED BY <4>3, <6>1, <6>2, <6>3 DEF SentOn
        <5> QED BY <3>4, <5>1, <5>4 DEF Backward, O
      <4> QED BY <3>6, <4>2, <4>5, <4>6 DEF Exact
    <3> QED BY <3>5, <3>6
  <2> QED BY <2>2, <2>3

\* One more receive at the head of the list.
<1>PrependPosted.
    ASSUME NEW S, posted \in Seq(S), NEW e \in S, posted' = <<e>> \o posted
    PROVE  PostedTags' = PostedTags \cup {e.tag}
  <2> USE <1>PrependPosted
  <2> DEFINE p == posted'
             q == posted
  <2>1. /\ 1 \in DOMAIN p /\ p[1] = e
        /\ \A i \in DOMAIN p : i = 1 \/ (i - 1 \in DOMAIN q /\ p[i] = q[i - 1])
        /\ \A i \in DOMAIN q : i + 1 \in DOMAIN p /\ p[i + 1] = q[i]
    BY SMT
  <2> HIDE DEF p, q
  <2>2. ASSUME NEW i \in DOMAIN p PROVE p[i].tag \in TagsIn(q) \cup {e.tag}
    <3>1. CASE i = 1
      BY <2>1, <3>1
    <3>2. CASE i - 1 \in DOMAIN q /\ p[i] = q[i - 1]
      BY <3>2 DEF TagsIn
    <3> QED BY <2>1, <3>1, <3>2
  <2>3. TagsIn(q) \subseteq TagsIn(p)
    BY <2>1, SMT DEF TagsIn
  <2>4. e.tag \in TagsIn(p)
    BY <2>1, SMT DEF TagsIn
  <2>5. TagsIn(p) = TagsIn(q) \cup {e.tag}
    <3>1. TagsIn(p) \subseteq TagsIn(q) \cup {e.tag}
      BY <2>2 DEF TagsIn
    <3> QED BY <2>3, <2>4, <3>1
  <2> QED BY <2>5 DEF PostedTags, p, q

\* A request is sent on the next tag.
<1>SendRecvPipe.
    ASSUME IInv, Always, IInv', NEW s \in Sides, NextEvent(s, "send_recv"),
           pmix_ptl_base_send_recv(Head(events[s]).body),
           events' = [events EXCEPT ![s] = Tail(@)],
           UNCHANGED <<env, wire, held, unexpected, handled, stray>>
    PROVE  Always' /\ (Exact => Exact')
  <2> USE <1>SendRecvPipe
  <2> DEFINE c == Head(events[s]).body
             mon == env.monitored
  <2>1. events[s] # <<>> /\ Head(events[s]).ev = "send_recv" /\ c \in Calls /\ s = "client"
    BY <1>HeadDeed DEF NextEvent
  <2>2. CASE ~peer["client"].sd
    <3>1. UNCHANGED <<peer, tag, posted, order>>
      BY <2>2 DEF pmix_ptl_base_send_recv
    <3> QED BY <2>1, <3>1, <1>IdlePipe
  <2>3. CASE peer["client"].sd
    <3> DEFINE m == Message(tag', c, 1)
               e == [tag |-> tag', for |-> c]
    <3>1. /\ posted' = <<e>> \o posted /\ order' = Append(order, c)
          /\ peer' = [peer EXCEPT !["client"] = Queued(@, m)]
      BY <2>3 DEF pmix_ptl_base_send_recv
    <3>2. /\ order \in Seq(Calls) /\ tag = DYNAMIC + Len(order) /\ tag' = DYNAMIC + Len(order')
          /\ posted \in Seq([tag : Nat, for : Calls \cup {"notify"}])
      BY DEF IInv, Asked, Receives
    <3>3. /\ tag' = tag + 1 /\ tag \in Nat /\ Len(order') = Len(order) + 1 /\ Len(order) \in Nat
          /\ \A i \in 1 .. Len(order) : order'[i] = order[i]
      <4>1. /\ Len(order') = Len(order) + 1 /\ Len(order) \in Nat
            /\ \A i \in 1 .. Len(order) : order'[i] = order[i]
        BY <2>1, <3>1, <3>2, AppendLemma, SMT
      <4> QED BY <3>2, <4>1, SMT DEF DYNAMIC
    <3>4. m \in Bound("server", mon) /\ m.tag = tag + 1
      <4>1. tag' # NOTIFY /\ tag' \in Nat
        BY <3>2, <3>3, SMT DEF DYNAMIC, NOTIFY
      <4>2. m.tag = tag' /\ m \in Messages
        BY <2>1, <4>1, SMT DEF Message, Messages
      <4> QED BY <3>3, <4>1, <4>2 DEF Bound
    <3>5. PostedTags' = PostedTags \cup {tag + 1}
      <4>1. e \in [tag : Nat, for : Calls \cup {"notify"}] /\ e.tag = tag + 1
        BY <2>1, <3>3, SMT
      <4> HIDE DEF e
      <4>2. PostedTags' = PostedTags \cup {e.tag}
        BY <3>1, <3>2, <4>1, <1>PrependPosted
      <4> QED BY <4>1, <4>2
    <3>6. NOTIFY \in PostedTags'
      BY <3>5, AlwaysParts
    <3> HIDE DEF m, e
    <3>7. m \in Bound(Other("client"), mon)
      BY <3>4 DEF Other
    <3>8. Always'
      BY <2>1, <3>1, <3>6, <3>7, <1>SentAlways
    <3>9. /\ Same(events["client"], events'["client"], KindTag("process_msg"))
          /\ events'["server"] = events["server"]
      BY <2>1, RunEvents, SidesLemma
    <3>10. ASSUME Exact PROVE Exact'
      <4>1. /\ Sorted(mon) /\ peer \in [Sides -> Peers] /\ Writing(peer["client"])
            /\ StreamTo("client") /\ StreamTo("server") /\ peer["client"].sd = TRUE
        <5>1. Sorted(mon) /\ peer["client"].sd \in BOOLEAN
          BY AlwaysParts, SortedTypes, SidesLemma
        <5> QED BY <2>3, <3>10, <5>1, SidesLemma DEF Always, IInv, Transit, Exact
      <4>2. StreamTo("client")' /\ StreamTo("server")'
        BY <3>1, <3>7, <4>1, SidesLemma, <1>QueuedStream
      <4>3. /\ SentOn("client", m) /\ Line(Other("client"))' = Line(Other("client"))
            /\ \A u \in Sides : peer'[u].sd = peer[u].sd
            /\ peer'[Other("client")] = peer[Other("client")]
        BY <3>1, <3>7, <4>1, SidesLemma, <1>QueuedLine
      <4>4. Line("server")' = Line("server") /\ peer'["server"] = peer["server"]
        BY <4>3 DEF Other
      <4>5. Base \in Nat /\ Base >= DYNAMIC /\ Base' = Base
        BY <3>10, BaseLemma DEF Base
      <4>6. Forward'
        <5> DEFINE q == peer["client"].send_queue
                   q2 == peer'["client"].send_queue
        <5> SUFFICES ASSUME peer["server"].sd
                     PROVE  Flow(Base, events["server"], KindTag("process_msg"),
                                 Line("client")', q2, tag + 1, TRUE)
          BY <3>3, <3>9, <4>1, <4>3, <4>5, SidesLemma DEF Forward
        <5>1. Flow(Base, events["server"], KindTag("process_msg"), Line("client"), q, tag, TRUE)
          BY <3>10, <4>1 DEF Exact, Forward
        <5>2. CASE /\ q = <<>> /\ q2 = <<>>
                   /\ Gains(Line("client"), Line("client")', EndTag, m.tag)
          BY <3>3, <3>4, <4>5, <5>1, <5>2, <1>FlowDirect
        <5>3. CASE Gains(q, q2, TagOf, m.tag) /\ Line("client")' = Line("client")
          BY <3>3, <3>4, <4>5, <5>1, <5>3, <1>FlowQueued
        <5> QED BY <4>1, <4>3, <5>2, <5>3 DEF SentOn
      <4>7. Base <= tag
        <5>1. Len(handled) \in 0 .. Len(order)
          BY <3>10 DEF Exact
        <5> QED BY <3>2, <3>3, <5>1, SMT DEF Base, DYNAMIC
      <4>8. Backward'
        <5> DEFINE O == {t \in PostedTags : t <= Base}
        <5>1. /\ Back(held, events["server"], KindTag("reply"), peer["server"].send_queue,
                      Line("server"), events["client"], KindTag("process_msg"), O)
              /\ \A k \in Base + 1 .. tag : k \in PostedTags
          BY <3>10 DEF Exact, Backward
        <5>2. {t \in PostedTags' : t <= Base} = O
          <6>1. ~(tag + 1 <= Base)
            BY <3>3, <4>5, <4>7, SMT
          <6> QED BY <3>5, <6>1
        <5> HIDE DEF O
        <5>3. Back(held, events["server"], KindTag("reply"), peer["server"].send_queue,
                   Line("server"), events'["client"], KindTag("process_msg"), O)
          BY <3>9, <5>1, BackLess DEF Same
        <5>4. \A k \in Base + 1 .. tag + 1 : k \in PostedTags'
          <6>1. \A k \in Base + 1 .. tag + 1 : k = tag + 1 \/ k \in Base + 1 .. tag
            BY <3>3, <4>5, SMT
          <6> QED BY <3>5, <5>1, <6>1
        <5> QED BY <3>3, <3>9, <4>4, <4>5, <5>2, <5>3, <5>4 DEF Backward
      <4>9. Len(handled) \in 0 .. Len(order') /\ handled = SubSeq(order', 1, Len(handled))
        <5> DEFINE n == Len(handled)
        <5>1. n \in 0 .. Len(order) /\ handled = SubSeq(order, 1, n)
          BY <3>10 DEF Exact
        <5> HIDE DEF n
        <5>2. n \in 0 .. Len(order') /\ order' \in Seq(Calls)
          BY <2>1, <3>1, <3>2, <3>3, <5>1, AppendLemma, SMT
        <5>3. /\ SubSeq(order, 1, n) \in Seq(Calls) /\ SubSeq(order', 1, n) \in Seq(Calls)
              /\ Len(SubSeq(order, 1, n)) = n /\ Len(SubSeq(order', 1, n)) = n
              /\ \A i \in 1 .. n : SubSeq(order, 1, n)[i] = order[i]
              /\ \A i \in 1 .. n : SubSeq(order', 1, n)[i] = order'[i]
          BY <3>2, <5>1, <5>2, SMT
        <5>4. \A i \in 1 .. n : SubSeq(order, 1, n)[i] = SubSeq(order', 1, n)[i]
          <6>1. \A i \in 1 .. n : i \in 1 .. Len(order)
            BY <3>3, <5>1, SMT
          <6> QED BY <3>3, <5>3, <6>1
        <5>5. SubSeq(order, 1, n) = SubSeq(order', 1, n)
          BY <5>3, <5>4, SameSeq
        <5> QED BY <5>1, <5>2, <5>5 DEF n
      <4> QED BY <3>10, <4>2, <4>6, <4>8, <4>9 DEF Exact
    <3> QED BY <3>8, <3>10
  <2> QED BY <2>2, <2>3

(* Messages that were read *)
\* The tags of the receives are numbers.
<1>PostedNat.
    ASSUME IInv
    PROVE  \A t \in PostedTags : t \in Nat
  <2> USE <1>PostedNat
  <2> DEFINE S == [tag : Nat, for : Calls \cup {"notify"}]
  <2>1. posted \in Seq(S) /\ \A e \in S : e.tag \in Nat
    BY DEF IInv, Receives
  <2> HIDE DEF S
  <2>2. \A i \in DOMAIN posted : posted[i] \in S
    BY <2>1, SMT
  <2> QED BY <2>1, <2>2 DEF PostedTags, TagsIn

\* The server takes up a request.
<1>TakenPipe.
    ASSUME IInv, Always, NextEvent("server", "process_msg"),
           NEW m \in Mails \cap Bound("server", env.monitored), m.tag # HEARTBEAT,
           Loses(events["server"], events'["server"], KindTag("process_msg"), m.tag),
           handled' = Append(handled, m.body), held' = held \cup {m},
           events' = [events EXCEPT !["server"] = Tail(@)],
           UNCHANGED <<env, wire, peer, unexpected, posted, tag, order, stray>>
    PROVE  Always' /\ (Exact => Exact')
  <2> USE <1>TakenPipe
  <2> DEFINE mon == env.monitored
  <2>1. events["server"] # <<>> /\ Head(events["server"]).ev = "process_msg"
    BY DEF NextEvent
  <2>2. m \in Messages /\ m.tag # NOTIFY
    BY DEF Bound
  <2>3. m.tag \in Nat /\ m.tag >= DYNAMIC
    <3>1. m.tag \in Nat
      BY <2>2 DEF Messages
    <3> QED BY <2>2, <3>1, SMT DEF NOTIFY, HEARTBEAT, DYNAMIC
  <2>4. held' \subseteq Bound("client", mon)
    <3>1. m \in Bound("client", mon)
      BY <2>2 DEF Bound
    <3> QED BY <3>1, AlwaysParts
  <2>5. PostedTags' = PostedTags
    BY DEF PostedTags
  <2>6. Always'
    BY <2>1, <2>4, <2>5, AlwaysParts, <1>RunAlways, SidesLemma
  <2>7. /\ Same(events["server"], events'["server"], KindTag("reply"))
        /\ events'["client"] = events["client"]
    BY <2>1, RunEvents, SidesLemma
  <2>8. ASSUME Exact PROVE Exact'
    <3>1. /\ Base \in Nat /\ Base >= DYNAMIC /\ tag \in Nat /\ Len(handled) \in Nat
          /\ order \in Seq(Calls) /\ tag = DYNAMIC + Len(order)
          /\ Len(handled) \in 0 .. Len(order) /\ handled = SubSeq(order, 1, Len(handled))
      BY <2>8, BaseLemma DEF Exact, IInv, Asked
    <3>2. peer["server"].sd /\ peer["client"].sd \in BOOLEAN
      BY <2>1, AlwaysParts, ReaderHasSocket, SortedTypes, SidesLemma
    <3>3. /\ Line("client")' = Line("client") /\ Line("server")' = Line("server")
          /\ StreamTo("client")' /\ StreamTo("server")'
      BY <2>8 DEF Exact, StreamTo, Line, Unsent
    <3>4. Flow(Base, events["server"], KindTag("process_msg"), Line("client"),
               peer["client"].send_queue, tag, peer["client"].sd)
      BY <2>8, <3>2 DEF Exact, Forward
    <3>5. /\ m.tag = Base + 1
          /\ Flow(Base + 1, events'["server"], KindTag("process_msg"), Line("client"),
                  peer["client"].send_queue, tag, peer["client"].sd)
      <4>1. m.tag >= DYNAMIC =>
               /\ m.tag = Base + 1
               /\ Flow(Base + 1, events'["server"], KindTag("process_msg"), Line("client"),
                       peer["client"].send_queue, tag, peer["client"].sd)
        BY <2>3, <3>1, <3>4, <1>FlowTaken, SMT
      <4> QED BY <2>3, <4>1
    <3>7. PICK k \in DOMAIN order : m.tag = DYNAMIC + k /\ m.body = order[k]
      <4>1. ~(m.tag < DYNAMIC)
        BY <2>3, SMT DEF DYNAMIC
      <4> QED BY <4>1 DEF Mails, Good, IsFor
    <3>8. k = Len(handled) + 1 /\ k \in 1 .. Len(order)
      BY <3>1, <3>5, <3>7, SMT DEF Base, DYNAMIC
    <3>9. /\ Len(handled') = Len(handled) + 1 /\ Len(handled') \in 0 .. Len(order)
          /\ handled' = SubSeq(order, 1, Len(handled'))
      <4> DEFINE n == Len(handled)
                 x == SubSeq(order, 1, n + 1)
      <4>1. n \in Nat /\ n + 1 \in 1 .. Len(order)
        BY <3>1, <3>8, SMT
      <4>2. /\ handled \in Seq(Calls) /\ order[n + 1] \in Calls
            /\ \A i \in 1 .. n : handled[i] = order[i]
        BY <3>1, <4>1, SMT
      <4> HIDE DEF n
      <4>3. x \in Seq(Calls) /\ Len(x) = n + 1 /\ \A i \in 1 .. n + 1 : x[i] = order[i]
        BY <3>1, <4>1, SMT
      <4>4. handled' = Append(handled, order[n + 1])
        BY <3>7, <3>8 DEF n
      <4> HIDE DEF x
      <4>5. /\ handled' \in Seq(Calls) /\ Len(handled') = n + 1
            /\ handled'[n + 1] = order[n + 1] /\ \A i \in 1 .. n : handled'[i] = order[i]
        <5>1. Len(handled) = n /\ DOMAIN handled = 1 .. n
          BY <4>2, SMT DEF n
        <5> DEFINE c == order[n + 1]
                   h == handled'
        <5>2. c \in Calls /\ h = Append(handled, c)
          BY <4>2, <4>4
        <5> HIDE DEF c, h
        <5>3. /\ h \in Seq(Calls) /\ Len(h) = n + 1 /\ h[n + 1] = c
              /\ \A i \in 1 .. n : h[i] = handled[i]
          BY <4>2, <5>1, <5>2, AppendLemma, SMT
        <5> QED BY <4>2, <5>3 DEF c, h
      <4>6. \A i \in 1 .. n + 1 : handled'[i] = x[i]
        <5>1. \A i \in 1 .. n + 1 : i = n + 1 \/ i \in 1 .. n
          BY <4>1, SMT
        <5> QED BY <4>3, <4>5, <5>1
      <4>7. handled' = x
        BY <4>3, <4>5, <4>6, SameSeq
      <4>8. n + 1 \in 0 .. Len(order)
        BY <3>1, <4>1, SMT
      <4> QED BY <4>5, <4>7, <4>8 DEF n, x
    <3>10. Base' = Base + 1
      BY <3>1, <3>9, SMT DEF Base, DYNAMIC
    <3>11. Forward'
      BY <3>3, <3>5, <3>10 DEF Forward
    <3>12. Backward'
      <4> DEFINE O == {t \in PostedTags : t <= Base}
      <4>1. /\ Back(held, events["server"], KindTag("reply"), peer["server"].send_queue,
                    Line("server"), events["client"], KindTag("process_msg"), O)
            /\ \A j \in Base + 1 .. tag : j \in PostedTags
        BY <2>8 DEF Exact, Backward
      <4>2. /\ m.tag \notin O /\ m.tag \in Base + 1 .. tag
            /\ \A j \in Base + 1 + 1 .. tag : j \in Base + 1 .. tag
        <5>1. ~(m.tag <= Base)
          BY <3>1, <3>5, SMT
        <5>2. m.tag <= tag
          BY <3>1, <3>7, <3>8, SMT DEF DYNAMIC
        <5>3. m.tag \in Base + 1 .. tag /\ \A j \in Base + 1 + 1 .. tag : j \in Base + 1 .. tag
          BY <3>1, <3>5, <5>2, SMT
        <5> QED BY <5>1, <5>3
      <4>3. {t \in PostedTags : t <= Base + 1} = O \cup {m.tag}
        <5>1. m.tag \in PostedTags /\ m.tag <= Base + 1
          BY <3>1, <3>5, <4>1, <4>2, SMT
        <5>2. \A t \in PostedTags : t \in Nat
          BY <1>PostedNat
        <5>3. \A t \in Nat : t <= Base + 1 <=> t <= Base \/ t = Base + 1
          BY <3>1, SMT
        <5> QED BY <3>5, <5>1, <5>2, <5>3
      <4> HIDE DEF O
      <4>4. Back(held, events'["server"], KindTag("reply"), peer["server"].send_queue,
                 Line("server"), events["client"], KindTag("process_msg"), O)
        BY <2>7, <4>1, BackLess DEF Same
      <4>5. Back(held \cup {m}, events'["server"], KindTag("reply"), peer["server"].send_queue,
                 Line("server"), events["client"], KindTag("process_msg"), O \cup {m.tag})
        BY <2>3, <4>2, <4>4, <1>BackHeld
      <4> QED BY <2>5, <2>7, <3>3, <3>10, <4>1, <4>2, <4>3, <4>5 DEF Backward
    <3> QED BY <2>8, <3>3, <3>9, <3>11, <3>12 DEF Exact
  <2> QED BY <2>6, <2>8

\* The server processes a message.
<1>ServerMessagePipe.
    ASSUME IInv, Always, NextEvent("server", "process_msg"),
           ProcessAtServer(Head(events["server"]).body),
           events' = [events EXCEPT !["server"] = Tail(@)],
           UNCHANGED <<env, wire, tag, order>>
    PROVE  Always' /\ (Exact => Exact')
  <2> USE <1>ServerMessagePipe
  <2> DEFINE m == Head(events["server"]).body
             mon == env.monitored
  <2>1. /\ events["server"] # <<>> /\ Head(events["server"]).ev = "process_msg"
        /\ m \in Bound("server", mon)
    BY <1>HeadDeed, SidesLemma DEF NextEvent
  <2>2. UNCHANGED <<posted, unexpected, stray>>
    BY DEF ProcessAtServer
  <2>3. CASE m.tag # HEARTBEAT
    <3>1. handled' = Append(handled, m.body) /\ held' = held \cup {m} /\ UNCHANGED peer
      BY <2>3 DEF ProcessAtServer
    <3>2. m \in Mails
      <4>1. events["server"] \in Seq(Events)
        BY SidesLemma DEF IInv, Transit
      <4>2. Head(events["server"]) \in Events
        BY <2>1, <4>1, TailLemma
      <4> QED BY <2>1, <4>2, EventKinds
    <3>3. Loses(events["server"], events'["server"], KindTag("process_msg"), m.tag)
      BY <2>1, RunEvents, SidesLemma
    <3>4. m \in Mails \cap Bound("server", mon)
      BY <2>1, <3>2
    <3> HIDE DEF m
    <3> QED BY <2>2, <2>3, <3>1, <3>3, <3>4, <1>TakenPipe
  <2>4. CASE m.tag = HEARTBEAT
    <3>1. UNCHANGED <<handled, held>>
      BY <2>4 DEF ProcessAtServer
    <3>2. m.tag \in Nat /\ m.tag < DYNAMIC
      BY <2>4, SMT DEF HEARTBEAT, DYNAMIC
    <3>3. Loses(events["server"], events'["server"], KindTag("process_msg"), m.tag)
      BY <2>1, RunEvents, SidesLemma
    <3>4. /\ Same(events["server"], events'["server"], KindTag("process_msg"))
          /\ Same(events["server"], events'["server"], KindTag("reply"))
          /\ Same(events["client"], events'["client"], KindTag("process_msg"))
      BY <2>1, <3>2, <3>3, RunEvents, SameTags, SidesLemma
    <3>5. PostedTags' = PostedTags
      BY <2>2 DEF PostedTags
    <3>6. CASE UNCHANGED peer
      <4>1. Always'
        BY <2>1, <2>2, <3>1, <3>5, <3>6, AlwaysParts, <1>RunAlways, SidesLemma
      <4>2. Exact => Exact'
        BY <2>2, <3>1, <3>4, <3>6, <1>ExactEvents
      <4> QED BY <4>1, <4>2
    <3>7. CASE ~mon /\ peer' = [peer EXCEPT !["server"] = Queued(@, [m EXCEPT !.nbytes = 1])]
      <4> DEFINE n == [m EXCEPT !.nbytes = 1]
      <4>1. n \in Bound(Other("server"), mon) /\ n.tag = m.tag
        <5>1. m \in Messages
          BY <2>1, BoundLemma, SidesLemma
        <5>2. n \in Messages /\ n.tag = m.tag
          BY <5>1, SMT DEF Messages
        <5> QED BY <3>7, <5>2 DEF Bound, Other
      <4>2. peer' = [peer EXCEPT !["server"] = Queued(@, n)]
        BY <3>7
      <4> HIDE DEF n
      <4>3. Always'
        BY <2>1, <2>2, <3>1, <3>5, <4>1, <4>2, AlwaysParts, <1>SentAlways, SidesLemma
      <4>4. Exact => Exact'
        BY <2>2, <3>1, <3>2, <3>4, <4>1, <4>2, <1>AsideExact, SidesLemma
      <4> QED BY <4>3, <4>4
    <3> QED BY <2>4, <3>6, <3>7 DEF ProcessAtServer, QueueReply
  <2> QED BY <2>3, <2>4

\* The elements that stay when one is removed.
<1>RemoveKeeps.
    ASSUME NEW S, NEW q \in Seq(S), NEW i \in DOMAIN q, NEW k \in DOMAIN q, k # i
    PROVE  \E j \in DOMAIN Without(q, i) : Without(q, i)[j] = q[k]
  <2> USE <1>RemoveKeeps
  <2> DEFINE b == SubSeq(q, 1, i - 1)
             c == SubSeq(q, i + 1, Len(q))
  <2>1. i \in 1 .. Len(q) /\ Len(q) \in Nat /\ k \in 1 .. Len(q)
    BY SMT
  <2>2. b \in Seq(S) /\ Len(b) = i - 1 /\ \A j \in 1 .. i - 1 : b[j] = q[j]
    BY <2>1, SMT
  <2>3. c \in Seq(S) /\ Len(c) = Len(q) - i /\ \A j \in 1 .. Len(q) - i : c[j] = q[i + j]
    BY <2>1, SMT
  <2> HIDE DEF b, c
  <2>4. CASE k < i
    <3>1. k \in DOMAIN (b \o c) /\ (b \o c)[k] = b[k] /\ b[k] = q[k]
      BY <2>1, <2>2, <2>3, <2>4, SMT
    <3> QED BY <3>1 DEF Without, b, c
  <2>5. CASE i < k
    <3>1. k - 1 \in DOMAIN (b \o c) /\ (b \o c)[k - 1] = c[k - i]
      BY <2>1, <2>2, <2>3, <2>5, SMT
    <3>2. k - i \in 1 .. Len(q) - i /\ i + (k - i) = k
      BY <2>1, <2>5, SMT
    <3>3. c[k - i] = q[k]
      BY <2>3, <3>2
    <3> QED BY <3>1, <3>3 DEF Without, b, c
  <2> QED BY <2>1, <2>4, <2>5, SMT

\* The tags without that of a receive that is done.
<1>RemoveTags.
    ASSUME NEW S, NEW q \in Seq(S), NEW i \in DOMAIN q,
           \A k, l \in DOMAIN q : q[k].tag = q[l].tag => k = l
    PROVE  TagsIn(Without(q, i)) = TagsIn(q) \ {q[i].tag}
  <2> USE <1>RemoveTags
  <2> DEFINE w == Without(q, i)
  <2>1. \A j \in DOMAIN w : Skip(i, j) \in DOMAIN q \ {i} /\ w[j] = q[Skip(i, j)]
    BY RemoveLemma, SMT
  <2>2. \A k \in DOMAIN q \ {i} : \E j \in DOMAIN w : w[j] = q[k]
    BY <1>RemoveKeeps
  <2> HIDE DEF w
  <2>3. ASSUME NEW j \in DOMAIN w PROVE w[j].tag \in TagsIn(q) /\ w[j].tag # q[i].tag
    BY <2>1 DEF TagsIn
  <2>4. ASSUME NEW k \in DOMAIN q, q[k].tag # q[i].tag PROVE q[k].tag \in TagsIn(w)
    <3>1. PICK j \in DOMAIN w : w[j] = q[k]
      BY <2>2, <2>4
    <3>2. w[j].tag \in TagsIn(w)
      BY DEF TagsIn
    <3> QED BY <3>1, <3>2
  <2>5. TagsIn(w) \subseteq TagsIn(q) \ {q[i].tag}
    BY <2>3 DEF TagsIn
  <2>6. ASSUME NEW t \in TagsIn(q) \ {q[i].tag} PROVE t \in TagsIn(w)
    <3>1. PICK k \in DOMAIN q : t = q[k].tag
      BY DEF TagsIn
    <3> QED BY <2>4, <3>1
  <2> QED BY <2>5, <2>6 DEF w

\* The receives after a message is processed at the client.
<1>ClientTags.
    ASSUME IInv, Always, NEW m \in Bound("client", env.monitored), ProcessAtClient(m)
    PROVE  /\ m.tag >= DYNAMIC /\ m.tag \in PostedTags =>
                 PostedTags' = PostedTags \ {m.tag} /\ UNCHANGED <<stray, unexpected>>
           /\ m.tag >= DYNAMIC /\ m.tag \notin PostedTags =>
                 PostedTags' = PostedTags /\ UNCHANGED unexpected
           /\ m.tag < DYNAMIC =>
                 /\ PostedTags' = PostedTags /\ UNCHANGED stray
                 /\ unexpected' = unexpected
                       \/ (unexpected' = unexpected \cup {m} /\ m.tag = HEARTBEAT /\ ~env.monitored)
  <2> USE <1>ClientTags
  <2> DEFINE i == FirstMatch(m)
  <2>1. Matches(m) # {} <=> m.tag \in PostedTags
    BY DEF Matches, PostedTags, TagsIn
  <2>2. /\ posted \in Seq([tag : Nat, for : Calls \cup {"notify"}])
        /\ \A k, l \in DOMAIN posted : posted[k].tag = posted[l].tag => k = l
    BY DEF IInv, Receives
  <2>3. m \in Messages /\ (env.monitored => m.tag # HEARTBEAT)
    BY DEF Bound
  <2>4. m.tag \in Nat
    BY <2>3 DEF Messages
  <2>5. /\ m.tag < DYNAMIC => m.tag = NOTIFY \/ m.tag = HEARTBEAT
        /\ m.tag >= DYNAMIC <=> ~(m.tag < DYNAMIC)
    BY <2>4, SMT DEF DYNAMIC, NOTIFY, HEARTBEAT
  <2>6. NOTIFY \in PostedTags
    BY AlwaysParts
  <2>7. CASE m.tag \in PostedTags
    <3>1. i \in DOMAIN posted /\ posted[i].tag = m.tag
      BY <2>1, <2>7, TheMatch
    <3>2. posted' = RecvDone(i) /\ UNCHANGED <<unexpected, stray>>
      BY <2>1, <2>7 DEF ProcessAtClient
    <3> HIDE DEF i
    <3>3. CASE m.tag < DYNAMIC
      <4>1. posted' = posted
        BY <3>1, <3>2, <3>3 DEF RecvDone
      <4>2. PostedTags' = PostedTags
        BY <4>1 DEF PostedTags
      <4> QED BY <2>5, <3>2, <3>3, <4>2
    <3>4. CASE ~(m.tag < DYNAMIC)
      <4>1. posted' = Without(posted, i)
        BY <3>1, <3>2, <3>4 DEF RecvDone, Without
      <4>2. TagsIn(Without(posted, i)) = TagsIn(posted) \ {m.tag}
        BY <2>2, <3>1, <1>RemoveTags
      <4>3. PostedTags' = PostedTags \ {m.tag}
        BY <4>1, <4>2 DEF PostedTags
      <4> QED BY <2>7, <3>2, <3>4, <4>3
    <3> QED BY <3>3, <3>4
  <2>8. CASE m.tag \notin PostedTags
    <3>1. CASE m.tag >= DYNAMIC
      <4>1. UNCHANGED <<posted, unexpected>>
        BY <2>1, <2>8, <3>1 DEF ProcessAtClient
      <4>2. PostedTags' = PostedTags
        BY <4>1 DEF PostedTags
      <4> QED BY <2>5, <2>8, <3>1, <4>1, <4>2
    <3>2. CASE ~(m.tag >= DYNAMIC)
      <4>1. unexpected' = unexpected \cup {m} /\ UNCHANGED <<posted, stray>>
        BY <2>1, <2>8, <3>2 DEF ProcessAtClient
      <4>2. PostedTags' = PostedTags
        BY <4>1 DEF PostedTags
      <4>3. m.tag = HEARTBEAT /\ ~env.monitored
        BY <2>3, <2>5, <2>6, <2>8, <3>2
      <4> QED BY <3>2, <4>1, <4>2, <4>3
    <3> QED BY <3>1, <3>2
  <2> QED BY <2>7, <2>8

\* The client processes a message.
<1>ClientMessagePipe.
    ASSUME IInv, Always, NextEvent("client", "process_msg"),
           ProcessAtClient(Head(events["client"]).body),
           events' = [events EXCEPT !["client"] = Tail(@)],
           UNCHANGED <<env, wire, tag, order>>
    PROVE  Always' /\ (Exact => Exact')
  <2> USE <1>ClientMessagePipe
  <2> DEFINE m == Head(events["client"]).body
             mon == env.monitored
  <2>1. /\ events["client"] # <<>> /\ Head(events["client"]).ev = "process_msg"
        /\ m \in Bound("client", mon)
    BY <1>HeadDeed, SidesLemma DEF NextEvent
  <2>2. m.tag \in Nat
    <3>1. m \in Messages
      BY <2>1, BoundLemma, SidesLemma
    <3> QED BY <3>1 DEF Messages
  <2>3. UNCHANGED <<peer, handled, held>>
    BY DEF ProcessAtClient
  <2>4. /\ m.tag >= DYNAMIC /\ m.tag \in PostedTags =>
              PostedTags' = PostedTags \ {m.tag} /\ UNCHANGED <<stray, unexpected>>
        /\ m.tag >= DYNAMIC /\ m.tag \notin PostedTags =>
              PostedTags' = PostedTags /\ UNCHANGED unexpected
        /\ m.tag < DYNAMIC =>
              /\ PostedTags' = PostedTags /\ UNCHANGED stray
              /\ unexpected' = unexpected
                    \/ (unexpected' = unexpected \cup {m} /\ m.tag = HEARTBEAT /\ ~mon)
    BY <2>1, <1>ClientTags
  <2>5. /\ Loses(events["client"], events'["client"], KindTag("process_msg"), m.tag)
        /\ events'["server"] = events["server"]
    BY <2>1, RunEvents, SidesLemma
  <2> HIDE DEF m
  <2>6. /\ m.tag < DYNAMIC \/ m.tag >= DYNAMIC
        /\ m.tag >= DYNAMIC => m.tag # NOTIFY
    BY <2>2, SMT DEF DYNAMIC, NOTIFY
  <2>7. NOTIFY \in PostedTags'
    BY <2>4, <2>6, AlwaysParts
  <2>8. \A n \in unexpected' : n.tag = HEARTBEAT /\ ~mon
    BY <2>4, <2>6, AlwaysParts
  <2>9. Always'
    BY <2>1, <2>3, <2>7, <2>8, AlwaysParts, <1>RunAlways, SidesLemma
  <2>10. ASSUME Exact PROVE Exact'
    <3>1. /\ Line("client")' = Line("client") /\ Line("server")' = Line("server")
          /\ StreamTo("client")' /\ StreamTo("server")'
      BY <2>3, <2>10 DEF Exact, StreamTo, Line, Unsent
    <3>2. Base' = Base /\ Base \in Nat /\ tag \in Nat
      BY <2>3, <2>10, BaseLemma DEF Base
    <3>3. Forward'
      BY <2>3, <2>5, <2>10, <3>1, <3>2 DEF Exact, Forward
    <3> DEFINE O == {t \in PostedTags : t <= Base}
    <3>4. /\ Back(held, events["server"], KindTag("reply"), peer["server"].send_queue,
                  Line("server"), events["client"], KindTag("process_msg"), O)
          /\ \A k \in Base + 1 .. tag : k \in PostedTags
      BY <2>10 DEF Exact, Backward
    <3> HIDE DEF O
    <3>5. /\ m.tag < DYNAMIC =>
                Back(held, events["server"], KindTag("reply"), peer["server"].send_queue,
                     Line("server"), events'["client"], KindTag("process_msg"), O)
          /\ m.tag >= DYNAMIC =>
                /\ m.tag \in O
                /\ Back(held, events["server"], KindTag("reply"), peer["server"].send_queue,
                        Line("server"), events'["client"], KindTag("process_msg"), O \ {m.tag})
      <4> DEFINE cev == events["client"]
                 cev2 == events'["client"]
                 sev == events["server"]
                 line == Line("server")
                 q == peer["server"].send_queue
                 g == KindTag("process_msg")
                 f == KindTag("reply")
                 t == m.tag
      <4>1. t \in Nat /\ Loses(cev, cev2, g, t) /\ Back(held, sev, f, q, line, cev, g, O)
        BY <2>2, <2>5, <3>4
      <4> HIDE DEF cev, cev2, sev, line, q, g, f, t
      <4>2. /\ t < DYNAMIC => Back(held, sev, f, q, line, cev2, g, O)
            /\ t >= DYNAMIC => t \in O /\ Back(held, sev, f, q, line, cev2, g, O \ {t})
        BY <4>1, <1>BackDone
      <4> QED BY <4>2 DEF cev, cev2, sev, line, q, g, f, t
    <3>6. CASE m.tag < DYNAMIC
      <4>1. PostedTags' = PostedTags /\ UNCHANGED stray
        BY <2>4, <3>6
      <4>2. Backward'
        BY <2>3, <2>5, <3>1, <3>2, <3>4, <3>5, <3>6, <4>1 DEF Backward, O
      <4> QED BY <2>3, <2>10, <3>1, <3>3, <4>1, <4>2 DEF Exact
    <3>7. CASE m.tag >= DYNAMIC
      <4>1. m.tag \in PostedTags /\ m.tag <= Base
        BY <3>5, <3>7 DEF O
      <4>2. PostedTags' = PostedTags \ {m.tag} /\ UNCHANGED stray
        BY <2>4, <3>7, <4>1
      <4>3. {t \in PostedTags' : t <= Base} = O \ {m.tag}
        BY <4>2 DEF O
      <4>4. \A k \in Base + 1 .. tag : k \in PostedTags'
        <5>1. \A k \in Base + 1 .. tag : k # m.tag
          BY <2>2, <3>2, <4>1, SMT
        <5> QED BY <3>4, <4>2, <5>1
      <4>5. Backward'
        BY <2>3, <2>5, <3>1, <3>2, <3>5, <3>7, <4>3, <4>4 DEF Backward
      <4> QED BY <2>3, <2>10, <3>1, <3>3, <4>2, <4>5 DEF Exact
    <3> QED BY <2>6, <3>6, <3>7
  <2> QED BY <2>9, <2>10

(* The end of a connection *)
\* An event of a progress thread runs.
<1>RunEventPipe.
    ASSUME Setting, IInv, Always, IInv', NEW s \in Sides, RunEvent(s)
    PROVE  Always' /\ (Exact => Exact')
  <2> USE <1>RunEventPipe
  <2>1. events' = [events EXCEPT ![s] = Tail(@)] /\ UNCHANGED <<env, wire>>
    BY DEF RunEvent
  <2> DEFINE x == Head(events[s]).body
  <2>2. CASE /\ NextEvent(s, "send_recv") /\ pmix_ptl_base_send_recv(x)
             /\ UNCHANGED <<held, unexpected, handled, stray>>
    BY <2>1, <2>2, <1>SendRecvPipe
  <2>3. CASE /\ NextEvent(s, "send_oneway") /\ pmix_ptl_base_send(s, x)
             /\ UNCHANGED <<held, unexpected, posted, handled, tag, order, stray>>
    BY <2>1, <2>3, <1>OnewayPipe
  <2>4. CASE /\ NextEvent(s, "reply") /\ QueueReply(x)
             /\ UNCHANGED <<held, unexpected, posted, handled, tag, order, stray>>
    BY <2>1, <2>4, <1>ReplyPipe
  <2>5. CASE /\ NextEvent(s, "process_msg")
             /\ IF s = "client" THEN ProcessAtClient(x) ELSE ProcessAtServer(x)
             /\ UNCHANGED <<tag, order>>
    <3>1. CASE s = "client"
      BY <2>1, <2>5, <3>1, <1>ClientMessagePipe
    <3>2. CASE s = "server"
      BY <2>1, <2>5, <3>2, <1>ServerMessagePipe
    <3> QED BY <3>1, <3>2, SidesLemma
  <2> QED BY <2>2, <2>3, <2>4, <2>5 DEF RunEvent
<1> QED
  <2> SUFFICES ASSUME Setting, IInv, IInv', Always
               PROVE  /\ \A c \in Calls :
                            Call(c) \/ Answer(c) => Always' /\ (Exact => Exact')
                      /\ \A s \in Sides : \A x \in Beats \cup Notes :
                            SendOneway(s, x) => Always' /\ (Exact => Exact')
                      /\ \A s \in Sides :
                            Poll(s) \/ RunEvent(s) => Always' /\ (Exact => Exact')
                      /\ UNCHANGED vars => Always' /\ (Exact => Exact')
    OBVIOUS
  <2>1. ASSUME NEW c \in Calls, Call(c) \/ Answer(c) PROVE Always' /\ (Exact => Exact')
    BY <2>1, <1>CallPipe, <1>AnswerPipe
  <2>2. ASSUME NEW s \in Sides, NEW x \in Beats \cup Notes, SendOneway(s, x)
        PROVE  Always' /\ (Exact => Exact')
    BY <2>2, <1>SendOnewayPipe
  <2>3. ASSUME NEW s \in Sides, Poll(s) \/ RunEvent(s) PROVE Always' /\ (Exact => Exact')
    BY <2>3, <1>PollPipe, <1>RunEventPipe
  <2>4. ASSUME UNCHANGED vars PROVE Always' /\ (Exact => Exact')
    <3>1. /\ env'.monitored = env.monitored
          /\ UNCHANGED <<peer, wire, posted, unexpected, events, held, handled, tag, order, stray>>
      BY <2>4 DEF vars
    <3> QED BY <3>1, <1>Unmoved
  <2> QED BY <2>1, <2>2, <2>3, <2>4

-----------------------------------------------------------------------------
(* Writing *)

\* A write keeps the invariant of the message layer, unless the rest of a header
\* that was cut short is read as a header.
LEMMA WriteSteps ==
    \A s \in Sides :
       /\ IInv /\ Always /\ NextEvent(s, "send") /\ SendHandler(s)
       /\ UNCHANGED <<env, held, unexpected, posted, handled, tag, order>>
       => Always' /\ ("short_hdr" \notin env.faults /\ Exact => Exact')
\* A sequence may be put behind another in two parts.
<1>ConcatSplit.
    ASSUME NEW S, NEW w \in Seq(S), NEW a \in Seq(S), NEW b \in Seq(S),
           NEW c \in Seq(S), NEW x \in Seq(S), c = w \o a, x = a \o b
    PROVE  c \o b = w \o x
  <2> USE <1>ConcatSplit
  <2>1. Len(c) = Len(w) + Len(a) /\ Len(x) = Len(a) + Len(b)
    BY SMT
  <2>2. c \o b \in Seq(S) /\ w \o x \in Seq(S) /\ Len(c \o b) = Len(w \o x)
    BY <2>1, SMT
  <2>3. \A i \in 1 .. Len(c \o b) : (c \o b)[i] = (w \o x)[i]
    BY <2>1, SMT
  <2> QED BY <2>2, <2>3, SameSeq

\* A write moves units from the end of the stream to its front.
<1>StreamWritten.
    ASSUME NEW w \in Seq(Wares), NEW x \in Seq(Wares), Whole(x), Cut(w), NEW k,
           k = Len(x) \/ (k = HdrUnits /\ Len(x) > HdrUnits)
    PROVE  LET a == SubSeq(x, 1, k)
               b == SubSeq(x, k + 1, Len(x))
           IN  /\ a \in Seq(Wares) /\ b \in Seq(Wares)
               /\ Cut(w \o a) /\ Whole(b) /\ (w \o a) \o b = w \o x
               /\ k = Len(x) => b = <<>>
  <2> USE <1>StreamWritten
  <2> DEFINE a == SubSeq(x, 1, k)
             b == SubSeq(x, k + 1, Len(x))
  <2> HIDE DEF Wares
  <2>1. k \in 0 .. Len(x) /\ Len(x) \in Nat
    BY SMT DEF HdrUnits
  <2>2. a \in Seq(Wares) /\ b \in Seq(Wares) /\ Len(a) = k /\ Len(b) = Len(x) - k
    BY <2>1, SMT
  <2>3. a \o b = x
    BY <2>1, PartsLemma
  <2>4. (w \o a) \o b = w \o x
    <3> HIDE DEF a, b
    <3> DEFINE c == w \o a
    <3>1. c \in Seq(Wares) /\ c = w \o a
      BY <2>2, SMT
    <3> HIDE DEF c
    <3>2. c \o b = w \o x
      <4>1. x = a \o b
        BY <2>3
      <4> HIDE <2>3
      <4> QED BY <2>2, <3>1, <4>1, <1>ConcatSplit, SMT
    <3> QED BY <3>2 DEF c
  <2>5. k = Len(x) => b = <<>>
    BY <2>2, SMT
  <2>6. a # <<>> => (w \o a)[Len(w \o a)] = x[k]
    BY <2>1, <2>2, SMT
  <2>7. a = <<>> => w \o a = w
    BY ConcatEmpty
  <2> HIDE DEF a, b
  <2>8. CASE x = <<>>
    <3>1. a = <<>> /\ b = <<>>
      BY <2>1, <2>2, <2>8, SMT
    <3> QED BY <2>2, <2>4, <2>7, <3>1 DEF Cut, Whole, a, b
  <2>9. CASE x # <<>>
    <3> DEFINE m == x[1][1]
    <3>1. x[1] \in Wares
      BY <2>9, SMT
    <3>2. m \in Messages /\ m.nbytes \in {0, 1}
      BY <3>1, WareLemma
    <3>3. x = Units(m) \/ (m.nbytes = 1 /\ x = << <<m, 3>> >>)
      BY <2>9 DEF Whole
    <3> HIDE DEF m
    <3>4. x = Units(m) => /\ Len(x) \in {2, 3} /\ x[2] = <<m, 2>>
                          /\ Len(x) = 3 => x[3] = <<m, 3>> /\ m.nbytes = 1
      <4>1. /\ m.nbytes = 0 => Len(Units(m)) = 2
            /\ m.nbytes = 1 => Len(Units(m)) = 3 /\ Units(m)[3] = <<m, 3>>
            /\ Units(m)[2] = <<m, 2>>
        BY <3>2, UnitsAppended DEF None
      <4>2. CASE m.nbytes = 0
        <5>1. Len(Units(m)) = 2 /\ Units(m)[2] = <<m, 2>> /\ 2 \in {2, 3} /\ 2 # 3
          BY <4>1, <4>2, SMT
        <5> QED BY <5>1
      <4>3. CASE m.nbytes = 1
        <5>1. Len(Units(m)) = 3 /\ 3 \in {2, 3}
          BY <4>1, <4>3, SMT
        <5> QED BY <4>1, <4>3, <5>1
      <4> QED BY <3>2, <4>2, <4>3
    <3>5. x = << <<m, 3>> >> => Len(x) = 1 /\ x[1] = <<m, 3>>
      BY SMT
    <3>6. x[k][2] >= HdrUnits /\ a # <<>>
      BY <2>1, <2>2, <2>9, <3>3, <3>4, <3>5, SMT DEF HdrUnits
    <3>7. Cut(w \o a)
      BY <2>6, <3>6 DEF Cut
    <3>8. Whole(b)
      <4>1. CASE k = Len(x)
        BY <2>5, <4>1 DEF Whole
      <4>2. CASE k # Len(x)
        <5>1. k = 2 /\ Len(x) = 3 /\ x[3] = <<m, 3>> /\ m.nbytes = 1
          BY <3>3, <3>4, <3>5, <4>2, SMT DEF HdrUnits
        <5>2. b = << x[3] >>
          <6>1. b \in Seq(Wares) /\ Len(b) = 1
            BY <2>2, <5>1, SMT
          <6>2. b[1] = x[3]
            BY <5>1, SMT DEF b
          <6>3. b = << b[1] >>
            BY <6>1, SMT
          <6> QED BY <6>2, <6>3
        <5>3. b[1][1] = m
          BY <5>1, <5>2, SMT
        <5> QED BY <5>1, <5>2, <5>3 DEF Whole
      <4> QED BY <4>1, <4>2
    <3> QED BY <2>2, <2>4, <2>5, <3>7, <3>8 DEF a, b
  <2> QED BY <2>8, <2>9

(* Requests on their way to the server *)
\* The head of the queue is put on the line.
<1>FlowNext.
    ASSUME NEW base, NEW ev, NEW f, NEW line, NEW q, NEW last,
           Flow(base, ev, f, line, q, last, TRUE), NEW t, NEW line2,
           Gains(line, line2, EndTag, t), NEW q2, Loses(q, q2, TagOf, t), base \in Nat,
           base >= DYNAMIC, last \in Nat, t \in Nat
    PROVE  Flow(base, ev, f, line2, q2, last, TRUE)
  <2> USE <1>FlowNext
  <2>1. CASE t < DYNAMIC
    BY <2>1, FlowOther, SameTags
  <2>2. CASE t >= DYNAMIC
    <3>1. PICK e \in Nat :
             /\ Carries(ev, f, base, e) /\ Runs(line, EndTag, e)
             /\ \E l \in Nat : Carries(line, EndTag, e, l) /\ Carries(q, TagOf, l, last)
      BY DEF Flow
    <3>2. PICK l \in Nat : Carries(line, EndTag, e, l) /\ Carries(q, TagOf, l, last)
      BY <3>1
    <3>3. e >= DYNAMIC
      BY <3>1, CarriesBounds
    <3>4. l >= DYNAMIC
      BY <3>2, <3>3, CarriesBounds
    <3>5. t = l + 1 /\ Carries(q2, TagOf, l + 1, last)
      BY <2>2, <3>2, <3>4 DEF Loses
    <3>6. Carries(line2, EndTag, e, l + 1)
      BY <3>2, <3>3, <3>5 DEF Gains
    <3>7. Runs(line2, EndTag, e) /\ l + 1 \in Nat
      <4>1. l + 1 \in Nat
        BY SMT
      <4> QED BY <3>6, <4>1 DEF Carries
    <3> QED BY <3>1, <3>5, <3>6, <3>7 DEF Flow
  <2>3. t < DYNAMIC \/ t >= DYNAMIC
    BY SMT DEF DYNAMIC
  <2> QED BY <2>1, <2>2, <2>3

(* Answers on their way to the client *)
\* The head of the queue is put on the line.
<1>BackNext.
    ASSUME NEW hd, NEW sev, NEW f, NEW q, NEW line, NEW cev, NEW g, NEW O,
           Back(hd, sev, f, q, line, cev, g, O), NEW t,
           NEW q2, Loses(q, q2, TagOf, t), NEW line2, Gains(line, line2, EndTag, t), t \in Nat
    PROVE  Back(hd, sev, f, q2, line2, cev, g, O)
  <2> USE <1>BackNext
  <2>1. Apart(HeldTags(hd), Dynamic(sev, f), Dynamic(q, TagOf), Dynamic(line, EndTag),
              Dynamic(cev, g), O)
    BY DEF Back
  <2>2. /\ Distinct(q, TagOf) /\ Distinct(line, EndTag)
        /\ Dynamic(q, TagOf) \cap Dynamic(line, EndTag) = {}
    BY <2>1 DEF Back, Apart
  <2>3. Moved(q2, q, TagOf, line2, line, EndTag)
    BY <2>2, TagMoves
  <2>4. Apart(HeldTags(hd), Dynamic(sev, f), Dynamic(q2, TagOf), Dynamic(line2, EndTag),
              Dynamic(cev, g), O)
    BY <2>1, <2>3, SMT DEF Apart, Moved
  <2> QED BY <2>3, <2>4 DEF Back, Moved

(* Writing *)
\* It goes on with the rest of the message, or the next one.
<1>WroteLoad.
    ASSUME NEW s \in Sides, NEW mon, NEW p \in Loads(s, mon), Writing(p),
           NEW k \in 0 .. Len(p.send_msg)
    PROVE  LET r == WrittenPeer(p, k)
               x == p.send_msg
               q == p.send_queue
           IN  /\ r \in Loads(s, mon) /\ Writing(r)
               /\ r.sd = p.sd /\ r.recv_msg = p.recv_msg
               /\ k < Len(x) => r.send_msg = SubSeq(x, k + 1, Len(x)) /\ r.send_queue = q
               /\ k = Len(x) /\ q = <<>> => r.send_msg = None /\ r.send_queue = q
               /\ k = Len(x) /\ q # <<>> =>
                     r.send_msg = Units(Head(q)) /\ r.send_queue = Tail(q)
  <2> USE <1>WroteLoad
  <2> DEFINE r == WrittenPeer(p, k)
             x == p.send_msg
             q == p.send_queue
             B == Bound(Other(s), mon)
  <2>1. x \in Seq(B \X Nat) /\ q \in Seq(B)
    BY DEF Loads
  <2>2. CASE k < Len(x)
    <3>1. r = [p EXCEPT !.send_msg = SubSeq(x, k + 1, Len(x))]
      BY <2>2 DEF WrittenPeer
    <3>2. SubSeq(x, k + 1, Len(x)) \in Seq(B \X Nat) /\ SubSeq(x, k + 1, Len(x)) # None
      <4> DEFINE W == B \X Nat
      <4>1. x \in Seq(W)
        BY <2>1, SMT
      <4> HIDE DEF W, x
      <4>2. SubSeq(x, k + 1, Len(x)) \in Seq(W) /\ Len(SubSeq(x, k + 1, Len(x))) = Len(x) - k
        BY <2>2, <4>1, SMT DEF x
      <4>3. Len(x) - k # 0
        BY <2>2, <4>1, SMT DEF x
      <4> DEFINE z == SubSeq(x, k + 1, Len(x))
      <4>4. z # <<>>
        <5> HIDE DEF z
        <5>1. z \in Seq(W) /\ Len(z) = Len(x) - k
          BY <4>2 DEF z
        <5>2. Len(z) # 0
          BY <4>3, <5>1
        <5> QED BY <5>2, SMT
      <4> QED BY <4>2, <4>4 DEF W, None
    <3> HIDE DEF r, B
    <3>3. /\ r \in Loads(s, mon) /\ r.sd = p.sd /\ r.recv_msg = p.recv_msg
          /\ r.send_msg = SubSeq(x, k + 1, Len(x)) /\ r.send_queue = q
      BY <3>1, <3>2 DEF Loads, B
    <3>4. Writing(r)
      BY <3>2, <3>3 DEF Writing
    <3>5. k # Len(x)
      BY <2>1, <2>2, SMT
    <3> QED BY <3>3, <3>4, <3>5 DEF r
  <2>3. CASE k = Len(x) /\ q = <<>>
    <3>1. ~(k < Len(x))
      BY <2>1, <2>3, SMT
    <3>2. r = [p EXCEPT !.send_msg = None, !.send_ev = FALSE]
      BY <2>3, <3>1 DEF WrittenPeer
    <3>3. None \in Seq(B \X Nat)
      BY EmptyLemma DEF None
    <3> HIDE DEF r, B
    <3>4. /\ r \in Loads(s, mon) /\ r.sd = p.sd /\ r.recv_msg = p.recv_msg
          /\ r.send_msg = None /\ r.send_queue = q /\ r.send_ev = FALSE
      BY <3>2, <3>3 DEF Loads, B
    <3>5. Writing(r)
      BY <2>3, <3>4 DEF Writing
    <3> QED BY <2>3, <3>1, <3>4, <3>5 DEF r
  <2>4. CASE k = Len(x) /\ q # <<>>
    <3>1. ~(k < Len(x))
      BY <2>1, <2>4, SMT
    <3>2. r = [p EXCEPT !.send_msg = Units(Head(q)), !.send_queue = Tail(q)]
      BY <2>4, <3>1 DEF WrittenPeer
    <3>3. Head(q) \in B /\ Tail(q) \in Seq(B)
      BY <2>1, <2>4, TailLemma
    <3>4. Head(q) \in Messages /\ Head(q).nbytes \in {0, 1}
      <4>1. Head(q) \in Messages
        BY <3>3, SidesLemma, BoundLemma
      <4> QED BY <4>1 DEF Messages
    <3>5. Units(Head(q)) \in Seq(B \X Nat) /\ Units(Head(q)) # None
      <4>1. <<>> \in Seq(Wares)
        BY EmptyLemma
      <4> QED BY <3>3, <3>4, <4>1, UnitsBound, UnitsAppended DEF None
    <3> HIDE DEF r, B
    <3>6. /\ r \in Loads(s, mon) /\ r.sd = p.sd /\ r.recv_msg = p.recv_msg
          /\ r.send_msg = Units(Head(q)) /\ r.send_queue = Tail(q)
      BY <3>2, <3>3, <3>5 DEF Loads, B
    <3>7. Writing(r)
      BY <3>5, <3>6 DEF Writing
    <3> QED BY <2>4, <3>1, <3>6, <3>7 DEF r
  <2>5. k < Len(x) \/ k = Len(x)
    BY <2>1, SMT
  <2> QED BY <2>2, <2>3, <2>4, <2>5

\* Where a write leaves the peers and the wires.
<1>WrotePeers.
    ASSUME IInv, Always, NEW s \in Sides, NEW k \in Written(s), Wrote(s, k)
    PROVE  /\ k \in 0 .. Len(peer[s].send_msg)
           /\ peer'[s] = WrittenPeer(peer[s], k) /\ peer'[Other(s)] = peer[Other(s)]
           /\ wire'[Other(s)] = wire[Other(s)] \o SubSeq(peer[s].send_msg, 1, k)
           /\ wire'[s] = wire[s]
           /\ \A u \in Sides : /\ peer'[u] \in Loads(u, env.monitored) /\ Writing(peer'[u])
                               /\ peer'[u].sd = peer[u].sd
                               /\ wire'[u] \in Seq(Bound(u, env.monitored) \X Nat)
  <2> USE <1>WrotePeers
  <2> DEFINE mon == env.monitored
             u == Other(s)
             x == peer[s].send_msg
  <2>1. u \in Sides /\ u # s /\ \A v \in Sides : v = s \/ v = u
    BY SidesLemma DEF Other
  <2>2. /\ peer \in [Sides -> Peers] /\ wire \in [Sides -> Seq(Parcels)]
        /\ \A v \in Sides : /\ peer[v] \in Loads(v, mon) /\ Writing(peer[v])
                            /\ wire[v] \in Seq(Bound(v, mon) \X Nat)
    BY AlwaysParts DEF IInv, Transit, Sorted
  <2>3. x \in Seq(Bound(u, mon) \X Nat)
    BY <2>2 DEF Loads
  <2>4. k \in 0 .. Len(x)
    BY <2>3, SMT DEF Written, HdrUnits
  <2>5. /\ wire' = [wire EXCEPT ![u] = @ \o SubSeq(x, 1, k)]
        /\ peer' = [peer EXCEPT ![s] = WrittenPeer(@, k)]
    BY DEF Wrote, WrittenPeer
  <2>6. /\ peer'[s] = WrittenPeer(peer[s], k) /\ peer'[u] = peer[u]
        /\ wire'[u] = wire[u] \o SubSeq(x, 1, k) /\ wire'[s] = wire[s]
    BY <2>1, <2>2, <2>5
  <2>7. wire[u] \o SubSeq(x, 1, k) \in Seq(Bound(u, mon) \X Nat)
    <3> DEFINE W == Bound(u, mon) \X Nat
    <3>1. x \in Seq(W) /\ wire[u] \in Seq(W)
      BY <2>1, <2>2, <2>3, SMT
    <3> HIDE DEF W
    <3>2. SubSeq(x, 1, k) \in Seq(W)
      BY <2>4, <3>1, SubSeqLemma, SMT
    <3>3. wire[u] \o SubSeq(x, 1, k) \in Seq(W)
      BY <3>1, <3>2, ConcatLemma
    <3> QED BY <3>3, SMT DEF W
  <2>8. /\ WrittenPeer(peer[s], k) \in Loads(s, mon) /\ Writing(WrittenPeer(peer[s], k))
        /\ WrittenPeer(peer[s], k).sd = peer[s].sd
    <3>1. peer[s] \in Loads(s, mon) /\ Writing(peer[s])
      BY <2>2
    <3> HIDE DEF mon
    <3> QED BY <2>4, <3>1, <1>WroteLoad
  <2>9. \A v \in Sides : /\ peer'[v] \in Loads(v, mon) /\ Writing(peer'[v])
                         /\ peer'[v].sd = peer[v].sd
                         /\ wire'[v] \in Seq(Bound(v, mon) \X Nat)
    BY <2>1, <2>2, <2>6, <2>7, <2>8
  <2> QED BY <2>4, <2>6, <2>9

\* The units on the line after a write that does not cut a header.
<1>WroteLine.
    ASSUME IInv, Always, NEW s \in Sides, NEW k \in Written(s), Wrote(s, k), peer[s].sd,
           "short_hdr" \notin env.faults, Cut(wire[Other(s)]), Whole(peer[s].send_msg)
    PROVE  LET q == peer[s].send_queue
               q2 == peer'[s].send_queue
           IN  /\ Cut(wire'[Other(s)]) /\ Whole(peer'[s].send_msg)
               /\ \/ Line(s)' = Line(s) /\ q2 = q
                  \/ \E h \in Messages : /\ Line(s)' = Line(s) \o Units(h)
                                         /\ Gains(Line(s), Line(s)', EndTag, h.tag)
                                         /\ Loses(q, q2, TagOf, h.tag)
  <2> USE <1>WroteLine
  <2> DEFINE mon == env.monitored
             u == Other(s)
             w == wire[u]
             x == peer[s].send_msg
             q == peer[s].send_queue
             a == SubSeq(x, 1, k)
             b == SubSeq(x, k + 1, Len(x))
             r == WrittenPeer(peer[s], k)
  <2>1. /\ k \in 0 .. Len(x) /\ peer'[s] = r /\ wire'[u] = w \o a
        /\ peer'[s].sd = peer[s].sd
    BY <1>WrotePeers
  <2>2. /\ k < Len(x) => r.send_msg = b /\ r.send_queue = q
        /\ k = Len(x) /\ q = <<>> => r.send_msg = None /\ r.send_queue = q
        /\ k = Len(x) /\ q # <<>> => r.send_msg = Units(Head(q)) /\ r.send_queue = Tail(q)
    <3> DEFINE p == peer[s]
    <3>1. p \in Loads(s, mon) /\ Writing(p) /\ k \in 0 .. Len(p.send_msg)
      BY <2>1, AlwaysParts
    <3> HIDE DEF mon, p
    <3>2. LET y == p.send_msg
              t == p.send_queue
              z == WrittenPeer(p, k)
          IN  /\ k < Len(y) => z.send_msg = SubSeq(y, k + 1, Len(y)) /\ z.send_queue = t
              /\ k = Len(y) /\ t = <<>> => z.send_msg = None /\ z.send_queue = t
              /\ k = Len(y) /\ t # <<>> => z.send_msg = Units(Head(t)) /\ z.send_queue = Tail(t)
      BY <3>1, <1>WroteLoad
    <3> QED BY <3>2 DEF p
  <2>3. w \in Seq(Wares) /\ x \in Seq(Wares) /\ q \in Seq(Messages)
    BY AlwaysParts, SortedTypes, SidesLemma
  <2>4. k = Len(x) \/ (k = HdrUnits /\ Len(x) > HdrUnits)
    BY DEF Written
  <2>5. /\ a \in Seq(Wares) /\ b \in Seq(Wares) /\ Cut(w \o a) /\ Whole(b)
        /\ (w \o a) \o b = w \o x /\ (k = Len(x) => b = <<>>)
    BY <2>3, <2>4, <1>StreamWritten
  <2>6. Line(s) = w \o x /\ Line(s)' = (w \o a) \o r.send_msg
    BY <2>1 DEF Line, Unsent
  <2> HIDE DEF a, b, w, r
  <2>7. CASE k < Len(x) \/ q = <<>>
    <3>1. r.send_msg = b /\ r.send_queue = q
      <4>1. k < Len(x) \/ k = Len(x)
        BY <2>1, <2>3, SMT
      <4> QED BY <2>2, <2>5, <2>7, <4>1 DEF None
    <3> QED BY <2>1, <2>5, <2>6, <3>1
  <2>8. CASE k = Len(x) /\ q # <<>>
    <3> DEFINE h == Head(q)
    <3>1. h \in Messages
      BY <2>3, <2>8, TailLemma
    <3>2. TagOf \in [Messages -> Nat] /\ TagOf[h] = h.tag
      BY <3>1 DEF TagOf, Messages
    <3>3. Loses(q, Tail(q), TagOf, h.tag)
      BY <2>3, <2>8, <3>2, LosesHead
    <3>4. w \o a = w \o x
      <4>1. w \o a \in Seq(Wares)
        BY <2>3, <2>5, ConcatLemma
      <4>2. (w \o a) \o <<>> = w \o a
        BY <4>1, ConcatEmpty
      <4> QED BY <2>5, <2>8, <4>2
    <3>5. w \o x \in Seq(Wares)
      BY <2>3, ConcatLemma DEF w
    <3>6. Gains(w \o x, (w \o x) \o Units(h), EndTag, h.tag)
      BY <3>1, <3>5, LineGains
    <3>7. Line(s)' = Line(s) \o Units(h)
      BY <2>2, <2>6, <2>8, <3>4
    <3>8. Whole(Units(h))
      <4>1. <<>> \in Seq(Wares)
        BY EmptyLemma
      <4>2. Units(h)[1] = <<h, 1>>
        BY <3>1, <4>1, UnitsAppended
      <4>3. Units(h)[1][1] = h
        BY <4>2, SMT
      <4> QED BY <4>3 DEF Whole
    <3>9. Gains(Line(s), Line(s)', EndTag, h.tag) /\ Loses(q, peer'[s].send_queue, TagOf, h.tag)
      BY <2>1, <2>2, <2>6, <2>8, <3>3, <3>6, <3>7
    <3>10. Cut(wire'[u]) /\ Whole(peer'[s].send_msg)
      BY <2>1, <2>2, <2>5, <2>8, <3>8
    <3> QED BY <3>1, <3>7, <3>9, <3>10
  <2>9. k < Len(x) \/ k = Len(x)
    BY <2>1, <2>3, SMT
  <2> QED BY <2>7, <2>8, <2>9

\* The streams after a write.
<1>WroteStreams.
    ASSUME IInv, Always, NEW s \in Sides, NEW k \in Written(s), Wrote(s, k), peer[s].sd,
           "short_hdr" \notin env.faults, StreamTo(s), StreamTo(Other(s))
    PROVE  StreamTo(s)' /\ StreamTo(Other(s))' /\ Line(Other(s))' = Line(Other(s))
  <2> USE <1>WroteStreams
  <2> DEFINE u == Other(s)
  <2>1. u \in Sides /\ u # s /\ Other(u) = s
    BY SidesLemma DEF Other
  <2>2. /\ peer'[u] = peer[u] /\ wire'[s] = wire[s] /\ peer'[s].sd = peer[s].sd
        /\ peer'[s] = WrittenPeer(peer[s], k) /\ k \in 0 .. Len(peer[s].send_msg)
    BY <1>WrotePeers
  <2>3. peer'[s].recv_msg = peer[s].recv_msg
    <3> DEFINE p == peer[s]
               mon == env.monitored
    <3>1. p \in Loads(s, mon) /\ Writing(p) /\ k \in 0 .. Len(p.send_msg)
      BY <2>2, AlwaysParts
    <3> HIDE DEF mon, p
    <3>2. WrittenPeer(p, k).recv_msg = p.recv_msg
      BY <3>1, <1>WroteLoad
    <3> QED BY <2>2, <3>2 DEF p
  <2>4. Line(u)' = Line(u)
    <3>1. Unsent(u)' = Unsent(u)
      BY <2>2, SMT DEF Unsent
    <3> QED BY <2>1, <2>2, <3>1, SMT DEF Line
  <2>5. /\ Cut(wire'[u]) /\ Whole(peer'[s].send_msg)
        /\ \/ Line(s)' = Line(s)
           \/ \E h \in Messages : Line(s)' = Line(s) \o Units(h)
    BY <1>WroteLine DEF StreamTo
  <2>6. StreamTo(s)'
    BY <2>1, <2>2, <2>3, <2>4, <2>5 DEF StreamTo
  <2>7. peer[u].sd => Stream(Line(s)', peer[u].recv_msg, peer[s].sd)
    <3> SUFFICES ASSUME peer[u].sd PROVE Stream(Line(s)', peer[u].recv_msg, peer[s].sd)
      OBVIOUS
    <3>1. Stream(Line(s), peer[u].recv_msg, peer[s].sd)
      BY <2>1 DEF StreamTo
    <3>2. Line(s) \in Seq(Wares) /\ peer[s].sd \in BOOLEAN
      BY AlwaysParts, SortedTypes
    <3>3. ASSUME NEW h \in Messages, Line(s)' = Line(s) \o Units(h)
          PROVE  Stream(Line(s)', peer[u].recv_msg, peer[s].sd)
      <4>1. peer[s].sd = TRUE
        BY <3>2
      <4> QED BY <3>1, <3>2, <3>3, <4>1, StreamUnits
    <3> QED BY <2>5, <3>1, <3>3
  <2>8. StreamTo(u)'
    BY <2>1, <2>2, <2>5, <2>7 DEF StreamTo
  <2> QED BY <2>4, <2>6, <2>8

\* The socket of a side is written to.
<1>WrotePipe.
    ASSUME IInv, Always, NEW s \in Sides, NextEvent(s, "send"), NEW k \in Written(s), Wrote(s, k),
           events' = [events EXCEPT ![s] = Tail(@)],
           UNCHANGED <<env, held, unexpected, posted, handled, tag, order, stray>>
    PROVE  Always' /\ ("short_hdr" \notin env.faults /\ Exact => Exact')
  <2> USE <1>WrotePipe
  <2>1. events[s] # <<>> /\ Head(events[s]).ev = "send"
    BY DEF NextEvent
  <2>2. peer[s].sd
    BY <2>1, ReaderHasSocket DEF IsHandler
  <2>3. PostedTags' = PostedTags
    BY DEF PostedTags
  <2>4. Always'
    <3>1. \A u \in Sides : /\ peer'[u] \in Loads(u, env.monitored) /\ Writing(peer'[u])
                           /\ peer'[u].sd = peer[u].sd
                           /\ wire'[u] \in Seq(Bound(u, env.monitored) \X Nat)
      BY <1>WrotePeers
    <3> QED BY <2>1, <2>3, <3>1, AlwaysParts, RunMoves
  <2>5. ASSUME "short_hdr" \notin env.faults, Exact PROVE Exact'
    <3>1. /\ Same(events["server"], events'["server"], KindTag("process_msg"))
          /\ Same(events["server"], events'["server"], KindTag("reply"))
          /\ Same(events["client"], events'["client"], KindTag("process_msg"))
      BY <2>1, RunEvents, SidesLemma
    <3>2. StreamTo(s) /\ StreamTo(Other(s)) /\ Other(s) \in Sides
      BY <2>5, SidesLemma DEF Exact, Other
    <3>3. StreamTo(s)' /\ StreamTo(Other(s))' /\ Line(Other(s))' = Line(Other(s))
      BY <2>2, <2>5, <3>2, <1>WroteStreams
    <3>4. \/ Line(s)' = Line(s) /\ peer'[s].send_queue = peer[s].send_queue
          \/ \E h \in Messages : /\ Gains(Line(s), Line(s)', EndTag, h.tag)
                                 /\ Loses(peer[s].send_queue, peer'[s].send_queue, TagOf, h.tag)
      BY <2>2, <2>5, <3>2, <1>WroteLine DEF StreamTo
    <3>5. /\ peer'[Other(s)] = peer[Other(s)]
          /\ \A u \in Sides : peer'[u].sd = peer[u].sd
      BY <1>WrotePeers
    <3>6. Base' = Base /\ Base \in Nat /\ Base >= DYNAMIC /\ tag \in Nat
      BY <2>5, BaseLemma DEF Base
    <3>7. \A m \in Messages : m.tag \in Nat
      BY DEF Messages
    <3>8. CASE s = "client"
      <4>1. Line("server")' = Line("server") /\ peer'["server"] = peer["server"]
        BY <3>3, <3>5, <3>8 DEF Other
      <4>2. Backward'
        BY <2>5, <3>1, <4>1, BackwardKept DEF Same
      <4>3. Forward'
        <5>1. CASE Line(s)' = Line(s) /\ peer'[s].send_queue = peer[s].send_queue
          BY <2>5, <3>1, <3>5, <3>8, <5>1, SidesLemma, ForwardKept
        <5>2. ASSUME NEW h \in Messages,
                     Gains(Line("client"), Line("client")', EndTag, h.tag),
                     Loses(peer["client"].send_queue, peer'["client"].send_queue, TagOf, h.tag)
              PROVE  Forward'
          <6> SUFFICES ASSUME peer["server"].sd
                       PROVE  Flow(Base, events'["server"], KindTag("process_msg"),
                                   Line("client")', peer'["client"].send_queue, tag, TRUE)
            BY <2>2, <3>5, <3>6, <3>8, SidesLemma DEF Forward
          <6>1. peer["client"].sd = TRUE
            <7>1. peer["client"].sd \in BOOLEAN
              BY AlwaysParts, SortedTypes, SidesLemma
            <7> QED BY <2>2, <3>8, <7>1
          <6>2. Flow(Base, events["server"], KindTag("process_msg"), Line("client"),
                     peer["client"].send_queue, tag, TRUE)
            BY <2>5, <6>1 DEF Exact, Forward
          <6>3. Flow(Base, events'["server"], KindTag("process_msg"), Line("client"),
                     peer["client"].send_queue, tag, TRUE)
            BY <3>1, <3>6, <6>2, FlowEvents
          <6>4. h.tag \in Nat
            BY <3>7
          <6> QED BY <3>6, <5>2, <6>3, <6>4, <1>FlowNext
        <5> QED BY <3>4, <3>8, <5>1, <5>2
      <4>4. StreamTo("client")' /\ StreamTo("server")'
        BY <3>3, <3>8 DEF Other
      <4> QED BY <2>5, <4>2, <4>3, <4>4 DEF Exact
    <3>9. CASE s = "server"
      <4>1. Line("client")' = Line("client") /\ peer'["client"] = peer["client"]
        BY <3>3, <3>5, <3>9 DEF Other
      <4>2. Forward'
        BY <2>5, <3>1, <3>5, <4>1, SidesLemma, ForwardKept
      <4>3. Backward'
        <5>1. CASE Line(s)' = Line(s) /\ peer'[s].send_queue = peer[s].send_queue
          BY <2>5, <3>1, <3>9, <5>1, BackwardKept DEF Same
        <5>2. ASSUME NEW h \in Messages,
                     Gains(Line("server"), Line("server")', EndTag, h.tag),
                     Loses(peer["server"].send_queue, peer'["server"].send_queue, TagOf, h.tag)
              PROVE  Backward'
          <6> DEFINE O == {t \in PostedTags : t <= Base}
          <6>1. /\ Back(held, events["server"], KindTag("reply"), peer["server"].send_queue,
                        Line("server"), events["client"], KindTag("process_msg"), O)
                /\ \A i \in Base + 1 .. tag : i \in PostedTags
            BY <2>5 DEF Exact, Backward
          <6> HIDE DEF O
          <6>2. h.tag \in Nat
            BY <3>7
          <6>3. Back(held, events["server"], KindTag("reply"), peer'["server"].send_queue,
                     Line("server")', events["client"], KindTag("process_msg"), O)
            BY <5>2, <6>1, <6>2, <1>BackNext
          <6>4. Back(held, events'["server"], KindTag("reply"), peer'["server"].send_queue,
                     Line("server")', events'["client"], KindTag("process_msg"), O)
            BY <3>1, <6>3, BackLess DEF Same
          <6> QED BY <2>3, <3>6, <6>1, <6>4 DEF Backward, O
        <5> QED BY <3>4, <3>9, <5>1, <5>2
      <4>4. StreamTo("client")' /\ StreamTo("server")'
        BY <3>3, <3>9 DEF Other
      <4> QED BY <2>5, <4>2, <4>3, <4>4 DEF Exact
    <3> QED BY <3>8, <3>9, SidesLemma
  <2> QED BY <2>4, <2>5
<1> QED
  <2> SUFFICES ASSUME NEW s \in Sides, IInv, Always, NextEvent(s, "send"), SendHandler(s),
                      UNCHANGED <<env, held, unexpected, posted, handled, tag, order>>
               PROVE  Always' /\ ("short_hdr" \notin env.faults /\ Exact => Exact')
    OBVIOUS
  <2>1. "epipe" \notin env.faults
    BY DEF IInv, Transit, Envs
  <2>2. /\ \E k \in Written(s) : Wrote(s, k)
        /\ events' = [events EXCEPT ![s] = Tail(@)] /\ UNCHANGED stray
    BY <2>1 DEF SendHandler
  <2> QED BY <2>2, <1>WrotePipe

-----------------------------------------------------------------------------
(* Reading, and the end of a connection *)

\* A read keeps the invariant of the message layer, and so does the end of a
\* process.
LEMMA ReadSteps ==
    \A s \in Sides :
       /\ IInv /\ Always
       /\ \/ /\ NextEvent(s, "recv") /\ RecvHandler(s)
             /\ UNCHANGED <<env, held, unexpected, posted, handled, tag, order>>
          \/ Crash(s)
       => Always' /\ (Exact => Exact')
\* What is cut off at the end leaves a run.
<1>TagsPrefix.
    ASSUME NEW S, NEW q \in Seq(S), NEW x \in Seq(S), NEW f \in [S -> Nat], NEW a \in Nat
    PROVE  /\ Dynamic(q, f) \subseteq Dynamic(q \o x, f)
           /\ Distinct(q \o x, f) => Distinct(q, f)
           /\ Runs(q \o x, f, a) => Runs(q, f, a)
  <2> USE <1>TagsPrefix
  <2> DEFINE w == q \o x
  <2>1. \A i \in DOMAIN q : i \in DOMAIN w /\ w[i] = q[i] /\ f[q[i]] \in Nat /\ i \in Nat
    BY SMT
  <2>2. \A i \in DOMAIN w, j \in DOMAIN q : i \in DOMAIN q \/ j < i
    BY SMT
  <2> HIDE DEF w
  <2>3. Dynamic(q, f) \subseteq Dynamic(w, f)
    BY <2>1 DEF Dynamic
  <2>4. Distinct(w, f) => Distinct(q, f)
    BY <2>1 DEF Distinct
  <2>5. ASSUME Runs(w, f, a) PROVE Runs(q, f, a)
    <3>1. \A i, j \in DOMAIN q :
              i < j /\ f[q[i]] >= DYNAMIC /\ f[q[j]] >= DYNAMIC => f[q[i]] < f[q[j]]
      BY <2>1, <2>5 DEF Runs
    <3>2. ASSUME NEW t \in Dynamic(q, f), NEW k \in a + 1 .. t PROVE k \in Dynamic(q, f)
      <4>1. PICK j \in DOMAIN q : f[q[j]] = t /\ t >= DYNAMIC /\ t \in Nat
        BY DEF Dynamic
      <4>2. k \in Dynamic(w, f)
        BY <2>3, <2>5 DEF Runs
      <4>3. PICK i \in DOMAIN w : f[w[i]] = k /\ k >= DYNAMIC /\ k \in Nat
        BY <4>2 DEF Dynamic
      <4>4. CASE i \in DOMAIN q
        BY <2>1, <4>3, <4>4 DEF Dynamic
      <4>5. CASE j < i
        <5>1. t < k
          BY <2>1, <2>5, <4>1, <4>3, <4>5 DEF Runs
        <5> QED BY <4>1, <4>3, <5>1, SMT
      <4> QED BY <2>2, <4>4, <4>5
    <3>3. \A t \in Dynamic(q, f) : a < t
      BY <2>3, <2>5 DEF Runs
    <3> QED BY <3>1, <3>2, <3>3 DEF Runs
  <2> QED BY <2>3, <2>4, <2>5 DEF w

\* Before a tag is lost, others that are not dynamic may go.
<1>LosesMore.
    ASSUME NEW q, NEW q2, NEW q3, NEW f, NEW t, Loses(q, q2, f, 0), Loses(q2, q3, f, t)
    PROVE  Loses(q, q3, f, t)
  <2> USE <1>LosesMore
  <2>1. 0 < DYNAMIC /\ ~(0 >= DYNAMIC)
    BY SMT DEF DYNAMIC
  <2> QED BY <2>1 DEF Loses

\* A sequence that stays as it is loses no tag.
<1>LosesNone.
    ASSUME NEW q, NEW f
    PROVE  Loses(q, q, f, 0)
  <2> USE <1>LosesNone
  <2>1. 0 < DYNAMIC /\ ~(0 >= DYNAMIC)
    BY SMT DEF DYNAMIC
  <2> QED BY <2>1 DEF Loses

(* The stream of units *)
\* The tail of a sequence in front of another.
<1>ConcatTail.
    ASSUME NEW S, NEW w \in Seq(S), w # <<>>, NEW x \in Seq(S)
    PROVE  /\ Tail(w \o x) = Tail(w) \o x /\ w \o x \in Seq(S) /\ w \o x # <<>>
           /\ Head(w \o x) = Head(w) /\ (w \o x)[1] = w[1] /\ Head(w) = w[1]
           /\ Tail(w) # <<>> => Tail(w)[Len(Tail(w))] = w[Len(w)]
  <2> USE <1>ConcatTail
  <2>1. /\ w \o x \in Seq(S) /\ w \o x # <<>>
        /\ Head(w \o x) = Head(w) /\ (w \o x)[1] = w[1] /\ Head(w) = w[1]
        /\ Tail(w) # <<>> => Tail(w)[Len(Tail(w))] = w[Len(w)]
    BY SMT
  <2> DEFINE a == Tail(w \o x)
             b == Tail(w) \o x
  <2>2. a \in Seq(S) /\ b \in Seq(S) /\ Len(a) = Len(b)
    BY SMT
  <2>3. \A i \in 1 .. Len(a) : a[i] = b[i]
    BY SMT
  <2> HIDE DEF a, b
  <2>4. a = b
    BY <2>2, <2>3, SameSeq
  <2> QED BY <2>1, <2>4 DEF a, b

\* The units after the first one.
<1>StreamTail.
    ASSUME NEW u \in Seq(Wares), u # <<>>, Chained(u)
    PROVE  LET t == Tail(u)
           IN  /\ t \in Seq(Wares) /\ Chained(t)
               /\ t # <<>> => /\ Follows(u[1], t[1]) /\ u[2] = t[1]
                              /\ t[Len(t)] = u[Len(u)]
               /\ t = <<>> => u[Len(u)] = u[1]
               /\ u[1] \in Wares
  <2> USE <1>StreamTail
  <2> DEFINE t == Tail(u)
  <2>1. /\ t \in Seq(Wares) /\ 1 \in DOMAIN u /\ u[1] \in Wares
        /\ \A i \in DOMAIN t : i \in Nat \ {0} /\ i + 1 \in DOMAIN u /\ t[i] = u[i + 1]
    BY TailLemma, SMT
  <2>2. /\ t # <<>> => t[1] = u[2] /\ 2 \in DOMAIN u /\ t[Len(t)] = u[Len(u)]
        /\ t = <<>> => u[Len(u)] = u[1]
    <3> HIDE DEF Wares
    <3> QED BY SMT
  <2>3. \A i \in DOMAIN t : i + 1 \in DOMAIN t => i + 1 + 1 \in DOMAIN u /\ t[i + 1] = u[i + 1 + 1]
    BY <2>1
  <2> HIDE DEF t
  <2>4. Chained(t)
    BY <2>1, <2>3 DEF Chained
  <2>5. t # <<>> => Follows(u[1], u[1 + 1])
    <3>1. 1 + 1 = 2
      BY SMT
    <3> QED BY <2>1, <2>2, <3>1 DEF Chained
  <2>6. t # <<>> => Follows(u[1], t[1])
    BY <2>2, <2>5, SMT
  <2> QED BY <2>1, <2>2, <2>4, <2>6 DEF t

\* The data of a message is read.
<1>StreamData.
    ASSUME NEW u \in Seq(Wares), u # <<>>, NEW r \in Messages, r # None, NEW open,
           Stream(u, r, open)
    PROVE  Stream(Tail(u), None, open) /\ Loses(u, Tail(u), EndTag, r.tag)
  <2> USE <1>StreamData
  <2> DEFINE t == Tail(u)
  <2>1. u[1] = <<r, 3>> /\ r.nbytes = 1 /\ Chained(u)
    BY DEF Stream
  <2>2. /\ t \in Seq(Wares) /\ Chained(t)
        /\ t # <<>> => Follows(u[1], t[1]) /\ t[Len(t)] = u[Len(u)]
        /\ t = <<>> => u[Len(u)] = u[1]
        /\ u[1] \in Wares
    BY <2>1, <1>StreamTail, SMT
  <2> HIDE DEF t
  <2>3. u[1][1] = r /\ u[1][2] = 3 /\ 3 = HdrUnits + r.nbytes /\ ~(3 < HdrUnits + r.nbytes)
    BY <2>1, SMT DEF HdrUnits
  <2>4. t # <<>> => t[1][2] = 1
    BY <2>2, <2>3 DEF Follows
  <2>5. Stream(t, None, open)
    BY <2>2, <2>4 DEF Stream
  <2>6. EndTag[u[1]] = r.tag
    BY <2>2, <2>3, WareLemma
  <2>7. Loses(u, t, EndTag, EndTag[Head(u)]) /\ Head(u) = u[1]
    BY LosesHead, TailLemma, WareLemma DEF t
  <2> QED BY <2>5, <2>6, <2>7 DEF t

\* The header of a message is read, which is all when there is no data.
<1>StreamHeader.
    ASSUME NEW u \in Seq(Wares), u # <<>>, NEW open, Stream(u, None, open)
    PROVE  LET m == u[1][1]
               t == Tail(u)
           IN  /\ m \in Messages /\ u[1] = <<m, 1>>
               /\ t # <<>> => /\ t[1] = <<m, 2>>
                              /\ Stream(Tail(t), IF m.nbytes = 0 THEN None ELSE m, open)
                              /\ Loses(u, Tail(t), EndTag, IF m.nbytes = 0 THEN m.tag ELSE 0)
  <2> USE <1>StreamHeader
  <2> DEFINE m == u[1][1]
             t == Tail(u)
             v == Tail(t)
  <2>1. u[1][2] = 1 /\ Chained(u)
    BY DEF Stream
  <2>2. /\ t \in Seq(Wares) /\ Chained(t)
        /\ t # <<>> => Follows(u[1], t[1]) /\ t[Len(t)] = u[Len(u)]
        /\ u[1] \in Wares
    BY <2>1, <1>StreamTail, SMT
  <2>3. m \in Messages /\ u[1] = <<m, 1>> /\ m.nbytes \in {0, 1}
    BY <2>1, <2>2, WareLemma
  <2>4. 1 < HdrUnits + m.nbytes
    BY <2>3, SMT DEF HdrUnits
  <2>5. Loses(u, t, EndTag, 0)
    <3>1. Loses(u, t, EndTag, EndTag[Head(u)]) /\ Head(u) = u[1]
      BY LosesHead, TailLemma, WareLemma
    <3>2. EndTag[u[1]] = 0
      BY <2>1, <2>2, <2>4, WareLemma
    <3> QED BY <3>1, <3>2
  <2> HIDE DEF m, t, v
  <2>6. ASSUME t # <<>>
        PROVE  /\ t[1] = <<m, 2>>
               /\ Stream(v, IF m.nbytes = 0 THEN None ELSE m, open)
               /\ Loses(u, v, EndTag, IF m.nbytes = 0 THEN m.tag ELSE 0)
    <3>1. t[1] = <<m, 2>>
      <4>1. t[1] = <<u[1][1], u[1][2] + 1>>
        BY <2>1, <2>2, <2>4, <2>6 DEF Follows, m
      <4> QED BY <2>1, <4>1, SMT DEF m
    <3>2. t[1][1] = m /\ t[1][2] = 2
      BY <3>1, SMT
    <3>3. /\ v \in Seq(Wares) /\ Chained(v)
          /\ v # <<>> => Follows(t[1], v[1]) /\ v[Len(v)] = t[Len(t)]
          /\ v = <<>> => t[Len(t)] = t[1]
          /\ t[1] \in Wares
      BY <2>2, <2>6, <1>StreamTail, SMT DEF v
    <3>4. Loses(t, v, EndTag, EndTag[Head(t)]) /\ Head(t) = t[1]
      BY <2>2, <2>6, LosesHead, TailLemma, WareLemma DEF v
    <3>5. open => t[Len(t)][2] = HdrUnits + t[Len(t)][1].nbytes
      BY <2>2, <2>6 DEF Stream
    <3>6. CASE m.nbytes = 0
      <4>1. ~(2 < HdrUnits + m.nbytes) /\ 2 = HdrUnits + m.nbytes
        BY <3>6, SMT DEF HdrUnits
      <4>2. EndTag[t[1]] = m.tag
        BY <3>2, <3>3, <4>1, WareLemma
      <4>3. Loses(u, v, EndTag, m.tag)
        BY <2>5, <3>4, <4>2, <1>LosesMore
      <4>4. v # <<>> => v[1][2] = 1
        BY <3>2, <3>3, <4>1 DEF Follows
      <4>5. Stream(v, None, open)
        BY <3>3, <3>5, <4>4 DEF Stream
      <4> QED BY <3>1, <3>6, <4>3, <4>5
    <3>7. CASE m.nbytes = 1
      <4>1. 2 < HdrUnits + m.nbytes /\ 2 # HdrUnits + m.nbytes /\ m.nbytes # 0
        BY <3>7, SMT DEF HdrUnits
      <4>2. EndTag[t[1]] = 0
        BY <3>2, <3>3, <4>1, WareLemma
      <4>3. Loses(u, v, EndTag, 0)
        BY <2>5, <3>4, <4>2, <1>LosesMore
      <4>4. v # <<>> => v[1] = <<m, 3>>
        <5>1. v # <<>> => v[1] = <<m, 2 + 1>>
          BY <3>2, <3>3, <4>1 DEF Follows
        <5> QED BY <5>1, SMT
      <4>5. open => v # <<>>
        BY <3>2, <3>3, <3>5, <4>1
      <4>6. m # None
        BY <2>3, SMT DEF Messages, None
      <4>7. Stream(v, m, open)
        BY <3>3, <3>5, <3>7, <4>4, <4>5, <4>6 DEF Stream
      <4> QED BY <3>1, <4>1, <4>3, <4>7
    <3> QED BY <2>3, <3>6, <3>7
  <2> QED BY <2>3, <2>6 DEF m, t, v

\* The sender is gone: only what it has written comes, or nothing.
<1>StreamStops.
    ASSUME NEW w \in Seq(Wares), NEW x \in Seq(Wares), NEW r, NEW open, Stream(w \o x, r, open)
    PROVE  Stream(w, r, FALSE) /\ Stream(<<>>, r, FALSE)
  <2> USE <1>StreamStops
  <2> DEFINE u == w \o x
  <2>1. /\ \A i \in DOMAIN w : i \in DOMAIN u /\ u[i] = w[i]
        /\ w # <<>> => u # <<>> /\ u[1] = w[1]
    BY SMT DEF Wares
  <2> HIDE DEF u
  <2>2. Stream(u, r, open)
    BY DEF u
  <2>3. Chained(w)
    <3>1. \A i \in DOMAIN w : w[i][2] \in 1 .. HdrUnits + w[i][1].nbytes
      BY <2>1, <2>2 DEF Stream, Chained
    <3>2. \A i \in DOMAIN w : i + 1 \in DOMAIN w => Follows(w[i], w[i + 1])
      BY <2>1, <2>2 DEF Stream, Chained
    <3> QED BY <3>1, <3>2 DEF Chained
  <2>4. Stream(w, r, FALSE)
    BY <2>1, <2>2, <2>3 DEF Stream
  <2>5. DOMAIN <<>> = {}
    BY SMT
  <2>6. Stream(<<>>, r, FALSE)
    BY <2>2, <2>5 DEF Stream, Chained
  <2> QED BY <2>4, <2>6

(* Requests on their way to the server *)
\* The server reads the message at the front of the line.
<1>FlowRead.
    ASSUME NEW base, NEW ev, NEW f, NEW line, NEW q, NEW last, NEW open,
           Flow(base, ev, f, line, q, last, open), NEW t, NEW line2,
           Loses(line, line2, EndTag, t), NEW ev2, Gains(ev, ev2, f, t), base \in Nat,
           base >= DYNAMIC, last \in Nat, t \in Nat
    PROVE  Flow(base, ev2, f, line2, q, last, open)
  <2> USE <1>FlowRead
  <2>1. PICK e \in Nat :
           /\ Carries(ev, f, base, e) /\ Runs(line, EndTag, e)
           /\ open => \E l \in Nat : Carries(line, EndTag, e, l) /\ Carries(q, TagOf, l, last)
    BY DEF Flow
  <2>2. e >= DYNAMIC
    BY <2>1, CarriesBounds
  <2>3. CASE t < DYNAMIC
    <3>1. Carries(ev2, f, base, e)
      BY <2>1, <2>3 DEF Gains
    <3>2. Runs(line2, EndTag, e)
      BY <2>1, <2>2, <2>3 DEF Loses
    <3>3. open => \E l \in Nat : Carries(line2, EndTag, e, l) /\ Carries(q, TagOf, l, last)
      BY <2>1, <2>2, <2>3 DEF Loses
    <3> QED BY <3>1, <3>2, <3>3 DEF Flow
  <2>4. CASE t >= DYNAMIC
    <3>1. t = e + 1 /\ Runs(line2, EndTag, e + 1)
      BY <2>1, <2>2, <2>4 DEF Loses
    <3>2. Carries(ev2, f, base, e + 1) /\ e + 1 \in Nat
      <4>1. e + 1 \in Nat
        BY SMT
      <4> QED BY <2>1, <3>1, <4>1 DEF Gains
    <3>3. open => \E l \in Nat : Carries(line2, EndTag, e + 1, l) /\ Carries(q, TagOf, l, last)
      BY <2>1, <2>2, <2>4 DEF Loses
    <3> QED BY <3>1, <3>2, <3>3 DEF Flow
  <2>5. t < DYNAMIC \/ t >= DYNAMIC
    BY SMT DEF DYNAMIC
  <2> QED BY <2>3, <2>4, <2>5

(* Answers on their way to the client *)
\* The client reads the message at the front of the line.
<1>BackRead.
    ASSUME NEW hd, NEW sev, NEW f, NEW q, NEW line, NEW cev, NEW g, NEW O,
           Back(hd, sev, f, q, line, cev, g, O), NEW t,
           NEW line2, Loses(line, line2, EndTag, t), NEW cev2, Gains(cev, cev2, g, t), t \in Nat
    PROVE  Back(hd, sev, f, q, line2, cev2, g, O)
  <2> USE <1>BackRead
  <2>1. Apart(HeldTags(hd), Dynamic(sev, f), Dynamic(q, TagOf), Dynamic(line, EndTag),
              Dynamic(cev, g), O)
    BY DEF Back
  <2>2. /\ Distinct(line, EndTag) /\ Distinct(cev, g)
        /\ Dynamic(line, EndTag) \cap Dynamic(cev, g) = {}
    BY <2>1 DEF Back, Apart
  <2>3. Moved(line2, line, EndTag, cev2, cev, g)
    BY <2>2, TagMoves
  <2>4. Apart(HeldTags(hd), Dynamic(sev, f), Dynamic(q, TagOf), Dynamic(line2, EndTag),
              Dynamic(cev2, g), O)
    BY <2>1, <2>3, SMT DEF Apart, Moved
  <2> QED BY <2>3, <2>4 DEF Back, Moved

(* Steps of threads *)
\* What is behind a sequence has its tags.
<1>TagsSuffix.
    ASSUME NEW S, NEW q \in Seq(S), NEW x \in Seq(S), NEW f \in [S -> Nat]
    PROVE  /\ Dynamic(x, f) \subseteq Dynamic(q \o x, f)
           /\ Distinct(q \o x, f) => Distinct(x, f)
  <2> USE <1>TagsSuffix
  <2> DEFINE w == q \o x
             n == Len(q)
  <2>1. /\ n \in Nat
        /\ \A i \in DOMAIN x : n + i \in DOMAIN w /\ w[n + i] = x[i] /\ i \in Nat
    BY SMT
  <2> HIDE DEF w, n
  <2>2. \A i, j \in DOMAIN x : n + i = n + j => i = j
    BY <2>1, SMT
  <2>3. Dynamic(x, f) \subseteq Dynamic(w, f)
    BY <2>1 DEF Dynamic
  <2>4. Distinct(w, f) => Distinct(x, f)
    BY <2>1, <2>2 DEF Distinct
  <2> QED BY <2>3, <2>4 DEF w

(* Reading *)
\* A sequence that stays as it is gains no tag.
<1>GainsNone.
    ASSUME NEW q, NEW f
    PROVE  Gains(q, q, f, 0)
  <2> USE <1>GainsNone
  <2>1. 0 < DYNAMIC /\ ~(0 >= DYNAMIC) /\ \A b \in Nat : 0 # b + 1
    BY SMT DEF DYNAMIC
  <2> QED BY <2>1 DEF Gains

\* A message is not the absence of one.
<1>MessageIsSome.
    ASSUME NEW m \in Messages
    PROVE  m # None
  <2> USE <1>MessageIsSome
  <2>1. "tag" \in DOMAIN m
    BY SMT DEF Messages
  <2>2. DOMAIN None = {}
    BY SMT DEF None
  <2> QED BY <2>1, <2>2

\* The data of the message r is read.
<1>ReadDataStream.
    ASSUME NEW w \in Seq(Wares), NEW x \in Seq(Wares), NEW r \in Messages, NEW open,
           Stream(w \o x, r, open), w # <<>>, Cut(w)
    PROVE  /\ Tail(w) \in Seq(Wares) /\ Cut(Tail(w)) /\ Stream(Tail(w) \o x, None, open)
           /\ Loses(w \o x, Tail(w) \o x, EndTag, r.tag)
  <2> USE <1>ReadDataStream
  <2>1. /\ Tail(w \o x) = Tail(w) \o x /\ w \o x \in Seq(Wares) /\ w \o x # <<>>
        /\ Tail(w) # <<>> => Tail(w)[Len(Tail(w))] = w[Len(w)]
    BY <1>ConcatTail
  <2>2. Cut(Tail(w)) /\ Tail(w) \in Seq(Wares)
    BY <2>1, TailLemma DEF Cut
  <2>3. Stream(Tail(w \o x), None, open) /\ Loses(w \o x, Tail(w \o x), EndTag, r.tag)
    BY <2>1, <1>MessageIsSome, <1>StreamData
  <2> QED BY <2>1, <2>2, <2>3

\* A sequence without its first two elements.
<1>TwoTails.
    ASSUME NEW S, NEW w \in Seq(S), w # <<>>, Len(w) # 1
    PROVE  LET t == Tail(w)
               v == SubSeq(w, HdrUnits + 1, Len(w))
           IN  /\ ~(Len(w) < HdrUnits)
               /\ t \in Seq(S) /\ t # <<>> /\ t[1] = w[2]
               /\ v = Tail(t) /\ v \in Seq(S)
  <2> USE <1>TwoTails
  <2> DEFINE t == Tail(w)
             v == SubSeq(w, HdrUnits + 1, Len(w))
  <2>1. Len(w) \in Nat /\ Len(w) >= 2
    BY SMT
  <2>2. t \in Seq(S) /\ t # <<>> /\ Len(t) = Len(w) - 1 /\ t[1] = w[2]
    BY <2>1, SMT
  <2>3. Tail(t) \in Seq(S) /\ Len(Tail(t)) = Len(w) - 2
    BY <2>1, <2>2, SMT
  <2>4. v \in Seq(S) /\ Len(v) = Len(w) - 2
    <3>1. v = SubSeq(w, 3, Len(w))
      BY SMT DEF HdrUnits
    <3>2. SubSeq(w, 3, Len(w)) \in Seq(S)
      BY <2>1, SubSeqLemma, SMT
    <3>3. Len(SubSeq(w, 3, Len(w))) = Len(w) - 2
      <4>1. 2 \in 0 .. Len(w) /\ 2 + 1 = 3
        BY <2>1, SMT
      <4> QED BY <4>1, PartsLemma
    <3> QED BY <3>1, <3>2, <3>3
  <2>5. \A i \in 1 .. Len(w) - 2 : v[i] = w[i + 2] /\ Tail(t)[i] = w[i + 2]
    BY <2>1, <2>2, SMT DEF HdrUnits
  <2>6. ~(Len(w) < HdrUnits)
    BY <2>1, SMT DEF HdrUnits
  <2> HIDE DEF v, t
  <2>7. \A i \in 1 .. Len(v) : v[i] = Tail(t)[i]
    BY <2>4, <2>5
  <2>8. v = Tail(t)
    BY <2>3, <2>4, <2>7, SameSeq
  <2> QED BY <2>2, <2>4, <2>6, <2>8 DEF v, t

\* The header of a message is read.
<1>ReadHeaderStream.
    ASSUME NEW w \in Seq(Wares), NEW x \in Seq(Wares), NEW open,
           Stream(w \o x, None, open), w # <<>>, Cut(w)
    PROVE  LET m == w[1][1]
               v == SubSeq(w, HdrUnits + 1, Len(w))
           IN  /\ m \in Messages /\ ~(Len(w) < HdrUnits) /\ IsHeader(w)
               /\ v \in Seq(Wares) /\ Cut(v)
               /\ Stream(v \o x, IF m.nbytes = 0 THEN None ELSE m, open)
               /\ Loses(w \o x, v \o x, EndTag, IF m.nbytes = 0 THEN m.tag ELSE 0)
  <2> USE <1>ReadHeaderStream
  <2> DEFINE m == w[1][1]
             v == SubSeq(w, HdrUnits + 1, Len(w))
             l == w \o x
             t == Tail(w)
  <2>1. /\ Tail(l) = t \o x /\ l \in Seq(Wares) /\ l # <<>> /\ l[1] = w[1]
        /\ t # <<>> => t[Len(t)] = w[Len(w)]
    BY <1>ConcatTail
  <2> HIDE DEF l
  <2>2. m \in Messages /\ w[1] = <<m, 1>>
    <3>1. Stream(l, None, open)
      BY DEF l
    <3>2. l[1][1] \in Messages /\ l[1] = <<l[1][1], 1>>
      BY <2>1, <3>1, <1>StreamHeader
    <3> QED BY <2>1, <3>2
  <2>3. Len(w) # 1
    <3> SUFFICES ASSUME Len(w) = 1 PROVE FALSE
      BY SMT
    <3>1. w[1][2] >= HdrUnits
      BY DEF Cut
    <3>2. w[1][2] = 1
      BY <2>2, SMT
    <3> QED BY <3>1, <3>2, SMT DEF HdrUnits
  <2>4. t \in Seq(Wares) /\ t # <<>> /\ t[1] = w[2] /\ ~(Len(w) < HdrUnits)
    BY <2>3, <1>TwoTails
  <2>5. v = Tail(t) /\ v \in Seq(Wares)
    BY <2>3, <1>TwoTails
  <2> HIDE DEF t
  <2>6. /\ Tail(t \o x) = Tail(t) \o x /\ t \o x # <<>> /\ (t \o x)[1] = t[1]
        /\ Tail(t) # <<>> => Tail(t)[Len(Tail(t))] = t[Len(t)]
    BY <2>4, <1>ConcatTail
  <2> HIDE DEF v
  <2>7. Cut(v)
    BY <2>1, <2>4, <2>5, <2>6 DEF Cut
  <2>8. /\ t[1] = <<m, 2>>
        /\ Stream(Tail(Tail(l)), IF m.nbytes = 0 THEN None ELSE m, open)
        /\ Loses(l, Tail(Tail(l)), EndTag, IF m.nbytes = 0 THEN m.tag ELSE 0)
    <3>1. Stream(l, None, open) /\ Tail(l) # <<>> /\ Tail(l)[1] = t[1] /\ l[1][1] = m
      BY <2>1, <2>6 DEF l
    <3>2. /\ Tail(l)[1] = <<l[1][1], 2>>
          /\ Stream(Tail(Tail(l)), IF l[1][1].nbytes = 0 THEN None ELSE l[1][1], open)
          /\ Loses(l, Tail(Tail(l)), EndTag, IF l[1][1].nbytes = 0 THEN l[1][1].tag ELSE 0)
      BY <2>1, <3>1, <1>StreamHeader
    <3> HIDE DEF m
    <3> QED BY <3>1, <3>2
  <2>9. IsHeader(w)
    BY <2>2, <2>4, <2>8 DEF IsHeader
  <2>10. Tail(Tail(l)) = v \o x
    BY <2>1, <2>5, <2>6
  <2> QED BY <2>2, <2>4, <2>5, <2>7, <2>8, <2>9, <2>10 DEF v, l

\* No header is misread.
<1>ReadsInOrder.
    ASSUME Always, NEW s \in Sides, RecvHandler(s), peer[s].sd, StreamTo(s)
    PROVE  ReadOff(s) /\ UNCHANGED stray
  <2> USE <1>ReadsInOrder
  <2> DEFINE u == Other(s)
             w == wire[s]
             x == Unsent(u)
             r == peer[s].recv_msg
             open == peer[u].sd
  <2>1. u \in Sides /\ Other(u) = s
    BY SidesLemma DEF Other
  <2>2. w \in Seq(Wares) /\ x \in Seq(Wares) /\ r \in Messages \cup {None}
    BY <2>1, AlwaysParts, SortedTypes
  <2>3. Cut(w) /\ Line(u) = w \o x /\ Stream(w \o x, r, open)
    BY <2>1 DEF StreamTo, Line
  <2>4. Cut(<<>>) /\ <<>> \in Seq(Wares) /\ Loses(w \o x, w \o x, EndTag, 0)
    BY EmptyLemma, <1>LosesNone DEF Cut
  <2> HIDE DEF w, x, r, open
  <2>5. CASE r # None
    <3>1. ReadData(s, r, w) /\ UNCHANGED stray /\ r \in Messages
      BY <2>2, <2>5 DEF RecvHandler, w, r
    <3>2. r.nbytes = 1
      BY <2>3, <2>5 DEF Stream
    <3>3. r.nbytes # 0
      BY <3>2, SMT
    <3>4. CASE w # <<>>
      <4>1. Complete(s, r, Tail(w))
        BY <3>1, <3>3, <3>4 DEF ReadData
      <4>2. /\ Tail(w) \in Seq(Wares) /\ Cut(Tail(w)) /\ Stream(Tail(w) \o x, None, open)
            /\ Loses(w \o x, Tail(w) \o x, EndTag, r.tag)
        BY <2>2, <2>3, <3>1, <3>4, <1>ReadDataStream
      <4> QED BY <2>3, <3>1, <4>1, <4>2 DEF ReadOff, x, open
    <3>5. CASE w = <<>>
      <4>1. ReadFailed(s) \/ Blocked(s, r, w)
        BY <3>1, <3>3, <3>5 DEF ReadData
      <4> QED BY <2>2, <2>3, <2>4, <3>1, <4>1 DEF ReadOff, x, open
    <3> QED BY <3>4, <3>5
  <2>6. CASE r = None /\ w = <<>>
    <3>1. Len(w) < HdrUnits
      BY <2>6, SMT DEF HdrUnits
    <3>2. (ReadFailed(s) \/ Blocked(s, None, w)) /\ UNCHANGED stray
      BY <2>6, <3>1 DEF RecvHandler, w, r
    <3> QED BY <2>2, <2>3, <2>4, <2>6, <3>2 DEF ReadOff, x, open
  <2>7. CASE r = None /\ w # <<>>
    <3> DEFINE m == w[1][1]
               v == SubSeq(w, HdrUnits + 1, Len(w))
    <3>1. /\ m \in Messages /\ ~(Len(w) < HdrUnits) /\ IsHeader(w)
          /\ v \in Seq(Wares) /\ Cut(v)
          /\ Stream(v \o x, IF m.nbytes = 0 THEN None ELSE m, open)
          /\ Loses(w \o x, v \o x, EndTag, IF m.nbytes = 0 THEN m.tag ELSE 0)
      BY <2>2, <2>3, <2>7, <1>ReadHeaderStream
    <3>2. ReadData(s, m, v) /\ UNCHANGED stray
      BY <2>7, <3>1 DEF RecvHandler, w, r
    <3> HIDE DEF m, v
    <3>3. CASE m.nbytes = 0
      <4>1. Complete(s, m, v)
        BY <3>2, <3>3 DEF ReadData
      <4>2. Stream(v \o x, None, open) /\ Loses(w \o x, v \o x, EndTag, m.tag)
        BY <3>1, <3>3
      <4> QED BY <2>3, <3>1, <3>2, <4>1, <4>2 DEF ReadOff, x, open
    <3>4. CASE m.nbytes # 0 /\ v # <<>>
      <4>1. Complete(s, m, Tail(v))
        BY <3>2, <3>4 DEF ReadData
      <4>2. Stream(v \o x, m, open) /\ Loses(w \o x, v \o x, EndTag, 0)
        BY <3>1, <3>4
      <4>3. /\ Tail(v) \in Seq(Wares) /\ Cut(Tail(v)) /\ Stream(Tail(v) \o x, None, open)
            /\ Loses(v \o x, Tail(v) \o x, EndTag, m.tag)
        BY <2>2, <3>1, <3>4, <4>2, <1>ReadDataStream
      <4>4. Loses(w \o x, Tail(v) \o x, EndTag, m.tag)
        BY <4>2, <4>3, <1>LosesMore
      <4> QED BY <2>3, <3>1, <3>2, <4>1, <4>3, <4>4 DEF ReadOff, x, open
    <3>5. CASE m.nbytes # 0 /\ v = <<>>
      <4>1. ReadFailed(s) \/ Blocked(s, m, v)
        BY <3>2, <3>5 DEF ReadData
      <4>2. Stream(v \o x, m, open) /\ Loses(w \o x, v \o x, EndTag, 0)
        BY <3>1, <3>5
      <4> QED BY <2>3, <3>1, <3>2, <4>1, <4>2 DEF ReadOff, x, open
    <3> QED BY <3>3, <3>4, <3>5
  <2> QED BY <2>5, <2>6, <2>7

\* Where a read leaves the peers and the wires.
<1>ReadPeers.
    ASSUME IInv, Always, NEW s \in Sides, NEW m \in Bound(s, env.monitored) \cup {None},
           NEW rest \in Seq(Bound(s, env.monitored) \X Nat),
           peer' = [peer EXCEPT ![s].recv_msg = m], wire' = [wire EXCEPT ![s] = rest]
    PROVE  /\ peer'[s].recv_msg = m /\ peer'[s].send_msg = peer[s].send_msg
           /\ peer'[s].send_queue = peer[s].send_queue
           /\ peer'[Other(s)] = peer[Other(s)]
           /\ wire'[s] = rest /\ wire'[Other(s)] = wire[Other(s)]
           /\ Line(s)' = Line(s) /\ Line(Other(s))' = rest \o Unsent(Other(s))
           /\ \A u \in Sides : /\ peer'[u] \in Loads(u, env.monitored) /\ Writing(peer'[u])
                               /\ peer'[u].sd = peer[u].sd
                               /\ wire'[u] \in Seq(Bound(u, env.monitored) \X Nat)
  <2> USE <1>ReadPeers
  <2> DEFINE mon == env.monitored
             u == Other(s)
             p == peer[s]
             r == [p EXCEPT !.recv_msg = m]
  <2>1. u \in Sides /\ u # s /\ Other(u) = s /\ \A v \in Sides : v = s \/ v = u
    BY SidesLemma DEF Other
  <2>2. /\ peer \in [Sides -> Peers] /\ wire \in [Sides -> Seq(Parcels)]
        /\ \A v \in Sides : /\ peer[v] \in Loads(v, mon) /\ Writing(peer[v])
                            /\ wire[v] \in Seq(Bound(v, mon) \X Nat)
    BY AlwaysParts DEF IInv, Transit, Sorted
  <2>3. /\ r \in Loads(s, mon) /\ r.recv_msg = m /\ r.send_msg = p.send_msg
        /\ r.send_queue = p.send_queue /\ r.sd = p.sd /\ r.send_ev = p.send_ev
    BY <2>2 DEF Loads
  <2>4. peer' = [peer EXCEPT ![s] = r]
    BY <2>2
  <2> HIDE DEF r
  <2>5. peer'[s] = r /\ peer'[u] = peer[u] /\ wire'[s] = rest /\ wire'[u] = wire[u]
    BY <2>1, <2>2, <2>4
  <2>6. Writing(r)
    BY <2>2, <2>3 DEF Writing
  <2>7. Unsent(s)' = Unsent(s) /\ Unsent(u)' = Unsent(u)
    BY <2>3, <2>5, SMT DEF Unsent
  <2>8. Line(s)' = Line(s) /\ Line(u)' = rest \o Unsent(u)
    BY <2>1, <2>5, <2>7 DEF Line
  <2>9. \A v \in Sides : /\ peer'[v] \in Loads(v, mon) /\ Writing(peer'[v])
                         /\ peer'[v].sd = peer[v].sd
                         /\ wire'[v] \in Seq(Bound(v, mon) \X Nat)
    BY <2>1, <2>2, <2>3, <2>5, <2>6
  <2> QED BY <2>3, <2>5, <2>8, <2>9

\* The streams after a read.
<1>ReadStreams.
    ASSUME IInv, Always, NEW s \in Sides, NEW m \in Bound(s, env.monitored) \cup {None},
           NEW rest \in Seq(Bound(s, env.monitored) \X Nat),
           peer' = [peer EXCEPT ![s].recv_msg = m], wire' = [wire EXCEPT ![s] = rest],
           StreamTo("client"), StreamTo("server"), Cut(rest),
           Stream(rest \o Unsent(Other(s)), m, peer[Other(s)].sd)
    PROVE  StreamTo("client")' /\ StreamTo("server")'
  <2> USE <1>ReadStreams
  <2> DEFINE u == Other(s)
  <2>1. u \in Sides /\ u # s /\ Other(u) = s /\ (s = "client" \/ s = "server")
    BY SidesLemma DEF Other
  <2>2. /\ peer'[s].recv_msg = m /\ peer'[s].send_msg = peer[s].send_msg
        /\ peer'[s].sd = peer[s].sd /\ peer'[u] = peer[u]
        /\ wire'[s] = rest /\ wire'[u] = wire[u]
        /\ Line(s)' = Line(s) /\ Line(u)' = rest \o Unsent(u)
    BY <1>ReadPeers
  <2>3. StreamTo(s) /\ StreamTo(u)
    BY <2>1 DEF Other
  <2>4. StreamTo(s)'
    BY <2>1, <2>2, <2>3 DEF StreamTo
  <2>5. StreamTo(u)'
    BY <2>1, <2>2, <2>3 DEF StreamTo
  <2>6. CASE s = "client"
    BY <2>4, <2>5, <2>6 DEF Other
  <2>7. CASE s = "server"
    BY <2>4, <2>5, <2>7 DEF Other
  <2> QED BY <2>1, <2>6, <2>7

\* A part of a message is read, or nothing.
<1>BlockedPipe.
    ASSUME IInv, Always, NEW s \in Sides, NextEvent(s, "recv"),
           NEW m \in Bound(s, env.monitored) \cup {None},
           NEW rest \in Seq(Bound(s, env.monitored) \X Nat), Blocked(s, m, rest),
           UNCHANGED <<env, held, unexpected, posted, handled, tag, order>>
    PROVE  /\ Always'
           /\ /\ Exact /\ Cut(rest) /\ UNCHANGED stray
              /\ Stream(rest \o Unsent(Other(s)), m, peer[Other(s)].sd)
              /\ Loses(Line(Other(s)), rest \o Unsent(Other(s)), EndTag, 0)
              => Exact'
  <2> USE <1>BlockedPipe
  <2>1. events[s] # <<>> /\ Head(events[s]).ev = "recv"
    BY DEF NextEvent
  <2>2. /\ peer' = [peer EXCEPT ![s].recv_msg = m] /\ wire' = [wire EXCEPT ![s] = rest]
        /\ events' = [events EXCEPT ![s] = Tail(@)]
    BY DEF Blocked
  <2>3. PostedTags' = PostedTags
    BY DEF PostedTags
  <2>4. /\ peer'[s].send_queue = peer[s].send_queue /\ peer'[Other(s)] = peer[Other(s)]
        /\ Line(s)' = Line(s) /\ Line(Other(s))' = rest \o Unsent(Other(s))
        /\ \A u \in Sides : /\ peer'[u] \in Loads(u, env.monitored) /\ Writing(peer'[u])
                            /\ peer'[u].sd = peer[u].sd
                            /\ wire'[u] \in Seq(Bound(u, env.monitored) \X Nat)
    BY <2>2, <1>ReadPeers
  <2>5. Always'
    BY <2>1, <2>2, <2>3, <2>4, AlwaysParts, RunMoves
  <2>6. ASSUME Exact, Cut(rest), UNCHANGED stray,
               Stream(rest \o Unsent(Other(s)), m, peer[Other(s)].sd),
               Loses(Line(Other(s)), rest \o Unsent(Other(s)), EndTag, 0)
        PROVE  Exact'
    <3>1. /\ Same(events["server"], events'["server"], KindTag("process_msg"))
          /\ Same(events["server"], events'["server"], KindTag("reply"))
          /\ Same(events["client"], events'["client"], KindTag("process_msg"))
      BY <2>1, <2>2, RunEvents, SidesLemma
    <3>2. StreamTo("client")' /\ StreamTo("server")'
      BY <2>2, <2>6, <1>ReadStreams DEF Exact
    <3>3. Loses(Line(Other(s)), Line(Other(s))', EndTag, 0)
      BY <2>4, <2>6
    <3>4. CASE s = "server"
      <4>1. /\ Line("server")' = Line("server") /\ peer'["client"] = peer["client"]
            /\ peer'["server"].send_queue = peer["server"].send_queue
            /\ peer'["server"].sd = peer["server"].sd
            /\ Loses(Line("client"), Line("client")', EndTag, 0)
        BY <2>4, <3>3, <3>4 DEF Other
      <4>2. Backward'
        BY <2>6, <3>1, <4>1, BackwardKept DEF Same
      <4>3. Forward'
        <5> SUFFICES ASSUME peer["server"].sd
                     PROVE  Flow(Base, events'["server"], KindTag("process_msg"), Line("client")',
                                 peer["client"].send_queue, tag, peer["client"].sd)
          BY <4>1 DEF Forward, Base
        <5>1. Flow(Base, events["server"], KindTag("process_msg"), Line("client"),
                   peer["client"].send_queue, tag, peer["client"].sd)
          BY <2>6 DEF Exact, Forward
        <5>2. Base \in Nat /\ Base >= DYNAMIC /\ tag \in Nat /\ 0 \in Nat
          BY <2>6, BaseLemma
        <5>3. Flow(Base, events'["server"], KindTag("process_msg"), Line("client"),
                   peer["client"].send_queue, tag, peer["client"].sd)
          BY <3>1, <5>1, <5>2, FlowEvents
        <5>4. Gains(events'["server"], events'["server"], KindTag("process_msg"), 0)
          BY <1>GainsNone
        <5> QED BY <4>1, <5>2, <5>3, <5>4, <1>FlowRead
      <4> QED BY <2>6, <3>2, <4>2, <4>3 DEF Exact
    <3>5. CASE s = "client"
      <4>1. /\ Line("client")' = Line("client") /\ peer'["server"] = peer["server"]
            /\ peer'["client"].send_queue = peer["client"].send_queue
            /\ peer'["client"].sd = peer["client"].sd
            /\ Loses(Line("server"), Line("server")', EndTag, 0)
        BY <2>4, <3>3, <3>5 DEF Other
      <4>2. Forward'
        BY <2>6, <3>1, <4>1, ForwardKept
      <4>3. Same(Line("server"), Line("server")', EndTag)
        <5>1. 0 \in Nat /\ 0 < DYNAMIC
          BY SMT DEF DYNAMIC
        <5> QED BY <4>1, <5>1, SameTags
      <4>4. Backward'
        BY <2>6, <3>1, <4>1, <4>3, BackwardKept DEF Same
      <4> QED BY <2>6, <3>2, <4>2, <4>4 DEF Exact
    <3> QED BY <3>4, <3>5, SidesLemma
  <2> QED BY <2>5, <2>6

\* In a queue, a read makes place for the message that was read.
<1>QueueCompleted.
    ASSUME NEW S, NEW q \in Seq(S), q # <<>>, Head(q).ev = "recv", Shaped(q),
           NEW e \in S, e.ev = "process_msg"
    PROVE  Shaped(Append(Tail(q), e))
  <2> USE <1>QueueCompleted
  <2> DEFINE t == Tail(q)
  <2>1. /\ t \in Seq(S)
        /\ \A i \in DOMAIN t : i \in Nat \ {0} /\ i + 1 \in DOMAIN q /\ t[i] = q[i + 1]
        /\ 1 \in DOMAIN q /\ q[1].ev = "recv"
    BY TailLemma, SMT
  <2>2. Shaped(t)
    BY QueueTail
  <2> HIDE DEF t
  <2>3. ASSUME NEW i \in DOMAIN t, t[i].ev = "recv" PROVE FALSE
    <3>1. q[i + 1].ev = "recv" /\ i + 1 \in DOMAIN q /\ i \in Nat \ {0}
      BY <2>1, <2>3
    <3>2. 1 = i + 1
      BY <2>1, <3>1 DEF Shaped
    <3> QED BY <3>1, <3>2, SMT
  <2>4. ~IsHandler(e)
    BY DEF IsHandler
  <2>5. Shaped(Append(t, e))
    BY <2>1, <2>2, <2>3, <2>4, QueueAppend
  <2> QED BY <2>5 DEF t

\* A message is read: the invariants of every scenario.
<1>CompleteAlways.
    ASSUME IInv, Always, NEW s \in Sides, NextEvent(s, "recv"), NEW m \in Bound(s, env.monitored),
           NEW rest \in Seq(Bound(s, env.monitored) \X Nat), Complete(s, m, rest),
           UNCHANGED <<env, held, unexpected, posted>>
    PROVE  Always'
  <2> USE <1>CompleteAlways
  <2> DEFINE mon == env.monitored
             e == [ev |-> "process_msg", body |-> m]
             a == Append(Tail(events[s]), e)
  <2>1. events[s] # <<>> /\ Head(events[s]).ev = "recv"
    BY DEF NextEvent
  <2>2. /\ peer' = [peer EXCEPT ![s].recv_msg = None] /\ wire' = [wire EXCEPT ![s] = rest]
        /\ events' = [events EXCEPT ![s] = a]
    BY DEF Complete
  <2>3. \A u \in Sides : /\ peer'[u] \in Loads(u, mon) /\ Writing(peer'[u])
                         /\ peer'[u].sd = peer[u].sd
                         /\ wire'[u] \in Seq(Bound(u, mon) \X Nat)
    BY <2>2, <1>ReadPeers
  <2>4. e \in Deeds(s, mon) /\ e.ev = "process_msg"
    BY DEF Deeds
  <2>5. /\ events \in [Sides -> Seq(Events)] /\ ServerPolled
        /\ \A u \in Sides : events[u] \in Seq(Deeds(u, mon))
    BY DEF IInv, Transit, Always, Sorted
  <2>6. a \in Seq(Deeds(s, mon))
    <3>1. Tail(events[s]) \in Seq(Deeds(s, mon))
      BY <2>1, <2>5, TailLemma
    <3> HIDE DEF e
    <3> QED BY <2>4, <3>1, AppendLemma
  <2>7. Shaped(events[s]) => Shaped(a)
    <3>1. events[s] \in Seq(Deeds(s, mon))
      BY <2>5
    <3> HIDE DEF e
    <3> QED BY <2>1, <2>4, <3>1, <1>QueueCompleted
  <2> HIDE DEF a, e
  <2>8. \A u \in Sides : events'[u] = IF u = s THEN a ELSE events[u]
    BY <2>2, <2>5
  <2>9. \A u \in Sides : /\ peer'[u] \in Loads(u, mon) /\ wire'[u] \in Seq(Bound(u, mon) \X Nat)
                         /\ events'[u] \in Seq(Deeds(u, mon))
    BY <2>3, <2>5, <2>6, <2>8
  <2>10. Shaped(events'["server"]) /\ (~peer'["server"].sd => Idle(events'["server"]))
    <3>1. CASE s = "server"
      <4>1. peer["server"].sd
        BY <2>1, <3>1, ReaderHasSocket DEF IsHandler
      <4> QED BY <2>3, <2>5, <2>7, <2>8, <3>1, <4>1, SidesLemma DEF ServerPolled
    <3>2. CASE s # "server"
      BY <2>3, <2>5, <2>8, <3>2, SidesLemma DEF ServerPolled
    <3> QED BY <3>1, <3>2
  <2>11. NOTIFY \in PostedTags' /\ held' \subseteq Bound("client", mon)
    BY AlwaysParts DEF PostedTags
  <2>12. \A n \in unexpected' : n.tag = HEARTBEAT /\ ~mon
    BY AlwaysParts
  <2>13. Writing(peer'["client"]) /\ Writing(peer'["server"]) /\ env'.monitored = mon
    BY <2>3, SidesLemma
  <2> QED BY <2>9, <2>10, <2>11, <2>12, <2>13, AlwaysFrame

\* The queues of events when a message is read.
<1>CompleteEvents.
    ASSUME IInv, Always, NEW s \in Sides, NextEvent(s, "recv"), NEW m \in Messages,
           NEW rest, Complete(s, m, rest)
    PROVE  /\ \A u \in Sides : u # s => events'[u] = events[u]
           /\ Same(events[s], Tail(events[s]), KindTag("process_msg"))
           /\ Gains(Tail(events[s]), events'[s], KindTag("process_msg"), m.tag)
           /\ Dynamic(events'[s], KindTag("reply")) \subseteq Dynamic(events[s], KindTag("reply"))
           /\ Distinct(events[s], KindTag("reply")) => Distinct(events'[s], KindTag("reply"))
  <2> USE <1>CompleteEvents
  <2> DEFINE e == [ev |-> "process_msg", body |-> m]
             q == events[s]
             t == Tail(q)
             a == Append(t, e)
  <2>1. q # <<>> /\ Head(q).ev = "recv"
    BY DEF NextEvent
  <2>2. q \in Seq(AllEvents) /\ events \in [Sides -> Seq(Events)]
    BY AlwaysParts, SortedTypes DEF IInv, Transit
  <2>3. t \in Seq(AllEvents)
    BY <2>1, <2>2, TailLemma
  <2>4. e \in AllEvents /\ e.ev = "process_msg" /\ e.body = m
    BY DEF AllEvents
  <2>5. events' = [events EXCEPT ![s] = a]
    BY DEF Complete
  <2> HIDE DEF e
  <2>6. Gains(t, a, KindTag("process_msg"), m.tag)
    <3> HIDE DEF t
    <3> QED BY <2>3, <2>4, EventGains
  <2>7. Same(t, a, KindTag("reply"))
    <3> HIDE DEF t
    <3> QED BY <2>3, <2>4, EventsSame
  <2>8. Same(q, t, KindTag("process_msg")) /\ Same(q, t, KindTag("reply"))
    BY <2>1, <2>2, EventsSame
  <2>9. events'[s] = a /\ \A u \in Sides : u # s => events'[u] = events[u]
    BY <2>2, <2>5
  <2>10. /\ Dynamic(a, KindTag("reply")) = Dynamic(q, KindTag("reply"))
         /\ Distinct(q, KindTag("reply")) => Distinct(a, KindTag("reply"))
    BY <2>7, <2>8 DEF Same
  <2> HIDE DEF a
  <2> QED BY <2>6, <2>8, <2>9, <2>10

\* A message is read off a stream that is in order.
<1>CompleteExact.
    ASSUME IInv, Always, NEW s \in Sides, NextEvent(s, "recv"), NEW m \in Messages,
           NEW rest \in Seq(Bound(s, env.monitored) \X Nat), Complete(s, m, rest),
           UNCHANGED <<env, held, unexpected, posted, handled, tag, order, stray>>,
           Exact, Cut(rest), Stream(rest \o Unsent(Other(s)), None, peer[Other(s)].sd),
           Loses(Line(Other(s)), rest \o Unsent(Other(s)), EndTag, m.tag)
    PROVE  Exact'
  <2> USE <1>CompleteExact
  <2>1. peer' = [peer EXCEPT ![s].recv_msg = None] /\ wire' = [wire EXCEPT ![s] = rest]
    BY DEF Complete
  <2>2. /\ peer'[s].send_queue = peer[s].send_queue /\ peer'[Other(s)] = peer[Other(s)]
        /\ Line(s)' = Line(s) /\ Line(Other(s))' = rest \o Unsent(Other(s))
        /\ \A u \in Sides : peer'[u].sd = peer[u].sd
    BY <2>1, <1>ReadPeers
  <2>3. StreamTo("client")' /\ StreamTo("server")'
    BY <2>1, <1>ReadStreams DEF Exact
  <2>4. /\ \A u \in Sides : u # s => events'[u] = events[u]
        /\ Same(events[s], Tail(events[s]), KindTag("process_msg"))
        /\ Gains(Tail(events[s]), events'[s], KindTag("process_msg"), m.tag)
        /\ Dynamic(events'[s], KindTag("reply")) \subseteq Dynamic(events[s], KindTag("reply"))
        /\ Distinct(events[s], KindTag("reply")) => Distinct(events'[s], KindTag("reply"))
    BY <1>CompleteEvents
  <2>5. Base' = Base /\ Base \in Nat /\ Base >= DYNAMIC /\ tag \in Nat
    BY BaseLemma DEF Base
  <2>6. m.tag \in Nat
    BY DEF Messages
  <2>7. CASE s = "server"
    <3>1. /\ Line("server")' = Line("server") /\ peer'["client"] = peer["client"]
          /\ peer'["server"].send_queue = peer["server"].send_queue
          /\ peer'["server"].sd = peer["server"].sd
          /\ Loses(Line("client"), Line("client")', EndTag, m.tag)
      BY <2>2, <2>7, SidesLemma DEF Other
    <3>2. events'["client"] = events["client"]
      BY <2>4, <2>7, SidesLemma
    <3>3. Backward'
      BY <2>4, <2>7, <3>1, <3>2, BackwardKept
    <3>4. Forward'
      <4> SUFFICES ASSUME peer["server"].sd
                   PROVE  Flow(Base, events'["server"], KindTag("process_msg"), Line("client")',
                               peer["client"].send_queue, tag, peer["client"].sd)
        BY <2>5, <3>1 DEF Forward
      <4>1. Flow(Base, events["server"], KindTag("process_msg"), Line("client"),
                 peer["client"].send_queue, tag, peer["client"].sd)
        BY DEF Exact, Forward
      <4>2. Flow(Base, Tail(events["server"]), KindTag("process_msg"), Line("client"),
                 peer["client"].send_queue, tag, peer["client"].sd)
        BY <2>4, <2>5, <2>7, <4>1, FlowEvents
      <4>3. Gains(Tail(events["server"]), events'["server"], KindTag("process_msg"), m.tag)
        BY <2>4, <2>7
      <4> QED BY <2>5, <2>6, <3>1, <4>2, <4>3, <1>FlowRead
    <3> QED BY <2>3, <3>3, <3>4 DEF Exact
  <2>8. CASE s = "client"
    <3>1. /\ Line("client")' = Line("client") /\ peer'["server"] = peer["server"]
          /\ peer'["client"].send_queue = peer["client"].send_queue
          /\ peer'["client"].sd = peer["client"].sd
          /\ Loses(Line("server"), Line("server")', EndTag, m.tag)
      BY <2>2, <2>8, SidesLemma DEF Other
    <3>2. events'["server"] = events["server"]
      BY <2>4, <2>8, SidesLemma
    <3>3. Forward'
      BY <2>5, <3>1, <3>2 DEF Exact, Forward
    <3>4. Backward'
      <4> DEFINE O == {t \in PostedTags : t <= Base}
      <4>1. /\ Back(held, events["server"], KindTag("reply"), peer["server"].send_queue,
                    Line("server"), events["client"], KindTag("process_msg"), O)
            /\ \A k \in Base + 1 .. tag : k \in PostedTags
        BY DEF Exact, Backward
      <4> HIDE DEF O
      <4>2. Back(held, events["server"], KindTag("reply"), peer["server"].send_queue,
                 Line("server"), Tail(events["client"]), KindTag("process_msg"), O)
        <5> DEFINE t == Tail(events["client"])
                   g == KindTag("process_msg")
        <5>1. /\ Dynamic(t, g) \subseteq Dynamic(events["client"], g)
              /\ Distinct(events["client"], g) => Distinct(t, g)
          BY <2>4, <2>8 DEF Same
        <5> HIDE DEF t, g
        <5>2. Back(held, events["server"], KindTag("reply"), peer["server"].send_queue,
                   Line("server"), t, g, O)
          BY <4>1, <5>1 DEF Back, Apart, g
        <5> QED BY <5>2 DEF t, g
      <4>3. Gains(Tail(events["client"]), events'["client"], KindTag("process_msg"), m.tag)
        BY <2>4, <2>8
      <4>4. Back(held, events["server"], KindTag("reply"), peer["server"].send_queue,
                 Line("server")', events'["client"], KindTag("process_msg"), O)
        BY <2>6, <3>1, <4>2, <4>3, <1>BackRead
      <4>5. PostedTags' = PostedTags
        BY DEF PostedTags
      <4> QED BY <2>5, <3>1, <3>2, <4>1, <4>4, <4>5 DEF Backward, O
    <3> QED BY <2>3, <3>3, <3>4 DEF Exact
  <2> QED BY <2>7, <2>8, SidesLemma

(* The end of a connection *)
\* The lines after s has closed its socket: of what s sent only what it wrote
\* comes to the other side, or nothing, and what the other side wrote is lost.
<1>ClosedLines.
    ASSUME IInv, Always, NEW s \in Sides, peer'[s].sd = FALSE,
           peer'[Other(s)] = peer[Other(s)], wire'[s] = <<>>,
           wire'[Other(s)] \in {wire[Other(s)], <<>>}
    PROVE  /\ \A a \in Nat : Runs(Line(s), EndTag, a) => Runs(Line(s)', EndTag, a)
           /\ \A u \in Sides :
                 /\ Dynamic(Line(u)', EndTag) \subseteq Dynamic(Line(u), EndTag)
                 /\ Distinct(Line(u), EndTag) => Distinct(Line(u)', EndTag)
           /\ \A r, open : Stream(Line(s), r, open) => Stream(Line(s)', r, FALSE)
  <2> USE <1>ClosedLines
  <2> DEFINE u == Other(s)
             w == wire[u]
             x == Unsent(s)
             v == wire[s]
             y == Unsent(u)
  <2>1. u \in Sides /\ u # s /\ Other(u) = s /\ \A t \in Sides : t = s \/ t = u
    BY SidesLemma DEF Other
  <2>2. w \in Seq(Wares) /\ x \in Seq(Wares) /\ v \in Seq(Wares) /\ y \in Seq(Wares)
    BY <2>1, AlwaysParts, SortedTypes
  <2>3. Unsent(s)' = <<>> /\ Unsent(u)' = y
    BY SMT DEF Unsent
  <2>4. Line(s) = w \o x /\ Line(u) = v \o y
    BY <2>1 DEF Line
  <2>5. Line(s)' \in {w, <<>>} /\ Line(u)' = y
    <3>1. Line(s)' = wire'[u] \o <<>> /\ Line(u)' = <<>> \o y
      BY <2>1, <2>3 DEF Line
    <3>2. w \o <<>> = w /\ <<>> \o y = y
      BY <2>2, ConcatEmpty
    <3>3. <<>> \o <<>> = <<>>
      BY EmptyLemma, ConcatEmpty
    <3> QED BY <3>1, <3>2, <3>3
  <2> HIDE DEF w, x, v, y
  <2>6. EndTag \in [Wares -> Nat] /\ 0 \in Nat
    BY WareLemma
  <2>7. \A a \in Nat : /\ Dynamic(w, EndTag) \subseteq Dynamic(w \o x, EndTag)
                       /\ Distinct(w \o x, EndTag) => Distinct(w, EndTag)
                       /\ Runs(w \o x, EndTag, a) => Runs(w, EndTag, a)
    BY <2>2, <2>6, <1>TagsPrefix
  <2>8. \A a \in Nat : /\ Dynamic(<<>>, EndTag) = {} /\ Distinct(<<>>, EndTag)
                       /\ Runs(<<>>, EndTag, a)
    BY TagsNone
  <2>9. /\ Dynamic(y, EndTag) \subseteq Dynamic(v \o y, EndTag)
        /\ Distinct(v \o y, EndTag) => Distinct(y, EndTag)
    BY <2>2, <2>6, <1>TagsSuffix
  <2>10. \A a \in Nat : Runs(Line(s), EndTag, a) => Runs(Line(s)', EndTag, a)
    BY <2>4, <2>5, <2>7, <2>8
  <2>11. /\ Dynamic(Line(s)', EndTag) \subseteq Dynamic(Line(s), EndTag)
         /\ Distinct(Line(s), EndTag) => Distinct(Line(s)', EndTag)
    <3>1. CASE Line(s)' = w
      BY <2>4, <2>6, <2>7, <3>1
    <3>2. CASE Line(s)' = <<>>
      BY <2>6, <2>8, <3>2
    <3> QED BY <2>5, <3>1, <3>2
  <2>12. /\ Dynamic(Line(u)', EndTag) \subseteq Dynamic(Line(u), EndTag)
         /\ Distinct(Line(u), EndTag) => Distinct(Line(u)', EndTag)
    BY <2>4, <2>5, <2>9
  <2>13. \A r, open : Stream(Line(s), r, open) => Stream(Line(s)', r, FALSE)
    <3> SUFFICES ASSUME NEW r, NEW open, Stream(w \o x, r, open)
                 PROVE  Stream(Line(s)', r, FALSE)
      BY <2>4
    <3>1. Stream(w, r, FALSE) /\ Stream(<<>>, r, FALSE)
      BY <2>2, <1>StreamStops
    <3> QED BY <2>5, <3>1
  <2> QED BY <2>1, <2>10, <2>11, <2>12, <2>13

\* What was in order is so after s has closed its socket.
<1>ClosedExact.
    ASSUME IInv, Always, Exact, NEW s \in Sides, peer'[s].sd = FALSE,
           peer'[s].send_msg = peer[s].send_msg, peer'[s].send_queue = peer[s].send_queue,
           peer'[Other(s)] = peer[Other(s)], wire'[s] = <<>>,
           wire'[Other(s)] \in {wire[Other(s)], <<>>}, held' \subseteq held,
           events'[Other(s)] = events[Other(s)],
           \A k \in {"reply", "process_msg"} :
              /\ Dynamic(events'[s], KindTag(k)) \subseteq Dynamic(events[s], KindTag(k))
              /\ Distinct(events[s], KindTag(k)) => Distinct(events'[s], KindTag(k)),
           UNCHANGED <<posted, handled, tag, order, stray>>
    PROVE  Exact'
  <2> USE <1>ClosedExact
  <2> DEFINE u == Other(s)
  <2>1. /\ u \in Sides /\ u # s /\ Other(u) = s /\ (s = "client" \/ s = "server")
        /\ \A t \in Sides : t = s \/ t = u
    BY SidesLemma DEF Other
  <2>2. /\ \A a \in Nat : Runs(Line(s), EndTag, a) => Runs(Line(s)', EndTag, a)
        /\ \A t \in Sides :
              /\ Dynamic(Line(t)', EndTag) \subseteq Dynamic(Line(t), EndTag)
              /\ Distinct(Line(t), EndTag) => Distinct(Line(t)', EndTag)
        /\ \A r, open : Stream(Line(s), r, open) => Stream(Line(s)', r, FALSE)
    BY <1>ClosedLines
  <2>3. StreamTo(s) /\ StreamTo(u)
    BY <2>1 DEF Exact, Other
  <2>4. StreamTo(s)'
    BY <2>3 DEF StreamTo, Cut
  <2>5. Cut(wire'[u]) /\ Whole(peer'[u].send_msg)
    BY <2>3 DEF StreamTo, Cut
  <2>6. peer'[u].sd => Stream(Line(s)', peer'[u].recv_msg, peer'[s].sd)
    BY <2>1, <2>2, <2>3 DEF StreamTo
  <2>7. StreamTo(u)'
    BY <2>1, <2>5, <2>6 DEF StreamTo
  <2>8. \A t \in Sides, k \in {"reply", "process_msg"} :
           /\ Dynamic(events'[t], KindTag(k)) \subseteq Dynamic(events[t], KindTag(k))
           /\ Distinct(events[t], KindTag(k)) => Distinct(events'[t], KindTag(k))
    BY <2>1
  <2>9. peer'["server"].send_queue = peer["server"].send_queue
    BY <2>1 DEF Other
  <2>10. Backward'
    <3>1. /\ Dynamic(events'["server"], KindTag("reply"))
                \subseteq Dynamic(events["server"], KindTag("reply"))
          /\ Distinct(events["server"], KindTag("reply"))
                => Distinct(events'["server"], KindTag("reply"))
          /\ Dynamic(events'["client"], KindTag("process_msg"))
                \subseteq Dynamic(events["client"], KindTag("process_msg"))
          /\ Distinct(events["client"], KindTag("process_msg"))
                => Distinct(events'["client"], KindTag("process_msg"))
      BY <2>8, SidesLemma
    <3>2. /\ Dynamic(Line("server")', EndTag) \subseteq Dynamic(Line("server"), EndTag)
          /\ Distinct(Line("server"), EndTag) => Distinct(Line("server")', EndTag)
      BY <2>2, SidesLemma
    <3> QED BY <2>9, <3>1, <3>2, BackwardKept
  <2>11. Forward'
    <3>1. CASE s = "server"
      BY <3>1 DEF Forward
    <3>2. CASE s = "client"
      <4>1. /\ peer'["server"] = peer["server"] /\ events'["server"] = events["server"]
            /\ peer'["client"].sd = FALSE
            /\ peer'["client"].send_queue = peer["client"].send_queue
        BY <3>2 DEF Other
      <4> SUFFICES ASSUME peer["server"].sd
                   PROVE  Flow(Base, events["server"], KindTag("process_msg"), Line("client")',
                               peer["client"].send_queue, tag, FALSE)
        BY <4>1 DEF Forward, Base
      <4>2. Flow(Base, events["server"], KindTag("process_msg"), Line("client"),
                 peer["client"].send_queue, tag, peer["client"].sd)
        BY DEF Exact, Forward
      <4>3. \A a \in Nat : Runs(Line("client"), EndTag, a) => Runs(Line("client")', EndTag, a)
        BY <2>2, <3>2
      <4> QED BY <4>2, <4>3 DEF Flow
    <3> QED BY <2>1, <3>1, <3>2
  <2>12. StreamTo("client")' /\ StreamTo("server")'
    <3>1. CASE s = "client"
      BY <2>4, <2>7, <3>1 DEF Other
    <3>2. CASE s = "server"
      BY <2>4, <2>7, <3>2 DEF Other
    <3> QED BY <2>1, <3>1, <3>2
  <2> QED BY <2>10, <2>11, <2>12 DEF Exact

\* What is deleted of a queue is no message.
<1>DeletedTags.
    ASSUME NEW q \in Seq(AllEvents), q # <<>>, Head(q).ev = "recv",
           NEW k \in {"reply", "process_msg"}
    PROVE  LET d == Deleted(Tail(q))
           IN  /\ Dynamic(d, KindTag(k)) \subseteq Dynamic(q, KindTag(k))
               /\ Distinct(q, KindTag(k)) => Distinct(d, KindTag(k))
  <2> USE <1>DeletedTags
  <2> DEFINE t == Tail(q)
             d == Deleted(t)
  <2>1. t \in Seq(AllEvents)
    BY TailLemma
  <2>2. Same(q, t, KindTag(k))
    BY EventsSame
  <2> HIDE DEF t
  <2>3. Same(t, d, KindTag(k))
    <3>1. CASE t # <<>> /\ IsHandler(Head(t))
      <4>1. d = Tail(t) /\ Head(t).ev # k
        BY <3>1 DEF Deleted, IsHandler
      <4> QED BY <2>1, <3>1, <4>1, EventsSame
    <3>2. CASE ~(t # <<>> /\ IsHandler(Head(t)))
      <4>1. d = t
        BY <3>2 DEF Deleted
      <4> QED BY <2>1, <4>1, EventsSame
    <3> QED BY <3>1, <3>2
  <2> HIDE DEF d
  <2>4. /\ Dynamic(d, KindTag(k)) \subseteq Dynamic(q, KindTag(k))
        /\ Distinct(q, KindTag(k)) => Distinct(d, KindTag(k))
    BY <2>2, <2>3 DEF Same
  <2> QED BY <2>4 DEF d, t

\* A side that closes its socket keeps the rest of what it is in order.
<1>ClosedAlways.
    ASSUME IInv, Always, NEW s \in Sides, env'.monitored = env.monitored,
           peer'[s] \in Loads(s, env.monitored), peer'[s].sd = FALSE,
           peer'[s].send_ev => peer[s].send_ev,
           peer'[s].send_msg = peer[s].send_msg, peer'[s].send_queue = peer[s].send_queue,
           peer'[Other(s)] = peer[Other(s)], wire'[s] = <<>>,
           wire'[Other(s)] \in {wire[Other(s)], <<>>}, held' \subseteq held,
           events'[Other(s)] = events[Other(s)], events'[s] \in Seq(Deeds(s, env.monitored)),
           s = "server" => Shaped(events'[s]) /\ Idle(events'[s]),
           UNCHANGED <<posted, unexpected>>
    PROVE  Always'
  <2> USE <1>ClosedAlways
  <2> DEFINE mon == env.monitored
             u == Other(s)
  <2>1. u \in Sides /\ u # s /\ \A t \in Sides : t = s \/ t = u
    BY SidesLemma DEF Other
  <2>2. /\ ServerPolled
        /\ \A t \in Sides : /\ peer[t] \in Loads(t, mon) /\ Writing(peer[t])
                            /\ wire[t] \in Seq(Bound(t, mon) \X Nat)
                            /\ events[t] \in Seq(Deeds(t, mon))
    BY AlwaysParts DEF Always, Sorted
  <2>3. \A t : <<>> \in Seq(Bound(t, mon) \X Nat)
    BY EmptyLemma
  <2>4. \A t \in Sides : /\ peer'[t] \in Loads(t, mon) /\ wire'[t] \in Seq(Bound(t, mon) \X Nat)
                         /\ events'[t] \in Seq(Deeds(t, mon))
    BY <2>1, <2>2, <2>3
  <2>5. \A t \in Sides : Writing(peer'[t])
    BY <2>1, <2>2 DEF Writing
  <2>6. Shaped(events'["server"]) /\ (~peer'["server"].sd => Idle(events'["server"]))
    <3>1. CASE s = "server"
      BY <3>1
    <3>2. CASE s = "client"
      BY <2>2, <3>2 DEF ServerPolled, Other
    <3> QED BY <3>1, <3>2, SidesLemma
  <2>7. NOTIFY \in PostedTags' /\ held' \subseteq Bound("client", mon)
    BY AlwaysParts DEF PostedTags
  <2>8. \A m \in unexpected' : m.tag = HEARTBEAT /\ ~mon
    BY AlwaysParts
  <2>9. Writing(peer'["client"]) /\ Writing(peer'["server"])
    BY <2>5, SidesLemma
  <2> QED BY <2>4, <2>6, <2>7, <2>8, <2>9, AlwaysFrame

\* A side finds the connection lost.
<1>LostPipe.
    ASSUME IInv, Always, NEW s \in Sides, NextEvent(s, "recv"), ReadFailed(s),
           UNCHANGED <<env, held, unexpected, posted, handled, tag, order>>
    PROVE  Always' /\ (Exact /\ UNCHANGED stray => Exact')
  <2> USE <1>LostPipe
  <2> DEFINE mon == env.monitored
             u == Other(s)
             p == peer[s]
             r == [p EXCEPT !.sd = FALSE, !.send_ev = FALSE, !.recv_msg = None,
                            !.finalized = (s = "server")]
             d == Deleted(Tail(events[s]))
  <2>1. u \in Sides /\ u # s
    BY SidesLemma DEF Other
  <2>2. /\ peer \in [Sides -> Peers] /\ wire \in [Sides -> Seq(Parcels)]
        /\ events \in [Sides -> Seq(Events)] /\ p \in Loads(s, mon)
        /\ events[s] \in Seq(Deeds(s, mon))
    BY DEF IInv, Transit, Always, Sorted
  <2>3. events[s] # <<>> /\ Head(events[s]).ev = "recv"
    BY DEF NextEvent
  <2>4. /\ r \in Loads(s, mon) /\ r.sd = FALSE /\ r.send_ev = FALSE
        /\ r.send_msg = p.send_msg /\ r.send_queue = p.send_queue
    BY <2>2 DEF Loads
  <2>5. peer' = [peer EXCEPT ![s] = r]
    BY <2>2 DEF ReadFailed, LostConnection, Peers
  <2>6. wire' = [wire EXCEPT ![s] = <<>>] /\ events' = [events EXCEPT ![s] = d]
    BY DEF ReadFailed, LostConnection
  <2> HIDE DEF r, d
  <2>7. /\ peer'[s] = r /\ peer'[u] = peer[u] /\ wire'[s] = <<>> /\ wire'[u] = wire[u]
        /\ events'[s] = d /\ events'[u] = events[u]
    BY <2>1, <2>2, <2>5, <2>6
  <2>8. Shaped(events[s])
    <3>1. CASE s = "client"
      BY <3>1 DEF IInv, Polled
    <3>2. CASE s = "server"
      BY <3>2 DEF Always, ServerPolled
    <3> QED BY <3>1, <3>2, SidesLemma
  <2>9. d \in Seq(Deeds(s, mon)) /\ Idle(d) /\ Shaped(d)
    BY <2>2, <2>3, <2>8, QueueDeleted DEF d
  <2>10. Always'
    BY <2>4, <2>7, <2>9, <1>ClosedAlways
  <2>11. ASSUME Exact, UNCHANGED stray PROVE Exact'
    <3>1. events[s] \in Seq(AllEvents)
      BY AlwaysParts, SortedTypes
    <3>2. \A k \in {"reply", "process_msg"} :
             /\ Dynamic(d, KindTag(k)) \subseteq Dynamic(events[s], KindTag(k))
             /\ Distinct(events[s], KindTag(k)) => Distinct(d, KindTag(k))
      BY <2>3, <3>1, <1>DeletedTags DEF d
    <3> QED BY <2>4, <2>7, <2>11, <3>2, <1>ClosedExact
  <2> QED BY <2>10, <2>11

\* The socket of a side is read from.
<1>ReadPipe.
    ASSUME IInv, Always, NEW s \in Sides, NextEvent(s, "recv"), RecvHandler(s),
           UNCHANGED <<env, held, unexpected, posted, handled, tag, order>>
    PROVE  Always' /\ (Exact => Exact')
  <2> USE <1>ReadPipe
  <2> DEFINE B == Bound(s, env.monitored)
  <2>1. Always'
    <3>1. wire[s] \in Seq(B \X Nat) /\ peer[s].recv_msg \in B \cup {None}
      BY DEF Always, Sorted, Loads
    <3>2. \/ \E m \in B : \E rest \in Seq(B \X Nat) : Complete(s, m, rest)
          \/ \E m \in B \cup {None} : \E rest \in Seq(B \X Nat) : Blocked(s, m, rest)
          \/ ReadFailed(s)
      BY <3>1, ReadInto
    <3>3. ASSUME NEW m \in B, NEW rest \in Seq(B \X Nat), Complete(s, m, rest) PROVE Always'
      BY <3>3, <1>CompleteAlways
    <3>4. ASSUME NEW m \in B \cup {None}, NEW rest \in Seq(B \X Nat), Blocked(s, m, rest)
          PROVE  Always'
      BY <3>4, <1>BlockedPipe
    <3>5. CASE ReadFailed(s)
      BY <3>5, <1>LostPipe
    <3> QED BY <3>2, <3>3, <3>4, <3>5
  <2>2. ASSUME Exact PROVE Exact'
    <3>1. peer[s].sd /\ StreamTo(s)
      <4>1. events[s] # <<>> /\ IsHandler(Head(events[s]))
        BY DEF NextEvent, IsHandler
      <4> QED BY <2>2, <4>1, ReaderHasSocket, SidesLemma DEF Exact
    <3>2. ReadOff(s) /\ UNCHANGED stray
      BY <3>1, <1>ReadsInOrder
    <3>3. wire'[s] \in Seq(B \X Nat) /\ peer'[s].recv_msg \in B \cup {None}
      BY <2>1 DEF Always, Sorted, Loads
    <3>4. wire \in [Sides -> Seq(Parcels)] /\ peer \in [Sides -> Peers]
      BY DEF IInv, Transit
    <3>5. ASSUME NEW m \in Messages, NEW rest \in Seq(Wares), Complete(s, m, rest), Cut(rest),
                 Stream(rest \o Unsent(Other(s)), None, peer[Other(s)].sd),
                 Loses(Line(Other(s)), rest \o Unsent(Other(s)), EndTag, m.tag)
          PROVE  Exact'
      <4>1. rest \in Seq(B \X Nat)
        BY <3>3, <3>4, <3>5 DEF Complete
      <4> QED BY <2>2, <3>2, <3>5, <4>1, <1>CompleteExact
    <3>6. ASSUME NEW m \in Messages \cup {None}, NEW rest \in Seq(Wares), Blocked(s, m, rest),
                 Cut(rest), Stream(rest \o Unsent(Other(s)), m, peer[Other(s)].sd),
                 Loses(Line(Other(s)), rest \o Unsent(Other(s)), EndTag, 0)
          PROVE  Exact'
      <4>1. rest \in Seq(B \X Nat)
        BY <3>3, <3>4, <3>6 DEF Blocked
      <4>2. m \in B \cup {None}
        BY <3>3, <3>4, <3>6 DEF Blocked, Peers
      <4> QED BY <2>2, <3>2, <3>6, <4>1, <4>2, <1>BlockedPipe
    <3>7. CASE ReadFailed(s)
      BY <2>2, <3>2, <3>7, <1>LostPipe
    <3> QED BY <3>2, <3>5, <3>6, <3>7 DEF ReadOff
  <2> QED BY <2>1, <2>2

\* Units that are cut off where a process ends: none, or all.
<1>CrashCut.
    ASSUME NEW S, NEW w \in Seq(S), NEW k \in {0, Len(w)}
    PROVE  SubSeq(w, 1, k) \in {w, <<>>}
  <2> USE <1>CrashCut
  <2>1. CASE k = Len(w)
    <3>1. SubSeq(w, 1, k) = w
      BY <2>1, PartsLemma, SMT
    <3> QED BY <3>1
  <2>2. CASE k = 0
    <3>1. SubSeq(w, 1, 0) = <<>>
      BY SMT
    <3> QED BY <2>2, <3>1
  <2> QED BY <2>1, <2>2

\* The process of a side ends.
<1>CrashPipe.
    ASSUME IInv, Always, NEW s \in Sides, Crash(s)
    PROVE  Always' /\ (Exact => Exact')
  <2> USE <1>CrashPipe
  <2> DEFINE mon == env.monitored
             u == Other(s)
             r == [peer[s] EXCEPT !.sd = FALSE]
  <2>1. u \in Sides /\ u # s
    BY SidesLemma DEF Other
  <2>2. /\ peer \in [Sides -> Peers] /\ wire \in [Sides -> Seq(Parcels)]
        /\ events \in [Sides -> Seq(Events)] /\ peer[s] \in Loads(s, mon) /\ env \in Envs
    BY DEF IInv, Transit, Always, Sorted
  <2>3. UNCHANGED <<posted, unexpected, handled, tag, order, stray>>
    BY DEF Crash
  <2>4. env'.monitored = mon /\ held' \subseteq held
    BY <2>2 DEF Crash, Envs
  <2>5. /\ r \in Loads(s, mon) /\ r.sd = FALSE /\ r.send_ev = peer[s].send_ev
        /\ r.send_msg = peer[s].send_msg /\ r.send_queue = peer[s].send_queue
    BY <2>2 DEF Loads
  <2>6. peer' = [peer EXCEPT ![s] = r] /\ events' = [events EXCEPT ![s] = <<>>]
    BY DEF Crash
  <2> HIDE DEF r
  <2>7. /\ peer'[s] = r /\ peer'[u] = peer[u]
        /\ events'[s] = <<>> /\ events'[u] = events[u]
    BY <2>1, <2>2, <2>6
  <2>8. wire'[s] = <<>> /\ wire'[u] \in {wire[u], <<>>}
    <3>1. PICK k \in {0, Len(wire[u])} : wire' = [wire EXCEPT ![u] = SubSeq(@, 1, k), ![s] = <<>>]
      BY DEF Crash
    <3>2. wire'[s] = <<>> /\ wire'[u] = SubSeq(wire[u], 1, k)
      BY <2>1, <2>2, <3>1
    <3>3. SubSeq(wire[u], 1, k) \in {wire[u], <<>>}
      BY <2>1, <2>2, <1>CrashCut
    <3> QED BY <3>2, <3>3
  <2>9. Always'
    <3>1. <<>> \in Seq(Deeds(s, mon)) /\ Shaped(<<>>) /\ Idle(<<>>)
      BY SMT DEF Shaped, Idle
    <3> QED BY <2>3, <2>4, <2>5, <2>7, <2>8, <3>1, <1>ClosedAlways
  <2>10. ASSUME Exact PROVE Exact'
    <3>1. 0 \in Nat
      BY SMT
    <3>2. \A k \in {"reply", "process_msg"} :
             /\ Dynamic(events'[s], KindTag(k)) \subseteq Dynamic(events[s], KindTag(k))
             /\ Distinct(events'[s], KindTag(k))
      BY <2>7, <3>1, TagsNone
    <3> QED BY <2>3, <2>4, <2>5, <2>7, <2>8, <2>10, <3>2, <1>ClosedExact
  <2> QED BY <2>9, <2>10
<1> QED BY <1>ReadPipe, <1>CrashPipe

-----------------------------------------------------------------------------
(* The theorem *)

\* Where it all begins.
LEMMA InitPipe ==
    ASSUME Init
    PROVE  Always /\ Exact
<1>1. /\ \A s \in Sides : /\ events[s] = <<>> /\ wire[s] = <<>>
                          /\ peer[s] = [sd |-> TRUE, finalized |-> FALSE, send_msg |-> None,
                                        send_queue |-> <<>>, send_ev |-> FALSE, recv_msg |-> None]
      /\ held = {} /\ unexpected = {} /\ stray = {} /\ order = <<>> /\ handled = <<>>
      /\ tag = DYNAMIC /\ posted = <<[tag |-> NOTIFY, for |-> "notify"]>>
  BY DEF Init
<1> DEFINE p == [sd |-> TRUE, finalized |-> FALSE, send_msg |-> None, send_queue |-> <<>>,
                 send_ev |-> FALSE, recv_msg |-> None]
<1>2. \A s \in Sides : /\ peer[s].sd = TRUE /\ peer[s].send_msg = <<>>
                       /\ peer[s].send_queue = <<>> /\ peer[s].send_ev = FALSE
                       /\ peer[s].recv_msg = None
  <2>1. /\ p.sd = TRUE /\ p.send_msg = <<>> /\ p.send_queue = <<>> /\ p.send_ev = FALSE
        /\ p.recv_msg = None
    BY SMT DEF None
  <2>2. \A s \in Sides : peer[s] = p
    BY <1>1
  <2> HIDE DEF p
  <2> QED BY <2>1, <2>2
<1>3. \A S : <<>> \in Seq(S)
  BY SMT
<1>4. \A s \in Sides : peer[s] \in Loads(s, env.monitored)
  <2>1. ASSUME NEW A, NEW B, NEW C PROVE
           p \in [sd : BOOLEAN, finalized : BOOLEAN, send_msg : Seq(A), send_queue : Seq(B),
                  send_ev : BOOLEAN, recv_msg : C \cup {None}]
    <3>1. None \in Seq(A) /\ None \in C \cup {None} /\ <<>> \in Seq(B)
      BY <1>3 DEF None
    <3> QED BY <3>1, SMT
  <2>2. \A s \in Sides : peer[s] = p
    BY <1>1
  <2> HIDE DEF p
  <2> QED BY <2>1, <2>2 DEF Loads
<1>5. PostedTags = {NOTIFY}
  <2>1. DOMAIN posted = {1} /\ posted[1].tag = NOTIFY
    BY <1>1, SMT
  <2> QED BY <2>1 DEF PostedTags, TagsIn
<1>6. Shaped(<<>>) /\ Idle(<<>>)
  BY SMT DEF Shaped, Idle
<1>7. Always
  <2>1. Sorted(env.monitored)
    BY <1>1, <1>3, <1>4, <1>5 DEF Sorted
  <2>2. \A s \in Sides : Writing(peer[s])
    BY <1>2 DEF Writing
  <2>3. ServerPolled /\ OnlyBeatsKept
    BY <1>1, <1>6, SidesLemma DEF ServerPolled, OnlyBeatsKept
  <2> QED BY <2>1, <2>2, <2>3, SidesLemma DEF Always
<1>8. \A s \in Sides : Line(s) = <<>> /\ Line(Other(s)) = <<>>
  <2>1. <<>> \o <<>> = <<>>
    BY SMT
  <2>2. \A s \in Sides : Other(s) \in Sides
    BY SidesLemma DEF Other
  <2> QED BY <1>1, <1>2, <2>1, <2>2 DEF Line, Unsent
<1>9. \A s \in Sides : StreamTo(s)
  <2>1. Cut(<<>>) /\ Whole(<<>>) /\ Stream(<<>>, None, TRUE)
    BY SMT DEF Cut, Whole, Stream, Chained, None
  <2>2. \A s \in Sides : Other(s) \in Sides
    BY SidesLemma DEF Other
  <2> QED BY <1>1, <1>2, <1>8, <2>1, <2>2 DEF StreamTo
<1>10. Base = DYNAMIC /\ DYNAMIC \in Nat /\ tag = DYNAMIC /\ Len(handled) = 0 /\ Len(order) = 0
  BY <1>1, SMT DEF Base, DYNAMIC
<1>11. Forward
  BY <1>1, <1>2, <1>8, <1>10, TagsNone, SidesLemma DEF Forward, Flow
<1>12. Backward
  <2>1. \A f : Dynamic(<<>>, f) = {} /\ Distinct(<<>>, f)
    BY <1>10, TagsNone
  <2>2. HeldTags({}) = {}
    BY DEF HeldTags
  <2>3. \A O : Apart({}, {}, {}, {}, {}, O)
    BY DEF Apart
  <2>4. Base + 1 .. tag = {}
    BY <1>10, SMT DEF DYNAMIC
  <2> QED BY <1>1, <1>2, <1>8, <2>1, <2>2, <2>3, <2>4, SidesLemma DEF Backward, Back
<1>13. Len(handled) \in 0 .. Len(order) /\ handled = SubSeq(order, 1, Len(handled))
  BY <1>1, SMT
<1> QED BY <1>1, <1>7, <1>9, <1>11, <1>12, <1>13, SidesLemma DEF Exact

\* Every step keeps the invariant of the message layer.
LEMMA NextPipe ==
    ASSUME Setting, PipeInv, [Next]_vars
    PROVE  PipeInv'
<1>1. IInv /\ Always /\ ("short_hdr" \in env.faults \/ Exact)
  BY DEF PipeInv
<1>2. IInv'
  BY <1>1, Invariance
<1>3. env'.faults = env.faults
  <2>1. env \in Envs
    BY <1>1 DEF IInv, Transit
  <2>2. env' = env \/ env'.faults = env.faults
    <3>1. ASSUME NEW c \in Calls, Call(c) \/ Answer(c) PROVE env' = env
      BY <3>1 DEF Call, Answer
    <3>2. ASSUME NEW s \in Sides, NEW x \in Beats \cup Notes, SendOneway(s, x)
          PROVE  env'.faults = env.faults
      BY <2>1, <3>2 DEF SendOneway, Envs
    <3>3. ASSUME NEW s \in Sides, Poll(s) \/ RunHandler(s) \/ RunEvent(s) PROVE env' = env
      BY <3>3 DEF Poll, RunHandler, RunEvent
    <3>4. ASSUME NEW s \in Sides, Crash(s) PROVE env'.faults = env.faults
      BY <2>1, <3>4 DEF Crash, Envs
    <3>5. CASE UNCHANGED vars
      BY <3>5 DEF vars
    <3> QED BY <3>1, <3>2, <3>3, <3>4, <3>5 DEF Next
  <2> QED BY <2>2
<1>4. Always' /\ ("short_hdr" \notin env.faults /\ Exact => Exact')
  <2>1. ASSUME NEW s \in Sides, RunHandler(s)
        PROVE  Always' /\ ("short_hdr" \notin env.faults /\ Exact => Exact')
    BY <1>1, <2>1, WriteSteps, ReadSteps DEF RunHandler
  <2>2. ASSUME NEW s \in Sides, Crash(s) PROVE Always' /\ (Exact => Exact')
    BY <1>1, <2>2, ReadSteps
  <2>3. ASSUME NEW c \in Calls, Call(c) \/ Answer(c) PROVE Always' /\ (Exact => Exact')
    BY <1>1, <1>2, <2>3, EventSteps
  <2>4. ASSUME NEW s \in Sides, NEW x \in Beats \cup Notes, SendOneway(s, x)
        PROVE  Always' /\ (Exact => Exact')
    BY <1>1, <1>2, <2>4, EventSteps
  <2>5. ASSUME NEW s \in Sides, Poll(s) \/ RunEvent(s) PROVE Always' /\ (Exact => Exact')
    BY <1>1, <1>2, <2>5, EventSteps
  <2>6. CASE UNCHANGED vars
    BY <1>1, <1>2, <2>6, EventSteps
  <2> QED BY <2>1, <2>2, <2>3, <2>4, <2>5, <2>6 DEF Next
<1> QED BY <1>1, <1>2, <1>3, <1>4 DEF PipeInv

\* The invariant says what the run checks.
LEMMA PipeSound ==
    ASSUME Setting, PipeInv
    PROVE  MessagesSound
<1>1. IInv /\ Always /\ ("short_hdr" \in env.faults \/ Exact)
  BY DEF PipeInv
<1>2. /\ order \in Seq(Calls) /\ tag = DYNAMIC + Len(order)
      /\ waiting \cup refused \subseteq Calls /\ waiting \cap refused = {}
      /\ connected \in BOOLEAN
  BY <1>1 DEF IInv, Asked, Polled
<1>3. Len(order) < DynamicTags /\ DynamicTags \in Nat
  <2>1. \A j, k \in DOMAIN order : order[j] = order[k] => j = k
    BY <1>1 DEF IInv, Asked
  <2> QED BY <1>2, <2>1, OrderShort DEF Setting
<1>4. \A k \in 0 .. Len(order) : DYNAMIC + k \in DYNAMIC .. UINT_MAX - 1
  BY <1>2, <1>3, SMT DEF DYNAMIC, UINT_MAX
<1>5. \A i \in DOMAIN posted : posted[i].tag \in {NOTIFY} \cup DYNAMIC .. UINT_MAX - 1
  <2>1. \A k \in DOMAIN order : k \in 0 .. Len(order)
    BY <1>2, SMT
  <2>2. ASSUME NEW i \in DOMAIN posted, IsFor(posted[i].tag, posted[i].for)
        PROVE  posted[i].tag \in DYNAMIC .. UINT_MAX - 1
    <3>1. PICK k \in DOMAIN order : posted[i].tag = DYNAMIC + k
      BY <2>2 DEF IsFor
    <3>2. DYNAMIC + k \in DYNAMIC .. UINT_MAX - 1
      BY <1>4, <2>1
    <3> QED BY <3>1, <3>2
  <2>3. \A i \in DOMAIN posted : posted[i].tag = NOTIFY \/ IsFor(posted[i].tag, posted[i].for)
    BY <1>1 DEF IInv, Receives
  <2> QED BY <2>2, <2>3
<1>6. tag \in DYNAMIC .. UINT_MAX - 1
  <2>1. Len(order) \in 0 .. Len(order)
    BY <1>2, SMT
  <2> QED BY <1>2, <1>4, <2>1
<1>7. \A s \in Sides : peer[s].send_ev => peer[s].send_msg # None
  BY <1>1, AlwaysParts DEF Writing
<1>8. TypeOK
  BY <1>2, <1>5, <1>6, <1>7 DEF TypeOK
<1>9. HandledInOrder /\ NothingStray /\ OnlyBeatsKept
  BY <1>1 DEF Exact, Always, HandledInOrder, NothingStray
<1> QED BY <1>8, <1>9 DEF MessagesSound

\* What a side queued the other handles in that order, by the receive it is
\* meant for, and nothing but unmonitored heartbeats is kept without one: with
\* any number of calls, notifications and heartbeats, while writes are cut
\* short, and when either process ends.
THEOREM MessagesInOrder ==
    ASSUME Setting
    PROVE  Spec => []MessagesSound
<1>1. Init => PipeInv
  BY Invariance, InitPipe DEF PipeInv
<1>2. PipeInv /\ [Next]_vars => PipeInv'
  BY NextPipe
<1>3. PipeInv => MessagesSound
  BY PipeSound
<1> QED BY <1>1, <1>2, <1>3, PTL DEF Spec

=============================================================================
