--------------------------- MODULE MessagingProofs --------------------------
(***************************************************************************)
(* Proofs about Messaging, for any calls, notifications and heartbeats,    *)
(* whatever part of a message a write moves and whoever crashes.  The      *)
(* message layer implements the remote calls of Rpc.  The second half has  *)
(* the invariant of the order in which messages are handled, and the facts *)
(* about queues and streams from which MessageOrderProofs shows it.        *)
(***************************************************************************)
EXTENDS Messaging, TLAPS

\* Most steps are first-order reasoning: Zenon proves them, and those that need
\* arithmetic, records or sequences cite SMT.
USE Zenon

\* There are more tags than calls, so that none is used again (2^32 - 256 in the
\* code): calls without repetition are fewer than the tags.  A lost connection is noticed when reading: after a write that
\* fails, an answer that was read before is still handed to a caller that has
\* been told of the loss.  No message is a notification and a heartbeat.
Setting ==
    /\ DynamicTags \in Nat
    /\ \A o \in Seq(Calls) :
          (\A j, k \in DOMAIN o : o[j] = o[k] => j = k) => Len(o) < DynamicTags
    /\ "lost" \notin Calls /\ "notify" \notin Calls /\ Notes \cap Beats = {}
    /\ Scenarios \subseteq
         [calls : SUBSET Calls, notes : SUBSET Notes, beats : SUBSET Beats,
          monitored : BOOLEAN, faults : SUBSET {"short", "short_hdr", "client", "server"}]

-----------------------------------------------------------------------------
(* The inductive invariant *)

Messages == [tag : Nat, body : Calls \cup Notes \cup Beats, nbytes : {0, 1}]

\* The call of a dynamic tag: the k-th one that was sent has the k-th tag.
IsFor(t, c) == \E k \in DOMAIN order : t = DYNAMIC + k /\ c = order[k]

\* Wherever a message is, its tag says which call it belongs to.
Good(m) == m.tag < DYNAMIC \/ IsFor(m.tag, m.body)
Mails == {m \in Messages : Good(m)}
Parcels == Mails \X Nat

Events ==
    [ev : {"send_recv"}, body : Calls]
    \cup [ev : {"send_oneway"}, body : Notes \cup Beats]
    \cup [ev : {"reply", "process_msg"}, body : Mails]
    \cup [ev : {"recv", "send"}, body : {None}]

Peers ==
    [sd : BOOLEAN, finalized : BOOLEAN, send_msg : Seq(Parcels), send_queue : Seq(Mails),
     send_ev : BOOLEAN, recv_msg : Mails \cup {None}]

Envs ==
    [calls : SUBSET Calls, notes : SUBSET Notes, beats : SUBSET Beats,
     monitored : BOOLEAN, faults : SUBSET {"short", "short_hdr", "client", "server"}]

\* Types, and that whatever is under way is good.
Transit ==
    /\ env \in Envs
    /\ peer \in [Sides -> Peers]
    /\ wire \in [Sides -> Seq(Parcels)]
    /\ held \subseteq Mails
    /\ events \in [Sides -> Seq(Events)]

\* A call is asked for once: by an event of the queue q, or in the order o.
Requests(q, w, o) ==
    /\ \A i \in DOMAIN q : q[i].ev = "send_recv" =>
          q[i].body \in w /\ \A k \in DOMAIN o : o[k] # q[i].body
    /\ \A i, j \in DOMAIN q :
          q[i].ev = "send_recv" /\ q[j].ev = "send_recv" /\ q[i].body = q[j].body => i = j

\* In a queue the socket's events come first, there is at most one read, and
\* none when there is a message to process.
Shaped(q) ==
    /\ \A i \in DOMAIN q : IsHandler(q[i]) => i <= 2
    /\ \A i, j \in DOMAIN q : q[i].ev = "recv" =>
          q[j].ev # "process_msg" /\ (q[j].ev = "recv" => i = j)

\* A queue without events of the socket and of messages that came from it.
Idle(q) == \A i \in DOMAIN q : ~IsHandler(q[i]) /\ q[i].ev # "process_msg"

\* What the calls have come to.
Asked ==
    /\ waiting \subseteq Calls /\ refused \subseteq Calls /\ waiting \cap refused = {}
    /\ order \in Seq(Calls)
    /\ tag = DYNAMIC + Len(order)
    /\ \A j, k \in DOMAIN order : order[j] = order[k] => j = k
    /\ \A k \in DOMAIN order : order[k] \in waiting
    /\ Requests(events["client"], waiting, order)
    /\ \A i \in DOMAIN events["server"] : events["server"][i].ev # "send_recv"

\* The receives: one for each tag, of calls without an outcome while the
\* client is connected.
Receives ==
    /\ outcome \in [Calls -> Seq(Calls \cup {"lost"})]
    /\ posted \in Seq([tag : Nat, for : Calls \cup {"notify"}])
    /\ \A i \in DOMAIN posted :
          \/ posted[i].tag = NOTIFY /\ posted[i].for = "notify"
          \/ IsFor(posted[i].tag, posted[i].for)
    /\ \A i, j \in DOMAIN posted : posted[i].tag = posted[j].tag => i = j
    /\ connected => \A i \in DOMAIN posted :
          posted[i].for \in Calls => outcome[posted[i].for] = <<>>
    /\ \A c \in Calls : \/ outcome[c] = <<>>
                        \/ /\ outcome[c] \in {<<c>>, <<"lost">>}
                           /\ \E k \in DOMAIN order : order[k] = c

\* A client with a socket is connected; without one, nothing comes from it.
Polled ==
    /\ connected \in BOOLEAN
    /\ peer["client"].sd => connected
    /\ Shaped(events["client"])
    /\ ~peer["client"].sd => Idle(events["client"])

IInv == Transit /\ Asked /\ Receives /\ Polled

-----------------------------------------------------------------------------
(* Sequences *)

\* Sequences of the same length with the same elements are equal.
LEMMA SameSeq ==
    ASSUME NEW S, NEW s \in Seq(S), NEW t \in Seq(S),
           Len(s) = Len(t), \A i \in 1 .. Len(s) : s[i] = t[i]
    PROVE  s = t
BY SMT

\* The empty sequence, and what a sequence of a smaller set is.
LEMMA EmptyLemma ==
    ASSUME NEW S
    PROVE  <<>> \in Seq(S)
BY SMT

LEMMA SeqSubset ==
    ASSUME NEW S, NEW T, S \subseteq T, NEW q \in Seq(S)
    PROVE  q \in Seq(T)
BY SMT

\* One sequence after another.
LEMMA ConcatLemma ==
    ASSUME NEW S, NEW s \in Seq(S), NEW t \in Seq(S)
    PROVE  s \o t \in Seq(S) /\ Len(s \o t) = Len(s) + Len(t)
BY SMT

\* Nothing put after a sequence, and nothing before it.
LEMMA ConcatEmpty ==
    ASSUME NEW S, NEW s \in Seq(S)
    PROVE  s \o <<>> = s /\ <<>> \o s = s
<1>1. <<>> \in Seq(S) /\ s \o <<>> \in Seq(S) /\ <<>> \o s \in Seq(S)
  BY SMT
<1>2. Len(s \o <<>>) = Len(s) /\ \A i \in 1 .. Len(s) : (s \o <<>>)[i] = s[i]
  BY SMT
<1>3. Len(<<>> \o s) = Len(s) /\ \A i \in 1 .. Len(s) : (<<>> \o s)[i] = s[i]
  BY SMT
<1>4. s \o <<>> = s
  BY <1>1, <1>2, SameSeq
<1>5. <<>> \o s = s
  BY <1>1, <1>3, SameSeq
<1> QED BY <1>4, <1>5

\* A sequence is its two parts, one after the other.
LEMMA PartsLemma ==
    ASSUME NEW S, NEW x \in Seq(S), NEW k \in 0 .. Len(x)
    PROVE  /\ SubSeq(x, 1, k) \o SubSeq(x, k + 1, Len(x)) = x
           /\ SubSeq(x, 1, Len(x)) = x /\ Len(SubSeq(x, k + 1, Len(x))) = Len(x) - k
<1> DEFINE a == SubSeq(x, 1, k)
           b == SubSeq(x, k + 1, Len(x))
           w == SubSeq(x, 1, Len(x))
<1>1. a \in Seq(S) /\ b \in Seq(S) /\ Len(a) = k /\ Len(b) = Len(x) - k /\ Len(x) \in Nat
  BY SMT
<1>2. \A i \in 1 .. k : a[i] = x[i]
  BY SMT
<1>3. \A i \in 1 .. Len(x) - k : b[i] = x[k + i]
  BY SMT
<1>4. w \in Seq(S) /\ Len(w) = Len(x) /\ \A i \in 1 .. Len(x) : w[i] = x[i]
  BY SMT
<1> HIDE DEF a, b, w
<1>5. a \o b \in Seq(S) /\ Len(a \o b) = Len(x)
  BY <1>1, SMT
<1>6. \A i \in 1 .. Len(x) : (a \o b)[i] = x[i]
  <2> SUFFICES ASSUME NEW i \in 1 .. Len(x) PROVE (a \o b)[i] = x[i]
    OBVIOUS
  <2>1. CASE i \in 1 .. k
    <3>1. (a \o b)[i] = a[i]
      BY <1>1, <2>1, SMT
    <3> QED BY <1>2, <2>1, <3>1
  <2>2. CASE i - k \in 1 .. Len(x) - k
    <3>1. (a \o b)[i] = b[i - k] /\ k + (i - k) = i
      BY <1>1, <2>2, SMT
    <3>2. b[i - k] = x[k + (i - k)]
      BY <1>3, <2>2
    <3> QED BY <3>1, <3>2
  <2> QED BY <1>1, <2>1, <2>2, SMT
<1>7. a \o b = x
  BY <1>5, <1>6, SameSeq
<1>8. w = x
  BY <1>4, SameSeq
<1> QED BY <1>1, <1>7, <1>8 DEF a, b, w

-----------------------------------------------------------------------------
(* Queues of events *)

\* The elements of a tail.
LEMMA TailLemma ==
    ASSUME NEW S, NEW q \in Seq(S), q # <<>>
    PROVE  /\ Tail(q) \in Seq(S)
           /\ \A i \in DOMAIN Tail(q) :
                 i \in Nat \ {0} /\ i + 1 \in DOMAIN q /\ Tail(q)[i] = q[i + 1]
           /\ 1 \in DOMAIN q /\ Head(q) = q[1] /\ Head(q) \in S
BY SMT

\* The elements of a sequence that is appended to.
LEMMA AppendLemma ==
    ASSUME NEW S, NEW q \in Seq(S), NEW e \in S
    PROVE  LET a == Append(q, e)
               n == Len(q) + 1
           IN  /\ a \in Seq(S)
               /\ DOMAIN a = DOMAIN q \cup {n} /\ n \notin DOMAIN q
               /\ \A i \in DOMAIN q : a[i] = q[i]
               /\ a[n] = e
               /\ Len(a) = n /\ n \in Nat /\ DOMAIN q = 1 .. Len(q)
BY SMT

\* An event that has run leaves the queue as it should be.
LEMMA QueueTail ==
    ASSUME NEW S, NEW q \in Seq(S), q # <<>>, NEW w, NEW o
    PROVE  /\ Shaped(q) => Shaped(Tail(q))
           /\ Idle(q) => Idle(Tail(q))
           /\ Requests(q, w, o) => Requests(Tail(q), w, o)
<1> DEFINE t == Tail(q)
<1>1. \A i \in DOMAIN t : i \in Nat \ {0} /\ i + 1 \in DOMAIN q /\ t[i] = q[i + 1]
  BY TailLemma, SMT
<1> HIDE DEF t
<1>2. ASSUME Shaped(q) PROVE Shaped(t)
  <2>1. \A i \in DOMAIN t : IsHandler(t[i]) => i <= 2
    BY <1>1, <1>2, SMT DEF Shaped
  <2>2. ASSUME NEW i \in DOMAIN t, NEW j \in DOMAIN t, t[i].ev = "recv"
        PROVE  t[j].ev # "process_msg" /\ (t[j].ev = "recv" => i = j)
    <3>1. i + 1 \in DOMAIN q /\ j + 1 \in DOMAIN q /\ i \in Nat /\ j \in Nat
      BY <1>1
    <3>2. q[i + 1].ev = "recv" /\ t[j] = q[j + 1]
      BY <1>1, <2>2
    <3>3. q[j + 1].ev # "process_msg" /\ (q[j + 1].ev = "recv" => i + 1 = j + 1)
      BY <1>2, <3>1, <3>2 DEF Shaped
    <3> QED BY <3>1, <3>2, <3>3, SMT
  <2> QED BY <2>1, <2>2 DEF Shaped
<1>3. ASSUME Idle(q) PROVE Idle(t)
  BY <1>1, <1>3 DEF Idle
<1>4. ASSUME Requests(q, w, o) PROVE Requests(t, w, o)
  <2>1. ASSUME NEW i \in DOMAIN t, t[i].ev = "send_recv"
        PROVE  t[i].body \in w /\ \A k \in DOMAIN o : o[k] # t[i].body
    BY <1>1, <1>4, <2>1, SMT DEF Requests
  <2>2. ASSUME NEW i \in DOMAIN t, NEW j \in DOMAIN t,
               t[i].ev = "send_recv", t[j].ev = "send_recv", t[i].body = t[j].body
        PROVE  i = j
    <3>1. /\ i + 1 \in DOMAIN q /\ j + 1 \in DOMAIN q /\ i \in Nat /\ j \in Nat
          /\ t[i] = q[i + 1] /\ t[j] = q[j + 1]
      BY <1>1
    <3>2. i + 1 = j + 1
      BY <1>4, <2>2, <3>1 DEF Requests
    <3> QED BY <3>1, <3>2, SMT
  <2> QED BY <2>1, <2>2 DEF Requests
<1> QED BY <1>2, <1>3, <1>4 DEF t

\* So does a new event of a thread.
LEMMA QueueAppend ==
    ASSUME NEW S, NEW q \in Seq(S), NEW e \in S, ~IsHandler(e),
           e.ev = "process_msg" => \A i \in DOMAIN q : q[i].ev # "recv",
           NEW w, NEW o
    PROVE  /\ Shaped(q) => Shaped(Append(q, e))
           /\ Idle(q) /\ e.ev # "process_msg" => Idle(Append(q, e))
           /\ Requests(q, w, o) /\ e.ev # "send_recv" => Requests(Append(q, e), w, o)
<1> DEFINE a == Append(q, e)
           n == Len(q) + 1
<1>1. /\ DOMAIN a = DOMAIN q \cup {n} /\ n \notin DOMAIN q
      /\ \A i \in DOMAIN q : a[i] = q[i]
      /\ a[n] = e
  BY AppendLemma, SMT
<1> HIDE DEF a, n
<1>2. ASSUME Shaped(q) PROVE Shaped(a)
  <2>1. \A i \in DOMAIN a : IsHandler(a[i]) => i <= 2
    BY <1>1, <1>2 DEF Shaped
  <2>2. ASSUME NEW i \in DOMAIN a, NEW j \in DOMAIN a, a[i].ev = "recv"
        PROVE  a[j].ev # "process_msg" /\ (a[j].ev = "recv" => i = j)
    <3>1. i \in DOMAIN q
      BY <1>1, <2>2 DEF IsHandler
    <3>2. CASE j \in DOMAIN q
      BY <1>1, <1>2, <2>2, <3>1, <3>2 DEF Shaped
    <3>3. CASE j = n
      BY <1>1, <2>2, <3>1, <3>3 DEF IsHandler
    <3> QED BY <1>1, <3>2, <3>3
  <2> QED BY <2>1, <2>2 DEF Shaped
<1>3. ASSUME Idle(q), e.ev # "process_msg" PROVE Idle(a)
  BY <1>1, <1>3 DEF Idle
<1>4. ASSUME Requests(q, w, o), e.ev # "send_recv" PROVE Requests(a, w, o)
  BY <1>1, <1>4 DEF Requests
<1> QED BY <1>2, <1>3, <1>4 DEF a

\* After a read that fails nothing of the socket is left in the queue.
LEMMA QueueDeleted ==
    ASSUME NEW S, NEW q \in Seq(S), q # <<>>, Head(q).ev = "recv", Shaped(q), NEW w, NEW o
    PROVE  LET d == Deleted(Tail(q))
           IN  /\ d \in Seq(S) /\ Idle(d) /\ Shaped(d)
               /\ Requests(q, w, o) => Requests(d, w, o)
<1> DEFINE t == Tail(q)
           d == Deleted(t)
<1>1. /\ t \in Seq(S)
      /\ \A i \in DOMAIN t : i \in Nat \ {0} /\ i + 1 \in DOMAIN q /\ t[i] = q[i + 1]
      /\ 1 \in DOMAIN q /\ q[1].ev = "recv"
  BY TailLemma, SMT
<1>2. Shaped(t) /\ (Requests(q, w, o) => Requests(t, w, o))
  BY QueueTail
<1>3. \A i \in DOMAIN t : t[i].ev # "process_msg" /\ (IsHandler(t[i]) => i = 1)
  BY <1>1, SMT DEF Shaped
<1> HIDE DEF t
<1>4. CASE t # <<>> /\ IsHandler(Head(t))
  <2>1. d = Tail(t)
    BY <1>4 DEF Deleted
  <2>2. /\ d \in Seq(S)
        /\ \A i \in DOMAIN d : i \in Nat \ {0} /\ i + 1 \in DOMAIN t /\ d[i] = t[i + 1]
    BY <1>1, <1>4, <2>1, TailLemma, SMT
  <2>3. Idle(d)
    BY <1>3, <2>2, SMT DEF Idle
  <2> QED BY <1>1, <1>2, <1>4, <2>1, <2>2, <2>3, QueueTail DEF t
<1>5. CASE t = <<>> \/ ~IsHandler(Head(t))
  <2>1. d = t
    BY <1>5 DEF Deleted
  <2>2. \A i \in DOMAIN t : ~IsHandler(t[i])
    BY <1>1, <1>3, <1>5, SMT
  <2>3. Idle(d)
    BY <1>3, <2>1, <2>2 DEF Idle
  <2> QED BY <1>1, <1>2, <2>1, <2>3 DEF t
<1> QED BY <1>4, <1>5

-----------------------------------------------------------------------------
(* Messages under way *)

\* The events by their kinds.
LEMMA EventKinds ==
    ASSUME NEW e \in Events
    PROVE  /\ e.ev = "send_recv" => e.body \in Calls
           /\ e.ev = "send_oneway" => e.body \in Notes \cup Beats
           /\ e.ev \in {"reply", "process_msg"} => e.body \in Mails
BY DEF Events

\* There are two sides.
LEMMA SidesLemma ==
    /\ "client" \in Sides /\ "server" \in Sides
    /\ \A s \in Sides : Other(s) \in Sides /\ (s = "client" \/ s = "server")
BY DEF Sides, Other

-----------------------------------------------------------------------------
(* The steps *)

\* A part of a sequence is a sequence.
LEMMA SubSeqLemma ==
    ASSUME NEW S, NEW q \in Seq(S), NEW a \in Nat \ {0}, NEW b \in 0 .. Len(q)
    PROVE  SubSeq(q, a, b) \in Seq(S)
BY SMT

\* The events that Poll may activate at once.
LEMMA PollQueue ==
    ASSUME NEW q \in {<<"recv">>, <<"send">>, <<"recv", "send">>, <<"send", "recv">>}
    PROVE  LET h == [i \in DOMAIN q |-> [ev |-> q[i], body |-> None]]
           IN  /\ h \in Seq(Events) /\ Shaped(h)
               /\ \A i \in DOMAIN h : h[i].ev # "send_recv"
<1> DEFINE h == [i \in DOMAIN q |-> [ev |-> q[i], body |-> None]]
<1>1. /\ q \in Seq({"recv", "send"}) /\ Len(q) \in {1, 2}
      /\ \A i, j \in DOMAIN q : q[i] = "recv" /\ q[j] = "recv" => i = j
  <2>1. CASE q = <<"recv">>
    BY <2>1, SMT
  <2>2. CASE q = <<"send">>
    BY <2>2, SMT
  <2>3. CASE q = <<"recv", "send">>
    BY <2>3, SMT
  <2>4. CASE q = <<"send", "recv">>
    BY <2>4, SMT
  <2> QED BY <2>1, <2>2, <2>3, <2>4
<1>2. /\ DOMAIN q = 1 .. Len(q) /\ DOMAIN h = DOMAIN q
      /\ \A i \in DOMAIN q : q[i] \in {"recv", "send"} /\ i <= 2
  BY <1>1, SMT
<1>3. \A i \in DOMAIN h : h[i] \in [ev : {"recv", "send"}, body : {None}] /\ h[i].ev = q[i]
  BY <1>2
<1>4. \A i \in DOMAIN h : h[i] \in Events
  BY <1>3 DEF Events
<1>5. h \in Seq(Events)
  <2>1. h = [i \in 1 .. Len(q) |-> h[i]] /\ Len(q) \in Nat
    BY <1>1, <1>2
  <2>2. \A i \in 1 .. Len(q) : h[i] \in Events
    BY <1>2, <1>4
  <2> HIDE DEF h
  <2> QED BY <2>1, <2>2, SMT
<1>6. Shaped(h)
  BY <1>1, <1>2, <1>3 DEF Shaped
<1> QED BY <1>2, <1>3, <1>5, <1>6

\* What a read can come to: a message, a part of one, or the loss. The message is
\* one of those that were on the wire.
LEMMA ReadInto ==
    ASSUME NEW s, NEW B, wire[s] \in Seq(B \X Nat), peer[s].recv_msg \in B \cup {None},
           RecvHandler(s)
    PROVE  \/ \E m \in B : \E rest \in Seq(B \X Nat) : Complete(s, m, rest)
           \/ \E m \in B \cup {None} : \E rest \in Seq(B \X Nat) : Blocked(s, m, rest)
           \/ ReadFailed(s)
<1> DEFINE w == wire[s]
           r == peer[s].recv_msg
           W == B \X Nat
<1>1. w \in Seq(W) /\ r \in B \cup {None}
  OBVIOUS
<1>2. ASSUME NEW m \in B, NEW v \in Seq(W), ReadData(s, m, v)
      PROVE  \/ \E rest \in Seq(W) : Complete(s, m, rest)
             \/ \E rest \in Seq(W) : Blocked(s, m, rest)
             \/ ReadFailed(s)
  <2>1. v # <<>> => Tail(v) \in Seq(W)
    BY TailLemma
  <2> QED BY <1>2, <2>1 DEF ReadData
<1>3. CASE r # None
  <2>1. ReadData(s, r, w) /\ r \in B
    BY <1>1, <1>3 DEF RecvHandler
  <2> QED BY <1>1, <1>2, <2>1
<1>4. CASE r = None /\ Len(w) < HdrUnits
  <2>1. ReadFailed(s) \/ Blocked(s, None, <<>>)
    BY <1>4 DEF RecvHandler
  <2>2. <<>> \in Seq(W)
    BY EmptyLemma
  <2> QED BY <2>1, <2>2
<1>5. CASE r = None /\ ~(Len(w) < HdrUnits)
  <2>1. ReadFailed(s) \/ ReadData(s, w[1][1], SubSeq(w, HdrUnits + 1, Len(w)))
    BY <1>5 DEF RecvHandler
  <2>2. SubSeq(w, HdrUnits + 1, Len(w)) \in Seq(W) /\ w[1] \in W
    <3> HIDE DEF W, w
    <3>1. SubSeq(w, HdrUnits + 1, Len(w)) \in Seq(W)
      BY <1>1, SubSeqLemma, SMT DEF HdrUnits
    <3>2. 1 \in DOMAIN w
      BY <1>1, <1>5, SMT DEF HdrUnits
    <3> QED BY <1>1, <3>1, <3>2, SMT
  <2>3. w[1][1] \in B
    BY <2>2
  <2> QED BY <1>2, <2>1, <2>2, <2>3
<1> QED BY <1>3, <1>4, <1>5

-----------------------------------------------------------------------------
(* A request is sent *)

\* Calls without repetition are no more than there are.
LEMMA OrderShort ==
    ASSUME Setting, NEW o \in Seq(Calls), \A j, k \in DOMAIN o : o[j] = o[k] => j = k
    PROVE  Len(o) < DynamicTags
BY DEF Setting

-----------------------------------------------------------------------------
(* A message is handed to its receive *)

\* A list without its i-th element, and the place of what is then at place j.
Without(q, i) == SubSeq(q, 1, i - 1) \o SubSeq(q, i + 1, Len(q))
Skip(i, j) == IF j < i THEN j ELSE j + 1

\* The elements of a sequence from which one is removed.
LEMMA RemoveLemma ==
    ASSUME NEW S, NEW q \in Seq(S), NEW i \in DOMAIN q
    PROVE  /\ Without(q, i) \in Seq(S)
           /\ \A j \in DOMAIN Without(q, i) :
                 /\ j \in Nat /\ Skip(i, j) \in DOMAIN q \ {i}
                 /\ Without(q, i)[j] = q[Skip(i, j)]
<1> DEFINE b == SubSeq(q, 1, i - 1)
           c == SubSeq(q, i + 1, Len(q))
<1>1. i \in 1 .. Len(q) /\ Len(q) \in Nat
  BY SMT
<1>2. b \in Seq(S) /\ Len(b) = i - 1 /\ \A j \in 1 .. i - 1 : b[j] = q[j]
  BY <1>1, SMT
<1>3. c \in Seq(S) /\ Len(c) = Len(q) - i /\ \A j \in 1 .. Len(q) - i : c[j] = q[i + j]
  BY <1>1, SMT
<1> HIDE DEF b, c
<1>4. b \o c \in Seq(S) /\ Len(b \o c) = Len(q) - 1
  BY <1>1, <1>2, <1>3, SMT
<1>5. ASSUME NEW j \in DOMAIN (b \o c)
      PROVE  j \in Nat /\ Skip(i, j) \in DOMAIN q \ {i} /\ (b \o c)[j] = q[Skip(i, j)]
  <2> USE DEF Skip
  <2>1. j \in 1 .. Len(q) - 1
    BY <1>4, SMT
  <2>2. CASE j < i
    BY <1>1, <1>2, <1>3, <2>1, <2>2, SMT
  <2>3. CASE ~(j < i)
    <3>1. (b \o c)[j] = c[j - (i - 1)]
      BY <1>1, <1>2, <1>3, <2>1, <2>3, SMT
    <3>2. j - (i - 1) \in 1 .. Len(q) - i /\ i + (j - (i - 1)) = j + 1
      BY <1>1, <2>1, <2>3, SMT
    <3>3. \A x \in 1 .. Len(q) - i : i + x = j + 1 => c[x] = q[j + 1]
      <4>1. ASSUME NEW x \in 1 .. Len(q) - i, i + x = j + 1 PROVE c[x] = q[j + 1]
        <5>1. c[x] = q[i + x]
          BY <1>3
        <5> QED BY <4>1, <5>1
      <4> QED BY <4>1
    <3>4. c[j - (i - 1)] = q[j + 1]
      BY <3>2, <3>3
    <3>5. j + 1 \in DOMAIN q \ {i} /\ j \in Nat
      BY <1>1, <2>1, <2>3, SMT
    <3> QED BY <2>3, <3>1, <3>4, <3>5
  <2> QED BY <2>2, <2>3
<1> QED BY <1>4, <1>5 DEF Without, b, c

\* The receive of a message is the one on its tag.
LEMMA TheMatch ==
    ASSUME IInv, NEW m, Matches(m) # {}
    PROVE  FirstMatch(m) \in DOMAIN posted /\ posted[FirstMatch(m)].tag = m.tag
<1>1. PICK i \in Matches(m) : TRUE
  OBVIOUS
<1>2. /\ \A k, l \in DOMAIN posted : posted[k].tag = posted[l].tag => k = l
      /\ posted \in Seq([tag : Nat, for : Calls \cup {"notify"}])
  BY DEF IInv, Receives
<1>3. i \in Nat /\ \A j \in Matches(m) : j = i
  BY <1>1, <1>2, SMT DEF Matches
<1>4. \A j \in Matches(m) : i <= j
  BY <1>3, SMT
<1>5. FirstMatch(m) \in Matches(m)
  BY <1>1, <1>4 DEF FirstMatch
<1> QED BY <1>5 DEF Matches

-----------------------------------------------------------------------------
(* The steps keep the invariant, and implement remote calls *)

\* The invariant holds at first, every step keeps it, and a step of the message
\* layer is one of Rpc or leaves what Rpc sees as it is.
LEMMA Invariance ==
    ASSUME Setting
    PROVE  /\ Init => IInv
           /\ IInv /\ [Next]_vars => IInv'
           /\ IInv /\ IInv' /\ [Next]_vars => [Answers!Next]_(Answers!vars)
\* What is good depends on the order of the calls alone.
<1>SameOrder.
    ASSUME order' = order
    PROVE  /\ Mails' = Mails /\ Parcels' = Parcels /\ Events' = Events /\ Peers' = Peers
           /\ \A t, c : IsFor(t, c)' <=> IsFor(t, c)
  BY <1>SameOrder DEF Mails, Parcels, Events, Peers, Good, IsFor

\* A message is cut into units that all bear it.
<1>UnitsGood.
    ASSUME NEW m \in Mails
    PROVE  Units(m) \in Seq(Parcels)
  <2> USE <1>UnitsGood
  <2>1. m.nbytes \in {0, 1}
    BY DEF Mails, Messages
  <2>2. HdrUnits + m.nbytes \in Nat
    BY <2>1, SMT DEF HdrUnits
  <2>3. \A i \in 1 .. HdrUnits + m.nbytes : <<m, i>> \in Parcels
    BY SMT DEF Parcels
  <2> HIDE DEF HdrUnits
  <2> QED BY <2>2, <2>3, SMT DEF Units

\* A message that is queued keeps the peer as it should be.
<1>QueuedGood.
    ASSUME NEW p \in Peers, NEW m \in Mails
    PROVE  Queued(p, m) \in Peers /\ Queued(p, m).sd = p.sd
  <2> USE <1>QueuedGood
  <2>1. CASE p.send_msg = None
    <3>1. Queued(p, m) = [p EXCEPT !.send_msg = Units(m), !.send_ev = TRUE]
      BY <2>1 DEF Queued
    <3> QED BY <3>1, <1>UnitsGood DEF Peers
  <2>2. CASE p.send_msg # None
    <3>1. Queued(p, m) = [p EXCEPT !.send_queue = Append(@, m), !.send_ev = TRUE]
      BY <2>2 DEF Queued
    <3>2. Append(p.send_queue, m) \in Seq(Mails)
      BY SMT DEF Peers
    <3> QED BY <3>1, <3>2 DEF Peers
  <2> QED BY <2>1, <2>2

\* A step that moves messages and events about, with the receives, the calls'
\* outcomes and the order as they are, keeps the invariant.
<1>Frame.
    ASSUME IInv,
           UNCHANGED <<order, tag, posted, connected, outcome>>,
           waiting \subseteq waiting', waiting' \subseteq Calls, refused' \subseteq Calls,
           waiting' \cap refused' = {},
           env' \in Envs, peer' \in [Sides -> Peers], wire' \in [Sides -> Seq(Parcels)],
           held' \subseteq Mails, events' \in [Sides -> Seq(Events)],
           Requests(events'["client"], waiting', order),
           \A i \in DOMAIN events'["server"] : events'["server"][i].ev # "send_recv",
           Shaped(events'["client"]),
           peer'["client"].sd => peer["client"].sd,
           ~peer'["client"].sd => Idle(events'["client"])
    PROVE  IInv'
  <2> USE <1>Frame
  <2>1. Transit'
    BY <1>SameOrder DEF Transit, Envs
  <2>2. Asked'
    <3>1. order' \in Seq(Calls) /\ tag' = DYNAMIC + Len(order')
      BY DEF IInv, Asked
    <3>2. /\ \A j, k \in DOMAIN order' : order'[j] = order'[k] => j = k
          /\ \A k \in DOMAIN order' : order'[k] \in waiting'
      BY DEF IInv, Asked
    <3>3. Requests(events'["client"], waiting', order')
      OBVIOUS
    <3> QED BY <3>1, <3>2, <3>3 DEF Asked, Requests
  <2>3. Receives'
    BY <1>SameOrder DEF IInv, Receives
  <2>4. Polled'
    BY DEF IInv, Polled, Shaped, Idle, IsHandler
  <2> QED BY <2>1, <2>2, <2>3, <2>4 DEF IInv

\* The running event of a side leaves its queue.
<1>Consumed.
    ASSUME IInv, NEW s \in Sides, events[s] # <<>>,
           events' = [events EXCEPT ![s] = Tail(@)]
    PROVE  /\ events' \in [Sides -> Seq(Events)]
           /\ Requests(events'["client"], waiting, order)
           /\ \A i \in DOMAIN events'["server"] : events'["server"][i].ev # "send_recv"
           /\ Shaped(events'["client"])
           /\ Idle(events["client"]) => Idle(events'["client"])
  <2> USE <1>Consumed
  <2>1. /\ events \in [Sides -> Seq(Events)]
        /\ Requests(events["client"], waiting, order) /\ Shaped(events["client"])
        /\ \A i \in DOMAIN events["server"] : events["server"][i].ev # "send_recv"
    BY DEF IInv, Transit, Asked, Polled
  <2>2. /\ Tail(events[s]) \in Seq(Events)
        /\ \A i \in DOMAIN Tail(events[s]) :
              i + 1 \in DOMAIN events[s] /\ Tail(events[s])[i] = events[s][i + 1]
    BY <2>1, TailLemma, SMT
  <2>3. events' \in [Sides -> Seq(Events)]
    BY <2>1, <2>2
  <2>4. /\ events'[s] = Tail(events[s])
        /\ \A u \in Sides : u # s => events'[u] = events[u]
    BY <2>1
  <2>5. CASE s = "client"
    BY <2>1, <2>3, <2>4, <2>5, QueueTail, SidesLemma
  <2>6. CASE s = "server"
    BY <2>1, <2>2, <2>3, <2>4, <2>6, SidesLemma, SMT
  <2> QED BY <2>5, <2>6, SidesLemma

\* A new event e of a thread of side s joins its queue.
<1>Joined.
    ASSUME IInv, NEW s \in Sides, NEW e \in Events,
           ~IsHandler(e), e.ev \notin {"process_msg", "send_recv"},
           events' = [events EXCEPT ![s] = Append(@, e)]
    PROVE  /\ events' \in [Sides -> Seq(Events)]
           /\ Requests(events'["client"], waiting, order)
           /\ \A i \in DOMAIN events'["server"] : events'["server"][i].ev # "send_recv"
           /\ Shaped(events'["client"])
           /\ Idle(events["client"]) => Idle(events'["client"])
  <2> USE <1>Joined
  <2>1. /\ events \in [Sides -> Seq(Events)]
        /\ Requests(events["client"], waiting, order) /\ Shaped(events["client"])
        /\ \A i \in DOMAIN events["server"] : events["server"][i].ev # "send_recv"
    BY DEF IInv, Transit, Asked, Polled
  <2>2. LET a == Append(events[s], e)
        IN  /\ a \in Seq(Events)
            /\ DOMAIN a = DOMAIN events[s] \cup {Len(events[s]) + 1}
            /\ \A i \in DOMAIN events[s] : a[i] = events[s][i]
            /\ a[Len(events[s]) + 1] = e
    BY <2>1, AppendLemma, SMT
  <2>3. events' \in [Sides -> Seq(Events)]
    BY <2>1, <2>2
  <2>4. /\ events'[s] = Append(events[s], e)
        /\ \A u \in Sides : u # s => events'[u] = events[u]
    BY <2>1
  <2>5. CASE s = "client"
    <3>1. /\ Shaped(Append(events[s], e))
          /\ Idle(events[s]) => Idle(Append(events[s], e))
          /\ Requests(Append(events[s], e), waiting, order)
      BY <2>1, <2>5, QueueAppend
    <3> QED BY <2>1, <2>3, <2>4, <2>5, <3>1, SidesLemma
  <2>6. CASE s = "server"
    BY <2>1, <2>2, <2>3, <2>4, <2>6, SidesLemma, SMT
  <2> QED BY <2>5, <2>6, SidesLemma

(* The steps *)
\* Initially nothing is sent.
<1>InitInv.
    ASSUME Setting, Init
    PROVE  IInv
  <2> USE <1>InitInv
  <2>1. env \in Envs
    BY DEF Init, Setting, Envs
  <2>2. \A s \in Sides : events[s] = <<>> /\ DOMAIN events[s] = {}
    BY SMT DEF Init
  <2>3. Transit
    <3>1. <<>> \in Seq(Parcels) /\ <<>> \in Seq(Mails) /\ <<>> \in Seq(Events)
      BY SMT
    <3>2. peer \in [Sides -> Peers]
      BY <3>1 DEF Init, Peers, None
    <3>3. wire \in [Sides -> Seq(Parcels)] /\ events \in [Sides -> Seq(Events)] /\ held \subseteq Mails
      BY <3>1 DEF Init
    <3> QED BY <2>1, <3>2, <3>3 DEF Transit
  <2>4. order = <<>> /\ DOMAIN order = {} /\ order \in Seq(Calls) /\ Len(order) = 0
    BY SMT DEF Init
  <2>5. Asked
    BY <2>2, <2>4, SidesLemma, SMT DEF Init, Asked, Requests, DYNAMIC
  <2>6. Receives
    <3>1. outcome \in [Calls -> Seq(Calls \cup {"lost"})] /\ \A c \in Calls : outcome[c] = <<>>
      BY SMT DEF Init
    <3>2. posted = <<[tag |-> NOTIFY, for |-> "notify"]>>
      BY DEF Init
    <3>3. [tag |-> NOTIFY, for |-> "notify"] \in [tag : Nat, for : Calls \cup {"notify"}]
      BY DEF NOTIFY
    <3>4. /\ posted \in Seq([tag : Nat, for : Calls \cup {"notify"}])
          /\ DOMAIN posted = {1} /\ posted[1].tag = NOTIFY /\ posted[1].for = "notify"
      BY <3>2, <3>3, SMT
    <3>5. "notify" \notin Calls
      BY DEF Setting
    <3> QED BY <3>1, <3>4, <3>5 DEF Receives
  <2>7. Polled
    BY <2>2, SidesLemma DEF Init, Polled, Shaped
  <2> QED BY <2>3, <2>5, <2>6, <2>7 DEF IInv

\* A thread of the client makes a call.
<1>CallInv.
    ASSUME IInv, NEW c \in Calls, Call(c)
    PROVE  IInv'
  <2> USE <1>CallInv
  <2> USE DEF IInv
  <2>1. UNCHANGED <<env, outcome, connected, tag, posted, order, peer, wire, held>>
    BY DEF Call
  <2>2. c \in env.calls /\ c \notin waiting /\ c \notin refused
    BY DEF Call
  <2>3. /\ env' \in Envs /\ peer' \in [Sides -> Peers] /\ wire' \in [Sides -> Seq(Parcels)]
        /\ held' \subseteq Mails /\ peer'["client"].sd = peer["client"].sd
        /\ waiting \subseteq Calls /\ refused \subseteq Calls /\ waiting \cap refused = {}
    BY <2>1 DEF Transit, Asked
  <2>4. CASE connected
    <3> DEFINE e == [ev |-> "send_recv", body |-> c]
               q == events["client"]
               a == Append(q, e)
               n == Len(q) + 1
    <3>1. /\ waiting' = waiting \cup {c} /\ refused' = refused
          /\ events' = [events EXCEPT !["client"] = a]
      BY <2>4 DEF Call
    <3>2. e \in Events /\ ~IsHandler(e) /\ e.ev = "send_recv" /\ e.body = c
      BY DEF Events, IsHandler
    <3>3. events \in [Sides -> Seq(Events)] /\ q \in Seq(Events)
      BY SidesLemma DEF Transit
    <3> HIDE DEF e
    <3>4. /\ a \in Seq(Events)
          /\ DOMAIN a = DOMAIN q \cup {n} /\ n \notin DOMAIN q
          /\ \A i \in DOMAIN q : a[i] = q[i]
          /\ a[n] = e
      BY <3>2, <3>3, AppendLemma, SMT
    <3>5. Shaped(a) /\ (Idle(q) => Idle(a))
      <4>1. Shaped(q)
        BY DEF Polled
      <4> QED BY <3>2, <3>3, <4>1, QueueAppend
    <3> HIDE DEF a, n
    <3>6. /\ Requests(q, waiting, order)
          /\ \A k \in DOMAIN order : order[k] \in waiting
      BY DEF Asked
    <3> HIDE DEF q
    <3>7. Requests(a, waiting', order)
      <4>1. \A i \in DOMAIN q : q[i].ev = "send_recv" => q[i].body # c
        BY <2>2, <3>6 DEF Requests
      <4>2. ASSUME NEW i \in DOMAIN a, a[i].ev = "send_recv"
            PROVE  a[i].body \in waiting' /\ \A k \in DOMAIN order : order[k] # a[i].body
        BY <2>2, <3>1, <3>2, <3>4, <3>6, <4>2 DEF Requests
      <4>3. ASSUME NEW i \in DOMAIN a, NEW j \in DOMAIN a,
                   a[i].ev = "send_recv", a[j].ev = "send_recv", a[i].body = a[j].body
            PROVE  i = j
        BY <3>2, <3>4, <3>6, <4>1, <4>3 DEF Requests
      <4> QED BY <4>2, <4>3 DEF Requests
    <3>8. /\ events' \in [Sides -> Seq(Events)]
          /\ events'["client"] = a /\ events'["server"] = events["server"]
      BY <3>1, <3>3, <3>4, SidesLemma
    <3>9. \A i \in DOMAIN events'["server"] : events'["server"][i].ev # "send_recv"
      BY <3>8 DEF Asked
    <3>10. ~peer'["client"].sd => Idle(events'["client"])
      BY <2>3, <3>5, <3>8 DEF Polled, q
    <3> QED BY <2>1, <2>2, <2>3, <3>1, <3>5, <3>7, <3>8, <3>9, <3>10, <1>Frame
  <2>5. CASE ~connected
    <3>1. refused' = refused \cup {c} /\ waiting' = waiting /\ events' = events
      BY <2>5 DEF Call
    <3>2. /\ events' \in [Sides -> Seq(Events)]
          /\ Requests(events'["client"], waiting', order)
          /\ \A i \in DOMAIN events'["server"] : events'["server"][i].ev # "send_recv"
          /\ Shaped(events'["client"])
          /\ ~peer'["client"].sd => Idle(events'["client"])
      BY <2>3, <3>1 DEF Transit, Asked, Polled
    <3> QED BY <2>1, <2>2, <2>3, <3>1, <3>2, <1>Frame
  <2> QED BY <2>4, <2>5

\* A step in which a new event of a thread joins the queue of its side.
<1>JoinedInv.
    ASSUME IInv, NEW s \in Sides, NEW e \in Events,
           ~IsHandler(e), e.ev \notin {"process_msg", "send_recv"},
           events' = [events EXCEPT ![s] = Append(@, e)],
           env' \in Envs, held' \subseteq Mails,
           UNCHANGED <<waiting, refused, outcome, connected, tag, posted, order, peer, wire>>
    PROVE  IInv'
  <2> USE <1>JoinedInv
  <2>1. /\ waiting \subseteq Calls /\ refused \subseteq Calls /\ waiting \cap refused = {}
        /\ peer \in [Sides -> Peers] /\ wire \in [Sides -> Seq(Parcels)]
        /\ ~peer["client"].sd => Idle(events["client"])
    BY DEF IInv, Transit, Asked, Polled
  <2>2. /\ events' \in [Sides -> Seq(Events)]
        /\ Requests(events'["client"], waiting, order)
        /\ \A i \in DOMAIN events'["server"] : events'["server"][i].ev # "send_recv"
        /\ Shaped(events'["client"])
        /\ Idle(events["client"]) => Idle(events'["client"])
    BY <1>Joined
  <2> QED BY <2>1, <2>2, <1>Frame

\* A message without an answer goes out.
<1>SendOnewayInv.
    ASSUME IInv, NEW s \in Sides, NEW x \in Beats \cup Notes, SendOneway(s, x)
    PROVE  IInv'
  <2> USE <1>SendOnewayInv
  <2> DEFINE e == [ev |-> "send_oneway", body |-> x]
  <2>1. e \in Events /\ ~IsHandler(e) /\ e.ev \notin {"process_msg", "send_recv"}
    BY DEF Events, IsHandler
  <2>2. env \in Envs /\ held \subseteq Mails
    BY DEF IInv, Transit
  <2>3. env' \in Envs
    BY <2>2 DEF SendOneway, Envs
  <2>4. /\ events' = [events EXCEPT ![s] = Append(@, e)] /\ held' = held
        /\ UNCHANGED <<waiting, refused, outcome, connected, tag, posted, order, peer, wire>>
    BY DEF SendOneway
  <2> HIDE DEF e
  <2> QED BY <2>1, <2>2, <2>3, <2>4, <1>JoinedInv

\* The server has an answer.
<1>AnswerInv.
    ASSUME IInv, NEW c \in Calls, Answer(c)
    PROVE  IInv'
  <2> USE <1>AnswerInv
  <2>1. PICK m \in held : /\ held' = held \ {m}
                          /\ events' = [events EXCEPT !["server"] =
                                           Append(@, [ev |-> "reply", body |-> m])]
    BY DEF Answer
  <2> DEFINE e == [ev |-> "reply", body |-> m]
  <2>2. env \in Envs /\ held \subseteq Mails
    BY DEF IInv, Transit
  <2>3. e \in Events /\ ~IsHandler(e) /\ e.ev \notin {"process_msg", "send_recv"}
    BY <2>1, <2>2 DEF Events, IsHandler
  <2>4. UNCHANGED <<env, waiting, refused, outcome, connected, tag, posted, order, peer, wire>>
    BY DEF Answer
  <2>5. events' = [events EXCEPT !["server"] = Append(@, e)]
    BY <2>1
  <2> HIDE DEF e
  <2> QED BY <2>1, <2>2, <2>3, <2>4, <2>5, <1>JoinedInv, SidesLemma

\* The progress thread of a side polls its socket.
<1>PollInv.
    ASSUME IInv, NEW s \in Sides, Poll(s)
    PROVE  IInv'
  <2> USE <1>PollInv
  <2>1. PICK q \in {<<"recv">>, <<"send">>, <<"recv", "send">>, <<"send", "recv">>} :
           events' = [events EXCEPT ![s] = [i \in DOMAIN q |-> [ev |-> q[i], body |-> None]]]
    BY DEF Poll
  <2> DEFINE h == [i \in DOMAIN q |-> [ev |-> q[i], body |-> None]]
  <2>2. h \in Seq(Events) /\ Shaped(h) /\ \A i \in DOMAIN h : h[i].ev # "send_recv"
    BY PollQueue
  <2>3. events' = [events EXCEPT ![s] = h]
    BY <2>1
  <2> HIDE DEF h
  <2>4. peer[s].sd
    BY DEF Poll, Ready
  <2>5. UNCHANGED <<env, waiting, refused, outcome, connected, tag, posted, order, peer, wire, held>>
    BY DEF Poll
  <2>6. /\ events \in [Sides -> Seq(Events)]
        /\ env \in Envs /\ peer \in [Sides -> Peers] /\ wire \in [Sides -> Seq(Parcels)]
        /\ held \subseteq Mails
        /\ waiting \subseteq Calls /\ refused \subseteq Calls /\ waiting \cap refused = {}
        /\ Requests(events["client"], waiting, order) /\ Shaped(events["client"])
        /\ \A i \in DOMAIN events["server"] : events["server"][i].ev # "send_recv"
        /\ ~peer["client"].sd => Idle(events["client"])
    BY DEF IInv, Transit, Asked, Polled
  <2>7. /\ events' \in [Sides -> Seq(Events)] /\ events'[s] = h
        /\ \A u \in Sides : u # s => events'[u] = events[u]
    BY <2>2, <2>3, <2>6
  <2>8. Requests(h, waiting, order)
    BY <2>2 DEF Requests
  <2>9. /\ Requests(events'["client"], waiting, order) /\ Shaped(events'["client"])
        /\ \A i \in DOMAIN events'["server"] : events'["server"][i].ev # "send_recv"
        /\ ~peer["client"].sd => Idle(events'["client"])
    <3>1. CASE s = "client"
      BY <2>2, <2>4, <2>6, <2>7, <2>8, <3>1, SidesLemma
    <3>2. CASE s = "server"
      BY <2>2, <2>6, <2>7, <3>2, SidesLemma
    <3> QED BY <3>1, <3>2, SidesLemma
  <2> QED BY <2>5, <2>6, <2>7, <2>9, <1>Frame

\* A step that consumes the event at the head of a queue and moves messages.
<1>ConsumedInv.
    ASSUME IInv, NEW s \in Sides, events[s] # <<>>,
           events' = [events EXCEPT ![s] = Tail(@)],
           env' \in Envs, peer' \in [Sides -> Peers], wire' \in [Sides -> Seq(Parcels)],
           held' \subseteq Mails, peer'["client"].sd = peer["client"].sd,
           UNCHANGED <<waiting, refused, outcome, connected, tag, posted, order>>
    PROVE  IInv'
  <2> USE <1>ConsumedInv
  <2>1. /\ waiting \subseteq Calls /\ refused \subseteq Calls /\ waiting \cap refused = {}
        /\ ~peer["client"].sd => Idle(events["client"])
    BY DEF IInv, Asked, Polled
  <2>2. /\ events' \in [Sides -> Seq(Events)]
        /\ Requests(events'["client"], waiting, order)
        /\ \A i \in DOMAIN events'["server"] : events'["server"][i].ev # "send_recv"
        /\ Shaped(events'["client"])
        /\ Idle(events["client"]) => Idle(events'["client"])
    BY <1>Consumed
  <2> QED BY <2>1, <2>2, <1>Frame

\* A write moves a part of the message to the wire.
<1>WroteInv.
    ASSUME IInv, NEW s \in Sides, NextEvent(s, "send"), NEW k \in Written(s), Wrote(s, k),
           events' = [events EXCEPT ![s] = Tail(@)],
           UNCHANGED <<env, held, waiting, refused, outcome, connected, tag, posted, order>>
    PROVE  IInv'
  <2> USE <1>WroteInv
  <2> DEFINE p == peer[s]
             left == p.send_msg
             queue == p.send_queue
  <2>1. /\ peer \in [Sides -> Peers] /\ wire \in [Sides -> Seq(Parcels)]
        /\ env \in Envs /\ held \subseteq Mails
    BY DEF IInv, Transit
  <2>2. p \in Peers /\ left \in Seq(Parcels) /\ queue \in Seq(Mails)
    BY <2>1 DEF Peers
  <2>3. k \in 0 .. Len(left)
    BY <2>2, SMT DEF Written, HdrUnits
  <2>4. wire' \in [Sides -> Seq(Parcels)]
    <3>1. SubSeq(left, 1, k) \in Seq(Parcels)
      BY <2>2, <2>3, SubSeqLemma, SMT
    <3>2. wire[Other(s)] \o SubSeq(left, 1, k) \in Seq(Parcels)
      BY <2>1, <3>1, SidesLemma, SMT
    <3>3. wire' = [wire EXCEPT ![Other(s)] = wire[Other(s)] \o SubSeq(left, 1, k)]
      BY DEF Wrote
    <3> QED BY <2>1, <3>2, <3>3
  <2>5. \E r \in Peers : r.sd = p.sd /\ peer' = [peer EXCEPT ![s] = r]
    <3>1. CASE k < Len(left)
      <4> DEFINE r == [p EXCEPT !.send_msg = SubSeq(left, k + 1, Len(left))]
      <4>1. SubSeq(left, k + 1, Len(left)) \in Seq(Parcels)
        BY <2>2, <2>3, SubSeqLemma, SMT
      <4>2. r \in Peers /\ r.sd = p.sd
        BY <2>2, <4>1 DEF Peers
      <4>3. peer' = [peer EXCEPT ![s] = r]
        BY <3>1 DEF Wrote
      <4> QED BY <4>2, <4>3
    <3>2. CASE ~(k < Len(left)) /\ queue = <<>>
      <4> DEFINE r == [p EXCEPT !.send_msg = None, !.send_ev = FALSE]
      <4>1. None \in Seq(Parcels)
        BY SMT DEF None
      <4>2. r \in Peers /\ r.sd = p.sd
        BY <2>2, <4>1 DEF Peers
      <4>3. peer' = [peer EXCEPT ![s] = r]
        BY <3>2 DEF Wrote
      <4> QED BY <4>2, <4>3
    <3>3. CASE ~(k < Len(left)) /\ queue # <<>>
      <4> DEFINE r == [p EXCEPT !.send_msg = Units(Head(queue)), !.send_queue = Tail(queue)]
      <4>1. Head(queue) \in Mails /\ Tail(queue) \in Seq(Mails)
        BY <2>2, <3>3, TailLemma
      <4>2. Units(Head(queue)) \in Seq(Parcels)
        BY <4>1, <1>UnitsGood
      <4>3. r \in Peers /\ r.sd = p.sd
        BY <2>2, <4>1, <4>2 DEF Peers
      <4>4. peer' = [peer EXCEPT ![s] = r]
        BY <3>3 DEF Wrote
      <4> QED BY <4>3, <4>4
    <3> QED BY <3>1, <3>2, <3>3
  <2>6. peer' \in [Sides -> Peers] /\ peer'["client"].sd = peer["client"].sd
    BY <2>1, <2>5, SidesLemma
  <2>7. events[s] # <<>>
    BY DEF NextEvent
  <2>8. env' \in Envs /\ held' \subseteq Mails
    BY <2>1
  <2> QED BY <2>4, <2>6, <2>7, <2>8, <1>ConsumedInv

\* The messages that are read are good.
<1>ReadCases.
    ASSUME IInv, NEW s \in Sides, RecvHandler(s)
    PROVE  \/ \E m \in Mails : \E rest \in Seq(Parcels) : Complete(s, m, rest)
           \/ \E m \in Mails \cup {None} : \E rest \in Seq(Parcels) : Blocked(s, m, rest)
           \/ ReadFailed(s)
  <2> USE <1>ReadCases
  <2>1. wire[s] \in Seq(Mails \X Nat) /\ peer[s].recv_msg \in Mails \cup {None}
    BY DEF IInv, Transit, Peers, Parcels
  <2> QED BY <2>1, ReadInto DEF Parcels

\* A handler that runs has a socket.
<1>HandlerHasSocket.
    ASSUME IInv, NextEvent("client", "recv") \/ NextEvent("client", "process_msg")
    PROVE  peer["client"].sd /\ connected
  <2> USE <1>HandlerHasSocket
  <2> DEFINE q == events["client"]
  <2>1. q \in Seq(Events) /\ q # <<>>
    BY SidesLemma DEF IInv, Transit, NextEvent
  <2>2. 1 \in DOMAIN q /\ q[1].ev \in {"recv", "process_msg"}
    BY <2>1, TailLemma DEF NextEvent
  <2>3. ~Idle(q)
    BY <2>2 DEF Idle, IsHandler
  <2> QED BY <2>3 DEF IInv, Polled

\* A part of a message was read.
<1>BlockedInv.
    ASSUME IInv, NEW s \in Sides, NextEvent(s, "recv"),
           NEW m \in Mails \cup {None}, NEW rest \in Seq(Parcels), Blocked(s, m, rest),
           UNCHANGED <<env, held, waiting, refused, tag, posted, order>>
    PROVE  IInv'
  <2> USE <1>BlockedInv
  <2>1. /\ peer \in [Sides -> Peers] /\ wire \in [Sides -> Seq(Parcels)]
        /\ env \in Envs /\ held \subseteq Mails
    BY DEF IInv, Transit
  <2> DEFINE r == [peer[s] EXCEPT !.recv_msg = m]
  <2>2. r \in Peers /\ r.sd = peer[s].sd
    BY <2>1 DEF Peers
  <2>3. peer' = [peer EXCEPT ![s] = r]
    BY DEF Blocked
  <2> HIDE DEF r
  <2>4. peer' \in [Sides -> Peers] /\ peer'["client"].sd = peer["client"].sd
    BY <2>1, <2>2, <2>3, SidesLemma
  <2>5. wire' \in [Sides -> Seq(Parcels)]
    BY <2>1 DEF Blocked
  <2>6. events[s] # <<>> /\ env' \in Envs /\ held' \subseteq Mails
    BY <2>1 DEF NextEvent
  <2>7. /\ events' = [events EXCEPT ![s] = Tail(@)]
        /\ UNCHANGED <<waiting, refused, outcome, connected, tag, posted, order>>
    BY DEF Blocked
  <2> QED BY <2>4, <2>5, <2>6, <2>7, <1>ConsumedInv

\* A message was read: it is to be processed after the events in the queue.
<1>CompleteInv.
    ASSUME IInv, NEW s \in Sides, NextEvent(s, "recv"),
           NEW m \in Mails, NEW rest \in Seq(Parcels), Complete(s, m, rest),
           UNCHANGED <<env, held, waiting, refused, tag, posted, order>>
    PROVE  IInv'
  <2> USE <1>CompleteInv
  <2>1. /\ peer \in [Sides -> Peers] /\ wire \in [Sides -> Seq(Parcels)]
        /\ events \in [Sides -> Seq(Events)]
        /\ env \in Envs /\ held \subseteq Mails
        /\ waiting \subseteq Calls /\ refused \subseteq Calls /\ waiting \cap refused = {}
        /\ Requests(events["client"], waiting, order) /\ Shaped(events["client"])
        /\ \A i \in DOMAIN events["server"] : events["server"][i].ev # "send_recv"
        /\ ~peer["client"].sd => Idle(events["client"])
    BY DEF IInv, Transit, Asked, Polled
  <2> DEFINE r == [peer[s] EXCEPT !.recv_msg = None]
  <2>2. r \in Peers /\ r.sd = peer[s].sd
    BY <2>1 DEF Peers
  <2>3. peer' = [peer EXCEPT ![s] = r]
    BY DEF Complete
  <2> HIDE DEF r
  <2>4. peer' \in [Sides -> Peers] /\ peer'["client"].sd = peer["client"].sd
    BY <2>1, <2>2, <2>3, SidesLemma
  <2>5. wire' \in [Sides -> Seq(Parcels)]
    BY <2>1 DEF Complete
  <2> DEFINE e == [ev |-> "process_msg", body |-> m]
             q == events[s]
             t == Tail(q)
             a == Append(t, e)
  <2>6. e \in Events /\ ~IsHandler(e) /\ e.ev = "process_msg"
    BY DEF Events, IsHandler
  <2>7. events' = [events EXCEPT ![s] = a]
    BY DEF Complete
  <2> HIDE DEF e
  <2>8. q \in Seq(Events) /\ q # <<>> /\ Head(q).ev = "recv"
    BY <2>1 DEF NextEvent
  <2> HIDE DEF q
  <2>9. /\ t \in Seq(Events)
        /\ \A i \in DOMAIN t : i \in Nat \ {0} /\ i + 1 \in DOMAIN q /\ t[i] = q[i + 1]
        /\ 1 \in DOMAIN q /\ q[1].ev = "recv"
    BY <2>8, TailLemma, SMT
  <2>10. a \in Seq(Events) /\ \A i \in DOMAIN a : (i \in DOMAIN t /\ a[i] = t[i]) \/ a[i] = e
    <3> HIDE DEF t
    <3> QED BY <2>6, <2>9, AppendLemma, SMT
  <2>11. /\ events' \in [Sides -> Seq(Events)] /\ events'[s] = a
         /\ \A u \in Sides : u # s => events'[u] = events[u]
    BY <2>1, <2>7, <2>10
  <2>12. /\ Requests(events'["client"], waiting, order) /\ Shaped(events'["client"])
         /\ \A i \in DOMAIN events'["server"] : events'["server"][i].ev # "send_recv"
         /\ ~peer["client"].sd => Idle(events'["client"])
    <3>1. CASE s = "client"
      <4>1. Requests(q, waiting, order) /\ Shaped(q)
        BY <2>1, <3>1 DEF q
      <4>2. Requests(t, waiting, order) /\ Shaped(t)
        BY <2>8, <4>1, QueueTail
      <4>3. \A i \in DOMAIN t : t[i].ev # "recv"
        <5>1. ASSUME NEW i \in DOMAIN t, t[i].ev = "recv" PROVE FALSE
          <6>1. q[i + 1].ev = "recv" /\ i + 1 \in DOMAIN q /\ i \in Nat \ {0}
            BY <2>9, <5>1
          <6>2. 1 = i + 1
            BY <2>9, <4>1, <6>1 DEF Shaped
          <6> QED BY <6>1, <6>2, SMT
        <5> QED BY <5>1
      <4>4. Requests(a, waiting, order) /\ Shaped(a)
        <5> HIDE DEF t
        <5> QED BY <2>6, <2>9, <4>2, <4>3, QueueAppend
      <4>5. peer["client"].sd
        BY <3>1, <1>HandlerHasSocket
      <4> QED BY <2>1, <2>11, <3>1, <4>4, <4>5, SidesLemma
    <3>2. CASE s = "server"
      <4>1. \A i \in DOMAIN q : q[i].ev # "send_recv"
        BY <2>1, <3>2 DEF q
      <4>2. \A i \in DOMAIN a : a[i].ev # "send_recv"
        BY <2>6, <2>9, <2>10, <4>1
      <4> QED BY <2>1, <2>11, <3>2, <4>2, SidesLemma
    <3> QED BY <3>1, <3>2, SidesLemma
  <2>13. env' \in Envs /\ held' \subseteq Mails /\ UNCHANGED <<connected, outcome>>
    BY <2>1 DEF Complete
  <2> QED BY <2>1, <2>4, <2>5, <2>11, <2>12, <2>13, <1>Frame

\* Of a queue whose read fails, without its socket's events.
<1>DeletedDomain.
    ASSUME NEW S, NEW q \in Seq(S), q # <<>>, \A i \in DOMAIN q : q[i].ev # "send_recv"
    PROVE  LET d == Deleted(Tail(q))
           IN  d \in Seq(S) /\ \A i \in DOMAIN d : d[i].ev # "send_recv"
  <2> USE <1>DeletedDomain
  <2> DEFINE t == Tail(q)
             d == Deleted(t)
  <2>1. t \in Seq(S) /\ \A i \in DOMAIN t : t[i].ev # "send_recv"
    BY TailLemma, SMT
  <2> HIDE DEF t
  <2>2. CASE t # <<>> /\ IsHandler(Head(t))
    <3>1. d = Tail(t)
      BY <2>2 DEF Deleted
    <3>2. /\ Tail(t) \in Seq(S)
          /\ \A i \in DOMAIN Tail(t) : i + 1 \in DOMAIN t /\ Tail(t)[i] = t[i + 1]
      BY <2>1, <2>2, TailLemma, SMT
    <3> HIDE DEF d
    <3>3. d \in Seq(S) /\ \A i \in DOMAIN d : d[i].ev # "send_recv"
      BY <2>1, <3>1, <3>2
    <3> QED BY <3>3 DEF d, t
  <2>3. CASE t = <<>> \/ ~IsHandler(Head(t))
    <3>1. d = t
      BY <2>3 DEF Deleted
    <3> QED BY <2>1, <3>1 DEF t
  <2> QED BY <2>2, <2>3

\* The socket of a side is closed.
<1>ClosedPeer.
    ASSUME IInv, NEW s \in Sides, ReadFailed(s)
    PROVE  /\ peer' \in [Sides -> Peers] /\ ~peer'[s].sd
           /\ \A u \in Sides : u # s => peer'[u] = peer[u]
           /\ wire' \in [Sides -> Seq(Parcels)]
  <2> USE <1>ClosedPeer
  <2>1. peer \in [Sides -> Peers] /\ wire \in [Sides -> Seq(Parcels)]
    BY DEF IInv, Transit
  <2> DEFINE r == [peer[s] EXCEPT !.sd = FALSE, !.send_ev = FALSE, !.recv_msg = None,
                                  !.finalized = (s = "server")]
  <2>2. r \in Peers /\ r.sd = FALSE
    BY <2>1 DEF Peers
  <2>3. peer' = [peer EXCEPT ![s] = r]
    BY <2>1 DEF ReadFailed, LostConnection, Peers
  <2> HIDE DEF r
  <2>4. <<>> \in Seq(Parcels)
    BY SMT
  <2>5. wire' = [wire EXCEPT ![s] = <<>>]
    BY DEF ReadFailed
  <2> QED BY <2>1, <2>2, <2>3, <2>4, <2>5

\* The server finds the connection lost.
<1>ServerLostInv.
    ASSUME IInv, NextEvent("server", "recv"), ReadFailed("server"),
           UNCHANGED <<env, held, waiting, refused, tag, posted, order>>
    PROVE  IInv'
  <2> USE <1>ServerLostInv
  <2>1. /\ events \in [Sides -> Seq(Events)] /\ env \in Envs /\ held \subseteq Mails
        /\ waiting \subseteq Calls /\ refused \subseteq Calls /\ waiting \cap refused = {}
        /\ Requests(events["client"], waiting, order) /\ Shaped(events["client"])
        /\ \A i \in DOMAIN events["server"] : events["server"][i].ev # "send_recv"
        /\ ~peer["client"].sd => Idle(events["client"])
    BY DEF IInv, Transit, Asked, Polled
  <2>2. /\ peer' \in [Sides -> Peers] /\ peer'["client"].sd = peer["client"].sd
        /\ wire' \in [Sides -> Seq(Parcels)]
    BY <1>ClosedPeer, SidesLemma
  <2> DEFINE d == Deleted(Tail(events["server"]))
  <2>3. d \in Seq(Events) /\ \A i \in DOMAIN d : d[i].ev # "send_recv"
    BY <2>1, <1>DeletedDomain, SidesLemma DEF NextEvent
  <2>4. events' = [events EXCEPT !["server"] = d] /\ UNCHANGED <<connected, outcome>>
    BY DEF ReadFailed, LostConnection
  <2> HIDE DEF d
  <2>5. /\ events' \in [Sides -> Seq(Events)]
        /\ events'["server"] = d /\ events'["client"] = events["client"]
    BY <2>1, <2>3, <2>4, SidesLemma
  <2> QED BY <2>1, <2>2, <2>3, <2>4, <2>5, <1>Frame

\* The client finds the connection lost: the calls that are posted had no
\* outcome, and are told.
<1>ClientLost.
    ASSUME Setting, IInv, NextEvent("client", "recv"), ReadFailed("client")
    PROVE  /\ connected /\ connected' = FALSE
           /\ \A c \in Calls :
                 \/ outcome'[c] = outcome[c]
                 \/ /\ outcome[c] = <<>> /\ outcome'[c] = <<"lost">>
                    /\ \E k \in DOMAIN order : order[k] = c
           /\ outcome' \in [Calls -> Seq(Calls \cup {"lost"})]
  <2> USE <1>ClientLost
  <2>1. connected
    BY <1>HandlerHasSocket
  <2>2. /\ connected' = FALSE
        /\ outcome' = [c \in Calls |->
              IF \E i \in DOMAIN posted : posted[i].for = c
              THEN Append(outcome[c], "lost") ELSE outcome[c]]
    BY DEF ReadFailed, LostConnection
  <2>3. ASSUME NEW c \in Calls, \E i \in DOMAIN posted : posted[i].for = c
        PROVE  /\ outcome[c] = <<>> /\ outcome'[c] = <<"lost">>
               /\ \E k \in DOMAIN order : order[k] = c
    <3>1. PICK i \in DOMAIN posted : posted[i].for = c
      BY <2>3
    <3>2. outcome[c] = <<>>
      BY <2>1, <3>1 DEF IInv, Receives
    <3>3. IsFor(posted[i].tag, c)
      <4>1. c # "notify"
        BY DEF Setting
      <4> QED BY <3>1, <4>1 DEF IInv, Receives
    <3>4. Append(<<>>, "lost") = <<"lost">>
      BY SMT
    <3> QED BY <2>2, <2>3, <3>2, <3>3, <3>4 DEF IsFor
  <2>4. ASSUME NEW c \in Calls, ~(\E i \in DOMAIN posted : posted[i].for = c)
        PROVE  outcome'[c] = outcome[c]
    BY <2>2, <2>4
  <2>5. outcome' \in [Calls -> Seq(Calls \cup {"lost"})]
    <3>1. \A c \in Calls : outcome[c] \in Seq(Calls \cup {"lost"})
      BY DEF IInv, Receives
    <3>2. <<"lost">> \in Seq(Calls \cup {"lost"})
      BY SMT
    <3>3. \A c \in Calls : outcome'[c] \in Seq(Calls \cup {"lost"})
      BY <2>3, <2>4, <3>1, <3>2
    <3>4. outcome' = [c \in Calls |-> outcome'[c]]
      BY <2>2
    <3> QED BY <3>3, <3>4
  <2> QED BY <2>1, <2>2, <2>3, <2>4, <2>5

\* The client finds that the connection is lost.
<1>ClientLostInv.
    ASSUME Setting, IInv, NextEvent("client", "recv"), ReadFailed("client"),
           UNCHANGED <<env, held, waiting, refused, tag, posted, order>>
    PROVE  IInv'
  <2> USE <1>ClientLostInv
  <2>1. /\ events \in [Sides -> Seq(Events)] /\ env \in Envs /\ held \subseteq Mails
        /\ Requests(events["client"], waiting, order) /\ Shaped(events["client"])
        /\ \A i \in DOMAIN events["server"] : events["server"][i].ev # "send_recv"
    BY DEF IInv, Transit, Asked, Polled
  <2>2. /\ peer' \in [Sides -> Peers] /\ ~peer'["client"].sd
        /\ wire' \in [Sides -> Seq(Parcels)]
    BY <1>ClosedPeer, SidesLemma
  <2> DEFINE d == Deleted(Tail(events["client"]))
  <2>3. d \in Seq(Events) /\ Idle(d) /\ Shaped(d) /\ Requests(d, waiting, order)
    BY <2>1, QueueDeleted, SidesLemma DEF NextEvent
  <2>4. events' = [events EXCEPT !["client"] = d]
    BY DEF ReadFailed, LostConnection
  <2> HIDE DEF d
  <2>5. /\ events' \in [Sides -> Seq(Events)]
        /\ events'["client"] = d /\ events'["server"] = events["server"]
    BY <2>1, <2>3, <2>4, SidesLemma
  <2>6. Transit'
    BY <2>1, <2>2, <2>5, <1>SameOrder DEF Transit, Envs
  <2>7. Asked'
    <3>1. Requests(events'["client"], waiting', order')
      BY <2>3, <2>5
    <3>2. \A i \in DOMAIN events'["server"] : events'["server"][i].ev # "send_recv"
      BY <2>1, <2>5
    <3> QED BY <3>1, <3>2 DEF IInv, Asked, Requests
  <2>8. Receives'
    <3>1. /\ connected' = FALSE /\ outcome' \in [Calls -> Seq(Calls \cup {"lost"})]
          /\ \A c \in Calls :
                \/ outcome'[c] = outcome[c]
                \/ outcome'[c] = <<"lost">> /\ \E k \in DOMAIN order : order[k] = c
      BY <1>ClientLost
    <3>2. \A c \in Calls : \/ outcome'[c] = <<>>
                           \/ /\ outcome'[c] \in {<<c>>, <<"lost">>}
                              /\ \E k \in DOMAIN order' : order'[k] = c
      BY <3>1 DEF IInv, Receives
    <3>3. /\ posted' \in Seq([tag : Nat, for : Calls \cup {"notify"}])
          /\ \A i, j \in DOMAIN posted' : posted'[i].tag = posted'[j].tag => i = j
      BY DEF IInv, Receives
    <3>4. (\A i \in DOMAIN posted :
             \/ posted[i].tag = NOTIFY /\ posted[i].for = "notify"
             \/ IsFor(posted[i].tag, posted[i].for))'
      BY <1>SameOrder DEF IInv, Receives, IsFor
    <3> QED BY <3>1, <3>2, <3>3, <3>4 DEF Receives
  <2>9. Polled'
    <3>1. connected' = FALSE
      BY <1>ClientLost
    <3> QED BY <2>2, <2>3, <2>5, <3>1 DEF Polled, Shaped, Idle, IsHandler
  <2> QED BY <2>6, <2>7, <2>8, <2>9 DEF IInv

\* The handlers of the socket.
<1>RunHandlerInv.
    ASSUME Setting, IInv, NEW s \in Sides, RunHandler(s)
    PROVE  IInv'
  <2> USE <1>RunHandlerInv
  <2>1. UNCHANGED <<env, waiting, refused, tag, posted, order, held>>
    BY DEF RunHandler
  <2>2. CASE NextEvent(s, "send") /\ SendHandler(s)
    <3>1. "epipe" \notin env.faults
      BY DEF IInv, Transit, Envs
    <3>2. /\ \E k \in Written(s) : Wrote(s, k)
          /\ events' = [events EXCEPT ![s] = Tail(@)]
          /\ UNCHANGED <<connected, outcome>>
      BY <2>2, <3>1 DEF SendHandler
    <3> QED BY <2>1, <2>2, <3>2, <1>WroteInv
  <2>3. CASE NextEvent(s, "recv") /\ RecvHandler(s)
    <3>1. CASE \E m \in Mails : \E rest \in Seq(Parcels) : Complete(s, m, rest)
      BY <2>1, <2>3, <3>1, <1>CompleteInv
    <3>2. CASE \E m \in Mails \cup {None} : \E rest \in Seq(Parcels) : Blocked(s, m, rest)
      BY <2>1, <2>3, <3>2, <1>BlockedInv
    <3>3. CASE ReadFailed(s)
      BY <2>1, <2>3, <3>3, <1>ClientLostInv, <1>ServerLostInv, SidesLemma
    <3> QED BY <2>3, <3>1, <3>2, <3>3, <1>ReadCases
  <2> QED BY <2>2, <2>3 DEF RunHandler

\* A message is put on the queue of a side.
<1>QueueMessage.
    ASSUME IInv, NEW s \in Sides, NEW m \in Mails,
           peer' = [peer EXCEPT ![s] = Queued(@, m)]
    PROVE  peer' \in [Sides -> Peers] /\ peer'["client"].sd = peer["client"].sd
  <2> USE <1>QueueMessage
  <2>1. peer \in [Sides -> Peers]
    BY DEF IInv, Transit
  <2>2. Queued(peer[s], m) \in Peers /\ Queued(peer[s], m).sd = peer[s].sd
    BY <2>1, <1>QueuedGood
  <2> DEFINE r == Queued(peer[s], m)
  <2>3. peer' = [peer EXCEPT ![s] = r]
    OBVIOUS
  <2> HIDE DEF r
  <2> QED BY <2>1, <2>2, <2>3, SidesLemma DEF r

\* A one-way message is queued, or dropped without a socket.
<1>OnewayInv.
    ASSUME IInv, NEW s \in Sides, NextEvent(s, "send_oneway"),
           pmix_ptl_base_send(s, Head(events[s]).body),
           events' = [events EXCEPT ![s] = Tail(@)],
           UNCHANGED <<env, waiting, refused, outcome, connected, tag, posted, order, wire, held>>
    PROVE  IInv'
  <2> USE <1>OnewayInv
  <2> DEFINE x == Head(events[s]).body
             m == IF x \in Beats THEN Message(HEARTBEAT, x, 0) ELSE Message(NOTIFY, x, 1)
  <2>1. /\ peer \in [Sides -> Peers] /\ wire' \in [Sides -> Seq(Parcels)]
        /\ env' \in Envs /\ held' \subseteq Mails /\ events \in [Sides -> Seq(Events)]
    BY DEF IInv, Transit
  <2>2. events[s] # <<>> /\ Head(events[s]).ev = "send_oneway"
    BY DEF NextEvent
  <2>3. x \in Notes \cup Beats
    <3>1. Head(events[s]) \in Events
      BY <2>1, <2>2, TailLemma
    <3> QED BY <2>2, <3>1, EventKinds
  <2> HIDE DEF x
  <2>4. m \in Mails
    BY <2>3, SMT DEF Mails, Messages, Message, Good, HEARTBEAT, NOTIFY, DYNAMIC
  <2>5. peer' = peer \/ peer' = [peer EXCEPT ![s] = Queued(@, m)]
    BY DEF pmix_ptl_base_send, x
  <2> HIDE DEF m
  <2>6. peer' \in [Sides -> Peers] /\ peer'["client"].sd = peer["client"].sd
    BY <2>1, <2>4, <2>5, <1>QueueMessage
  <2> QED BY <2>1, <2>2, <2>6, <1>ConsumedInv

\* A reply is queued.
<1>ReplyInv.
    ASSUME IInv, NEW s \in Sides, NextEvent(s, "reply"),
           QueueReply(Head(events[s]).body),
           events' = [events EXCEPT ![s] = Tail(@)],
           UNCHANGED <<env, waiting, refused, outcome, connected, tag, posted, order, wire, held>>
    PROVE  IInv'
  <2> USE <1>ReplyInv
  <2> DEFINE x == Head(events[s]).body
  <2>1. /\ peer \in [Sides -> Peers] /\ wire' \in [Sides -> Seq(Parcels)]
        /\ env' \in Envs /\ held' \subseteq Mails /\ events \in [Sides -> Seq(Events)]
    BY DEF IInv, Transit
  <2>2. events[s] # <<>> /\ Head(events[s]).ev = "reply"
    BY DEF NextEvent
  <2>3. x \in Mails
    <3>1. Head(events[s]) \in Events
      BY <2>1, <2>2, TailLemma
    <3> QED BY <2>2, <3>1, EventKinds
  <2> HIDE DEF x
  <2>4. peer' = peer \/ peer' = [peer EXCEPT !["server"] = Queued(@, x)]
    BY DEF QueueReply, x
  <2>5. peer' \in [Sides -> Peers] /\ peer'["client"].sd = peer["client"].sd
    BY <2>1, <2>3, <2>4, <1>QueueMessage, SidesLemma
  <2> QED BY <2>1, <2>2, <2>5, <1>ConsumedInv

\* The server takes up a message.
<1>ServerMessageInv.
    ASSUME IInv, NextEvent("server", "process_msg"),
           ProcessAtServer(Head(events["server"]).body),
           events' = [events EXCEPT !["server"] = Tail(@)],
           UNCHANGED <<env, waiting, refused, connected, tag, order, wire>>
    PROVE  IInv'
  <2> USE <1>ServerMessageInv
  <2> DEFINE m == Head(events["server"]).body
             n == [m EXCEPT !.nbytes = 1]
  <2>1. /\ peer \in [Sides -> Peers] /\ wire' \in [Sides -> Seq(Parcels)]
        /\ env' \in Envs /\ held \subseteq Mails /\ events \in [Sides -> Seq(Events)]
    BY DEF IInv, Transit
  <2>2. events["server"] # <<>> /\ Head(events["server"]).ev = "process_msg"
    BY DEF NextEvent
  <2>3. m \in Mails
    <3>1. Head(events["server"]) \in Events
      BY <2>1, <2>2, TailLemma, SidesLemma
    <3> QED BY <2>2, <3>1, EventKinds
  <2> HIDE DEF m
  <2>4. n \in Messages /\ n.tag = m.tag /\ n.body = m.body
    BY <2>3 DEF Mails, Messages
  <2>5. n \in Mails
    BY <2>3, <2>4 DEF Mails, Good
  <2>6. /\ peer' = peer \/ peer' = [peer EXCEPT !["server"] = Queued(@, n)]
        /\ held' \subseteq held \cup {m}
        /\ UNCHANGED <<outcome, posted>>
    BY DEF ProcessAtServer, QueueReply, m
  <2> HIDE DEF n
  <2>7. peer' \in [Sides -> Peers] /\ peer'["client"].sd = peer["client"].sd
    BY <2>1, <2>5, <2>6, <1>QueueMessage, SidesLemma
  <2>8. held' \subseteq Mails
    BY <2>1, <2>3, <2>6
  <2> QED BY <2>1, <2>2, <2>6, <2>7, <2>8, <1>ConsumedInv, SidesLemma

\* The process of one side ends.
<1>CrashInv.
    ASSUME IInv, NEW s \in Sides, Crash(s)
    PROVE  IInv'
  <2> USE <1>CrashInv
  <2>1. /\ events \in [Sides -> Seq(Events)] /\ env \in Envs /\ held \subseteq Mails
        /\ peer \in [Sides -> Peers] /\ wire \in [Sides -> Seq(Parcels)]
        /\ waiting \subseteq Calls /\ refused \subseteq Calls /\ waiting \cap refused = {}
        /\ Requests(events["client"], waiting, order) /\ Shaped(events["client"])
        /\ \A i \in DOMAIN events["server"] : events["server"][i].ev # "send_recv"
        /\ ~peer["client"].sd => Idle(events["client"])
    BY DEF IInv, Transit, Asked, Polled
  <2>2. env' \in Envs
    BY <2>1 DEF Crash, Envs
  <2>3. held' \subseteq Mails
    BY <2>1 DEF Crash
  <2>4. wire' \in [Sides -> Seq(Parcels)]
    <3>1. PICK k \in {0, Len(wire[Other(s)])} :
             wire' = [wire EXCEPT ![Other(s)] = SubSeq(@, 1, k), ![s] = <<>>]
      BY DEF Crash
    <3>2. wire[Other(s)] \in Seq(Parcels)
      BY <2>1, SidesLemma
    <3>3. k \in 0 .. Len(wire[Other(s)])
      BY <3>2, SMT
    <3>4. SubSeq(wire[Other(s)], 1, k) \in Seq(Parcels) /\ <<>> \in Seq(Parcels)
      BY <3>2, <3>3, SubSeqLemma, SMT
    <3> QED BY <2>1, <3>1, <3>4
  <2>5. /\ peer' \in [Sides -> Peers] /\ ~peer'[s].sd
        /\ \A u \in Sides : u # s => peer'[u] = peer[u]
    <3> DEFINE r == [peer[s] EXCEPT !.sd = FALSE]
    <3>1. r \in Peers /\ r.sd = FALSE
      BY <2>1 DEF Peers
    <3>2. peer' = [peer EXCEPT ![s] = r]
      BY DEF Crash
    <3> HIDE DEF r
    <3> QED BY <2>1, <3>1, <3>2
  <2>6. /\ events' \in [Sides -> Seq(Events)] /\ events'[s] = <<>>
        /\ \A u \in Sides : u # s => events'[u] = events[u]
    <3>1. <<>> \in Seq(Events)
      BY SMT
    <3> QED BY <2>1, <3>1 DEF Crash
  <2>7. Requests(<<>>, waiting, order) /\ Shaped(<<>>) /\ Idle(<<>>)
    BY SMT DEF Requests, Shaped, Idle
  <2>8. /\ Requests(events'["client"], waiting, order) /\ Shaped(events'["client"])
        /\ \A i \in DOMAIN events'["server"] : events'["server"][i].ev # "send_recv"
        /\ ~peer'["client"].sd => Idle(events'["client"])
        /\ peer'["client"].sd => peer["client"].sd
    <3>1. CASE s = "client"
      BY <2>1, <2>5, <2>6, <2>7, <3>1, SidesLemma
    <3>2. CASE s = "server"
      BY <2>1, <2>5, <2>6, <2>7, <3>2, SidesLemma, SMT
    <3> QED BY <3>1, <3>2, SidesLemma
  <2>9. UNCHANGED <<waiting, refused, outcome, connected, tag, posted, order>>
    BY DEF Crash
  <2> QED BY <2>1, <2>2, <2>3, <2>4, <2>5, <2>6, <2>8, <2>9, <1>Frame

(* A request is sent *)
\* A further call in the order leaves what is good good.
<1>OrderGrows.
    ASSUME NEW c \in Calls, order \in Seq(Calls), order' = Append(order, c)
    PROVE  /\ \A t, x : IsFor(t, x) => IsFor(t, x)'
           /\ \A t : t = DYNAMIC + Len(order) + 1 => IsFor(t, c)'
           /\ Mails \subseteq Mails'
           /\ Seq(Parcels) \subseteq Seq(Parcels')
           /\ Seq(Events) \subseteq Seq(Events')
           /\ Peers \subseteq Peers'
  <2> USE <1>OrderGrows
  <2>1. /\ DOMAIN order' = DOMAIN order \cup {Len(order) + 1}
        /\ \A i \in DOMAIN order : order'[i] = order[i]
        /\ order'[Len(order) + 1] = c
        /\ Len(order) \in Nat
    BY AppendLemma, SMT
  <2>2. \A t, x : IsFor(t, x) => IsFor(t, x)'
    BY <2>1 DEF IsFor
  <2>3. \A t : t = DYNAMIC + Len(order) + 1 => IsFor(t, c)'
    <3>1. DYNAMIC + Len(order) + 1 = DYNAMIC + (Len(order) + 1)
      BY <2>1, SMT DEF DYNAMIC
    <3> QED BY <2>1, <3>1 DEF IsFor
  <2>4. Mails \subseteq Mails'
    BY <2>2 DEF Mails, Good
  <2>5. Parcels \subseteq Parcels'
    BY <2>4 DEF Parcels
  <2>6. Events \subseteq Events'
    BY <2>4 DEF Events
  <2>7. Seq(Parcels) \subseteq Seq(Parcels') /\ Seq(Mails) \subseteq Seq(Mails')
        /\ Seq(Events) \subseteq Seq(Events')
    BY <2>4, <2>5, <2>6, SMT
  <2>8. Peers \subseteq Peers'
    BY <2>4, <2>7 DEF Peers
  <2> QED BY <2>2, <2>3, <2>4, <2>7, <2>8

\* Queueing a message of a set M keeps a peer's messages in M.
<1>QueuedTyped.
    ASSUME NEW M, NEW m \in M, m.nbytes \in {0, 1},
           NEW p \in [sd : BOOLEAN, finalized : BOOLEAN, send_msg : Seq(M \X Nat),
                      send_queue : Seq(M), send_ev : BOOLEAN, recv_msg : M \cup {None}]
    PROVE  /\ Queued(p, m) \in
                [sd : BOOLEAN, finalized : BOOLEAN, send_msg : Seq(M \X Nat),
                 send_queue : Seq(M), send_ev : BOOLEAN, recv_msg : M \cup {None}]
           /\ Queued(p, m).sd = p.sd
  <2> USE <1>QueuedTyped
  <2>1. Units(m) \in Seq(M \X Nat)
    <3> DEFINE n == HdrUnits + m.nbytes
               W == M \X Nat
    <3>1. n \in Nat
      BY SMT DEF HdrUnits
    <3> HIDE DEF n
    <3>2. \A i \in 1 .. n : <<m, i>> \in W
      BY <3>1, SMT
    <3> HIDE DEF W
    <3>3. [i \in 1 .. n |-> <<m, i>>] \in Seq(W)
      BY <3>1, <3>2, SMT
    <3> QED BY <3>3 DEF Units, n, W
  <2>2. CASE p.send_msg = None
    <3>1. Queued(p, m) = [p EXCEPT !.send_msg = Units(m), !.send_ev = TRUE]
      BY <2>2 DEF Queued
    <3> QED BY <2>1, <3>1
  <2>3. CASE p.send_msg # None
    <3>1. Queued(p, m) = [p EXCEPT !.send_queue = Append(@, m), !.send_ev = TRUE]
      BY <2>3 DEF Queued
    <3>2. Append(p.send_queue, m) \in Seq(M)
      BY SMT
    <3> QED BY <3>1, <3>2
  <2> QED BY <2>2, <2>3

\* The elements of a sequence that is prepended to.
<1>PrependLemma.
    ASSUME NEW S, NEW q \in Seq(S), NEW e \in S
    PROVE  LET a == <<e>> \o q
           IN  /\ a \in Seq(S) /\ 1 \in DOMAIN a /\ a[1] = e
               /\ \A i \in DOMAIN a : i = 1 \/ (i - 1 \in DOMAIN q /\ a[i] = q[i - 1] /\ i \in Nat)
  BY <1>PrependLemma, SMT

\* A request gets the next tag, and a receive on it at the head of the list.
<1>SendRecvInv.
    ASSUME Setting, IInv, NEW s \in Sides, NextEvent(s, "send_recv"),
           pmix_ptl_base_send_recv(Head(events[s]).body),
           events' = [events EXCEPT ![s] = Tail(@)],
           UNCHANGED <<env, waiting, refused, outcome, connected, wire, held>>
    PROVE  IInv'
  <2> USE <1>SendRecvInv
  <2>1. /\ peer \in [Sides -> Peers] /\ wire \in [Sides -> Seq(Parcels)]
        /\ env \in Envs /\ held \subseteq Mails /\ events \in [Sides -> Seq(Events)]
    BY DEF IInv, Transit
  <2>2. events[s] # <<>> /\ Head(events[s]).ev = "send_recv"
    BY DEF NextEvent
  <2>3. Head(events[s]) \in Events /\ 1 \in DOMAIN events[s] /\ Head(events[s]) = events[s][1]
    BY <2>1, <2>2, TailLemma
  <2>4. s = "client"
    BY <2>2, <2>3, SidesLemma DEF IInv, Asked
  <2> DEFINE q == events["client"]
             n == Len(order) + 1
  <2>5. PICK c \in Calls : c = Head(q).body
    BY <2>2, <2>3, <2>4, EventKinds
  <2>6. /\ order \in Seq(Calls) /\ tag = DYNAMIC + Len(order)
        /\ \A j, k \in DOMAIN order : order[j] = order[k] => j = k
        /\ \A k \in DOMAIN order : order[k] \in waiting
        /\ Requests(q, waiting, order)
        /\ \A i \in DOMAIN events["server"] : events["server"][i].ev # "send_recv"
    BY DEF IInv, Asked
  <2>7. c \in waiting /\ \A k \in DOMAIN order : order[k] # c
    BY <2>2, <2>3, <2>4, <2>5, <2>6 DEF Requests
  <2>8. CASE ~peer["client"].sd
    <3>1. UNCHANGED <<tag, posted, order, peer>>
      BY <2>8 DEF pmix_ptl_base_send_recv
    <3> QED BY <2>1, <2>2, <3>1, <1>ConsumedInv
  <2>9. CASE peer["client"].sd
    <3>1. /\ tag' = NextTag(tag)
          /\ posted' = <<[tag |-> tag', for |-> c]>> \o posted
          /\ order' = Append(order, c)
          /\ peer' = [peer EXCEPT !["client"] = Queued(@, Message(tag', c, 1))]
      BY <2>4, <2>5, <2>9 DEF pmix_ptl_base_send_recv
    <3>2. /\ \A i \in DOMAIN q : q[i].ev = "send_recv" /\ q[i].body = c => i = 1
          /\ q \in Seq(Events) /\ q # <<>>
      BY <2>1, <2>2, <2>3, <2>4, <2>5, <2>6 DEF Requests
    <3>3. /\ order' \in Seq(Calls)
          /\ DOMAIN order' = DOMAIN order \cup {n} /\ n \notin DOMAIN order
          /\ \A i \in DOMAIN order : order'[i] = order[i]
          /\ order'[n] = c
          /\ Len(order') = n /\ n \in Nat /\ DOMAIN order = 1 .. Len(order)
      <4>1. order \in Seq(Calls) /\ c \in Calls /\ order' = Append(order, c)
        BY <2>5, <2>6, <3>1
      <4> QED BY <4>1, AppendLemma, SMT
    <3>4. \A j, k \in DOMAIN order' : order'[j] = order'[k] => j = k
      BY <2>6, <2>7, <3>3
    <3>5. n < DynamicTags /\ DynamicTags \in Nat
      <4>1. Len(order') < DynamicTags
        BY <3>3, <3>4, OrderShort
      <4> QED BY <3>3, <4>1 DEF Setting
    <3>6. tag' = DYNAMIC + n
      BY <2>6, <3>1, <3>3, <3>5, SMT DEF NextTag, UINT_MAX, DYNAMIC
    <3>7. /\ \A t, x : IsFor(t, x) => IsFor(t, x)'
          /\ \A t : t = tag' => IsFor(t, c)'
          /\ Mails \subseteq Mails'
          /\ Seq(Parcels) \subseteq Seq(Parcels')
          /\ Seq(Events) \subseteq Seq(Events')
          /\ Peers \subseteq Peers'
      <4>0. Len(order) \in Nat
        BY <2>6, SMT
      <4>1. DYNAMIC + Len(order) + 1 = tag'
        BY <3>6, <4>0, SMT DEF DYNAMIC
      <4> QED BY <2>5, <2>6, <3>1, <4>1, <1>OrderGrows
    <3>8. /\ events' \in [Sides -> Seq(Events)] /\ events'["client"] = Tail(q)
          /\ events'["server"] = events["server"]
          /\ Shaped(events'["client"])
      BY <2>1, <2>2, <2>4, <1>Consumed, SidesLemma
    <3>9. Transit'
      <4>1. PICK m \in Messages : /\ m = Message(tag', c, 1)
                                  /\ m.tag = tag' /\ m.body = c /\ m.nbytes = 1
        <5>1. tag' \in Nat
          BY <3>3, <3>6, SMT DEF DYNAMIC
        <5>2. /\ Message(tag', c, 1) \in Messages /\ Message(tag', c, 1).tag = tag'
              /\ Message(tag', c, 1).body = c /\ Message(tag', c, 1).nbytes = 1
          BY <2>5, <5>1 DEF Messages, Message
        <5> QED BY <5>2
      <4>2. m \in Mails'
        <5>1. Good(m)'
          BY <3>7, <4>1 DEF Good
        <5> QED BY <5>1 DEF Mails
      <4>3. peer["client"] \in Peers'
        BY <2>1, <3>7, SidesLemma
      <4>4. Queued(peer["client"], m) \in Peers'
        BY <4>1, <4>2, <4>3, <1>QueuedTyped DEF Peers, Parcels
      <4>5. peer' \in [Sides -> Peers']
        <5> DEFINE r == Queued(peer["client"], m)
        <5>1. peer' = [peer EXCEPT !["client"] = r]
          BY <3>1, <4>1
        <5> HIDE DEF r
        <5> QED BY <2>1, <3>7, <4>4, <5>1 DEF r
      <4>6. wire' \in [Sides -> Seq(Parcels')] /\ events' \in [Sides -> Seq(Events')]
        BY <2>1, <3>7, <3>8
      <4>7. held' \subseteq Mails' /\ env' \in Envs
        BY <2>1, <3>7
      <4> QED BY <4>5, <4>6, <4>7 DEF Transit, Envs
    <3>10. Asked'
      <4>1. Requests(Tail(q), waiting, order)
        BY <2>6, <3>2, QueueTail
      <4>2. ASSUME NEW i \in DOMAIN Tail(q), Tail(q)[i].ev = "send_recv"
            PROVE  Tail(q)[i].body # c
        <5>1. i \in Nat \ {0} /\ i + 1 \in DOMAIN q /\ Tail(q)[i] = q[i + 1]
          BY <3>2, TailLemma
        <5> QED BY <3>2, <4>2, <5>1, SMT
      <4>3. Requests(Tail(q), waiting, order')
        BY <3>3, <4>1, <4>2 DEF Requests
      <4>4. waiting' \subseteq Calls /\ refused' \subseteq Calls /\ waiting' \cap refused' = {}
        BY DEF IInv, Asked
      <4>5. \A k \in DOMAIN order' : order'[k] \in waiting'
        BY <2>6, <2>7, <3>3
      <4>6. \A i \in DOMAIN events'["server"] : events'["server"][i].ev # "send_recv"
        BY <2>6, <3>8
      <4>7. Requests(events'["client"], waiting', order')
        BY <3>8, <4>3
      <4> QED BY <3>3, <3>4, <3>6, <4>4, <4>5, <4>6, <4>7 DEF Asked, Requests
    <3>11. Receives'
      <4> DEFINE R == [tag : Nat, for : Calls \cup {"notify"}]
                 e == [tag |-> tag', for |-> c]
      <4>1. /\ outcome \in [Calls -> Seq(Calls \cup {"lost"})]
            /\ posted \in Seq(R)
            /\ \A i \in DOMAIN posted :
                  \/ posted[i].tag = NOTIFY /\ posted[i].for = "notify"
                  \/ IsFor(posted[i].tag, posted[i].for)
            /\ \A i, j \in DOMAIN posted : posted[i].tag = posted[j].tag => i = j
            /\ connected => \A i \in DOMAIN posted :
                  posted[i].for \in Calls => outcome[posted[i].for] = <<>>
            /\ \A x \in Calls : \/ outcome[x] = <<>>
                                \/ /\ outcome[x] \in {<<x>>, <<"lost">>}
                                   /\ \E k \in DOMAIN order : order[k] = x
        BY DEF IInv, Receives
      <4>2. e \in R /\ e.tag = tag' /\ e.for = c
        BY <2>5, <3>3, <3>6, SMT DEF DYNAMIC
      <4> HIDE DEF R
      <4>3. posted' = <<e>> \o posted
        BY <3>1
      <4> HIDE DEF e
      <4>4. /\ posted' \in Seq(R) /\ posted'[1] = e
            /\ \A i \in DOMAIN posted' :
                  i = 1 \/ (i - 1 \in DOMAIN posted /\ posted'[i] = posted[i - 1] /\ i \in Nat)
        BY <4>1, <4>2, <4>3, <1>PrependLemma, SMT
      <4>5. \A i \in DOMAIN posted : posted[i].tag # tag'
        <5>1. \A t, x : IsFor(t, x) => t # tag'
          BY <3>3, <3>6, SMT DEF IsFor, DYNAMIC
        <5>2. NOTIFY # tag'
          BY <3>3, <3>6, SMT DEF NOTIFY, DYNAMIC
        <5> QED BY <4>1, <5>1, <5>2
      <4>6. \A i, j \in DOMAIN posted' : posted'[i].tag = posted'[j].tag => i = j
        <5>1. ASSUME NEW i \in DOMAIN posted', NEW j \in DOMAIN posted',
                     posted'[i].tag = posted'[j].tag, i # 1
              PROVE  i = j
          <6>1. i - 1 \in DOMAIN posted /\ posted'[i] = posted[i - 1] /\ i \in Nat
            BY <4>4, <5>1
          <6>2. j # 1
            BY <4>2, <4>4, <4>5, <5>1, <6>1
          <6>3. j - 1 \in DOMAIN posted /\ posted'[j] = posted[j - 1] /\ j \in Nat
            BY <4>4, <6>2
          <6>4. i - 1 = j - 1
            BY <4>1, <5>1, <6>1, <6>3
          <6> QED BY <6>1, <6>3, <6>4, SMT
        <5>2. ASSUME NEW j \in DOMAIN posted', posted'[j].tag = posted'[1].tag
              PROVE  j = 1
          BY <4>2, <4>4, <4>5, <5>2
        <5> QED BY <5>1, <5>2
      <4>7. (\A i \in DOMAIN posted :
                \/ posted[i].tag = NOTIFY /\ posted[i].for = "notify"
                \/ IsFor(posted[i].tag, posted[i].for))'
        <5>1. ASSUME NEW i \in DOMAIN posted', NEW t, NEW x,
                     t = posted'[i].tag, x = posted'[i].for
              PROVE  (t = NOTIFY /\ x = "notify") \/ IsFor(t, x)'
          <6>1. CASE i = 1
            BY <3>7, <4>2, <4>4, <5>1, <6>1
          <6>2. CASE i # 1
            <7>1. i - 1 \in DOMAIN posted /\ posted'[i] = posted[i - 1]
              BY <4>4, <5>1, <6>2
            <7>2. (t = NOTIFY /\ x = "notify") \/ IsFor(t, x)
              BY <4>1, <5>1, <7>1
            <7> QED BY <3>7, <7>2
          <6> QED BY <6>1, <6>2
        <5> QED BY <5>1, SMT DEF IsFor
      <4>8. outcome[c] = <<>>
        BY <2>5, <2>7, <4>1
      <4>9. connected' => \A i \in DOMAIN posted' :
               posted'[i].for \in Calls => outcome'[posted'[i].for] = <<>>
        <5>1. ASSUME NEW i \in DOMAIN posted', connected, posted'[i].for \in Calls
              PROVE  outcome[posted'[i].for] = <<>>
          <6>1. CASE i = 1
            BY <4>2, <4>4, <4>8, <6>1
          <6>2. CASE i # 1
            BY <4>1, <4>4, <5>1, <6>2, SMT
          <6> QED BY <6>1, <6>2
        <5> QED BY <5>1
      <4>10. \A x \in Calls : \/ outcome'[x] = <<>>
                              \/ /\ outcome'[x] \in {<<x>>, <<"lost">>}
                                 /\ \E k \in DOMAIN order' : order'[k] = x
        BY <3>3, <4>1, SMT
      <4> QED BY <4>1, <4>4, <4>6, <4>7, <4>9, <4>10 DEF Receives, R
    <3>12. Polled'
      <4>1. connected' /\ connected' \in BOOLEAN
        BY <2>9 DEF IInv, Polled
      <4>2. peer'["client"].sd
        <5>1. Queued(peer["client"], Message(tag', c, 1)).sd = peer["client"].sd
          BY <2>1, SidesLemma DEF Queued, Peers
        <5> QED BY <2>1, <2>9, <3>1, <5>1, SidesLemma
      <4> QED BY <3>8, <4>1, <4>2 DEF Polled, Shaped, Idle, IsHandler
    <3> QED BY <3>9, <3>10, <3>11, <3>12 DEF IInv
  <2> QED BY <2>8, <2>9

(* A message is handed to its receive *)
\* A message the client processes is ignored by the calls, or is the answer
\* to the call whose receive it finds, which had no outcome.
<1>ClientMessage.
    ASSUME Setting, IInv, NextEvent("client", "process_msg"),
           ProcessAtClient(Head(events["client"]).body)
    PROVE  \/ UNCHANGED <<outcome, posted>>
           \/ \E c \in Calls : \E i \in DOMAIN posted :
                 /\ posted[i].for = c /\ posted[i].tag >= DYNAMIC
                 /\ outcome[c] = <<>> /\ \E k \in DOMAIN order : order[k] = c
                 /\ outcome' = [outcome EXCEPT ![c] = <<c>>]
                 /\ posted' = SubSeq(posted, 1, i - 1) \o SubSeq(posted, i + 1, Len(posted))
  <2> USE <1>ClientMessage
  <2> DEFINE m == Head(events["client"]).body
             i == FirstMatch(m)
  <2>1. m \in Mails
    <3>1. events["client"] \in Seq(Events) /\ events["client"] # <<>>
      BY SidesLemma DEF IInv, Transit, NextEvent
    <3>2. Head(events["client"]) \in Events
      BY <3>1, TailLemma
    <3> QED BY <3>2, EventKinds DEF NextEvent
  <2>2. connected
    BY <1>HandlerHasSocket
  <2> HIDE DEF m
  <2>3. CASE Matches(m) = {}
    BY <2>3 DEF ProcessAtClient, m
  <2>4. CASE Matches(m) # {}
    <3>1. i \in DOMAIN posted /\ posted[i].tag = m.tag
      BY <2>4, TheMatch
    <3>2. /\ outcome' = IF posted[i].for = "notify" THEN outcome
                        ELSE [outcome EXCEPT ![posted[i].for] = Append(@, m.body)]
          /\ posted' = RecvDone(i)
      BY <2>4 DEF ProcessAtClient, m
    <3> HIDE DEF i
    <3>3. CASE posted[i].tag = NOTIFY /\ posted[i].for = "notify"
      <4>1. posted[i].tag < DYNAMIC
        BY <3>3, SMT DEF NOTIFY, DYNAMIC
      <4> QED BY <3>2, <3>3, <4>1 DEF RecvDone
    <3>4. CASE IsFor(posted[i].tag, posted[i].for)
      <4>1. PICK k \in DOMAIN order : posted[i].tag = DYNAMIC + k /\ posted[i].for = order[k]
        BY <3>4 DEF IsFor
      <4>2. order \in Seq(Calls)
        BY DEF IInv, Asked
      <4>3. k \in Nat \ {0} /\ order[k] \in Calls
        BY <4>1, <4>2, SMT
      <4>4. posted[i].tag >= DYNAMIC /\ ~(posted[i].tag < DYNAMIC)
        <5>1. \A x \in Nat \ {0} : DYNAMIC + x >= DYNAMIC /\ ~(DYNAMIC + x < DYNAMIC)
          BY SMT DEF DYNAMIC
        <5> QED BY <4>1, <4>3, <5>1
      <4>5. IsFor(m.tag, m.body)
        BY <2>1, <3>1, <4>4 DEF Mails, Good
      <4>6. PICK l \in DOMAIN order : m.tag = DYNAMIC + l /\ m.body = order[l]
        BY <4>5 DEF IsFor
      <4>7. l \in Nat
        BY <4>2, <4>6, SMT
      <4>8. l = k
        <5>1. DYNAMIC + k = DYNAMIC + l
          BY <3>1, <4>1, <4>6
        <5> QED BY <4>3, <4>7, <5>1, SMT DEF DYNAMIC
      <4>9. PICK c \in Calls : c = order[k]
        BY <4>3
      <4>10. posted[i].for = c /\ m.body = c /\ c # "notify"
        <5>1. c # "notify"
          BY DEF Setting
        <5> QED BY <4>1, <4>6, <4>8, <4>9, <5>1
      <4>11. outcome[c] = <<>>
        BY <2>2, <3>1, <4>10 DEF IInv, Receives
      <4>12. outcome' = [outcome EXCEPT ![c] = <<c>>]
        <5>1. Append(outcome[c], c) = <<c>>
          BY <4>11, SMT
        <5>2. outcome' = [outcome EXCEPT ![c] = Append(outcome[c], c)]
          BY <3>2, <4>10
        <5> QED BY <5>1, <5>2
      <4>13. posted' = SubSeq(posted, 1, i - 1) \o SubSeq(posted, i + 1, Len(posted))
        BY <3>2, <4>4 DEF RecvDone
      <4> QED BY <3>1, <4>4, <4>9, <4>10, <4>11, <4>12, <4>13
    <3> QED BY <3>1, <3>3, <3>4 DEF IInv, Receives
  <2> QED BY <2>3, <2>4

\* The client processes a message.
<1>ClientMessageInv.
    ASSUME Setting, IInv, NextEvent("client", "process_msg"),
           ProcessAtClient(Head(events["client"]).body),
           events' = [events EXCEPT !["client"] = Tail(@)],
           UNCHANGED <<env, waiting, refused, connected, tag, order, wire>>
    PROVE  IInv'
  <2> USE <1>ClientMessageInv
  <2>1. /\ peer' \in [Sides -> Peers] /\ wire' \in [Sides -> Seq(Parcels)]
        /\ env' \in Envs /\ held' \subseteq Mails /\ UNCHANGED <<peer, held>>
    BY DEF IInv, Transit, ProcessAtClient
  <2>2. events["client"] # <<>>
    BY DEF NextEvent
  <2>3. /\ events' \in [Sides -> Seq(Events)]
        /\ Requests(events'["client"], waiting, order)
        /\ \A i \in DOMAIN events'["server"] : events'["server"][i].ev # "send_recv"
        /\ Shaped(events'["client"])
        /\ Idle(events["client"]) => Idle(events'["client"])
    BY <2>2, <1>Consumed, SidesLemma
  <2>4. CASE UNCHANGED <<outcome, posted>>
    BY <2>1, <2>2, <2>4, <1>ConsumedInv, SidesLemma
  <2>5. ASSUME NEW c \in Calls, NEW i \in DOMAIN posted,
               posted[i].for = c, posted[i].tag >= DYNAMIC,
               outcome[c] = <<>>, \E k \in DOMAIN order : order[k] = c,
               outcome' = [outcome EXCEPT ![c] = <<c>>],
               posted' = SubSeq(posted, 1, i - 1) \o SubSeq(posted, i + 1, Len(posted))
        PROVE  IInv'
    <3> DEFINE R == [tag : Nat, for : Calls \cup {"notify"}]
    <3>1. /\ outcome \in [Calls -> Seq(Calls \cup {"lost"})]
          /\ posted \in Seq(R)
          /\ \A j \in DOMAIN posted :
                \/ posted[j].tag = NOTIFY /\ posted[j].for = "notify"
                \/ IsFor(posted[j].tag, posted[j].for)
          /\ \A j, k \in DOMAIN posted : posted[j].tag = posted[k].tag => j = k
          /\ connected => \A j \in DOMAIN posted :
                posted[j].for \in Calls => outcome[posted[j].for] = <<>>
          /\ \A x \in Calls : \/ outcome[x] = <<>>
                              \/ /\ outcome[x] \in {<<x>>, <<"lost">>}
                                 /\ \E k \in DOMAIN order : order[k] = x
      BY DEF IInv, Receives
    <3> HIDE DEF R
    <3>2. /\ posted' \in Seq(R)
          /\ \A j \in DOMAIN posted' :
                j \in Nat /\ Skip(i, j) \in DOMAIN posted \ {i} /\ posted'[j] = posted[Skip(i, j)]
      <4>1. posted' = Without(posted, i)
        BY <2>5 DEF Without
      <4>2. posted \in Seq(R) /\ i \in DOMAIN posted
        BY <2>5, <3>1
      <4> QED BY <4>1, <4>2, RemoveLemma, SMT
    <3>3. i \in Nat /\ \A j, k \in Nat : Skip(i, j) = Skip(i, k) => j = k
      BY <3>1, SMT DEF Skip
    <3>4. \A j \in DOMAIN posted : posted[j].for = c => j = i
      <4>1. ASSUME NEW j \in DOMAIN posted, posted[j].for = c PROVE j = i
        <5>1. c # "notify"
          BY DEF Setting
        <5>2. IsFor(posted[j].tag, c) /\ IsFor(posted[i].tag, c)
          BY <2>5, <3>1, <4>1, <5>1
        <5>3. \A x, y \in DOMAIN order : order[x] = order[y] => x = y
          BY DEF IInv, Asked
        <5>4. posted[j].tag = posted[i].tag
          BY <5>2, <5>3 DEF IsFor
        <5> QED BY <3>1, <5>4
      <4> QED BY <4>1
    <3>5. \A j \in DOMAIN posted' : posted'[j].for # c
      BY <3>2, <3>4
    <3>6. \A j, k \in DOMAIN posted' : posted'[j].tag = posted'[k].tag => j = k
      <4>1. ASSUME NEW j \in DOMAIN posted', NEW k \in DOMAIN posted', posted'[j].tag = posted'[k].tag
            PROVE  j = k
        <5>1. /\ j \in Nat /\ Skip(i, j) \in DOMAIN posted /\ posted'[j] = posted[Skip(i, j)]
              /\ k \in Nat /\ Skip(i, k) \in DOMAIN posted /\ posted'[k] = posted[Skip(i, k)]
          BY <3>2
        <5>2. Skip(i, j) = Skip(i, k)
          BY <3>1, <4>1, <5>1
        <5> QED BY <3>3, <5>1, <5>2
      <4> QED BY <4>1
    <3>7. (\A j \in DOMAIN posted :
              \/ posted[j].tag = NOTIFY /\ posted[j].for = "notify"
              \/ IsFor(posted[j].tag, posted[j].for))'
      <4>1. ASSUME NEW j \in DOMAIN posted'
            PROVE  \/ posted'[j].tag = NOTIFY /\ posted'[j].for = "notify"
                   \/ IsFor(posted'[j].tag, posted'[j].for)
        BY <3>1, <3>2, <4>1, SMT
      <4> QED BY <4>1 DEF IsFor
    <3>8. /\ outcome' \in [Calls -> Seq(Calls \cup {"lost"})]
          /\ outcome'[c] = <<c>> /\ \A x \in Calls : x # c => outcome'[x] = outcome[x]
      <4>1. <<c>> \in Seq(Calls \cup {"lost"})
        BY SMT
      <4> QED BY <2>5, <3>1, <4>1
    <3>9. connected' => \A j \in DOMAIN posted' :
             posted'[j].for \in Calls => outcome'[posted'[j].for] = <<>>
      <4>1. ASSUME connected', NEW j \in DOMAIN posted', posted'[j].for \in Calls
            PROVE  outcome'[posted'[j].for] = <<>>
        <5>1. Skip(i, j) \in DOMAIN posted /\ posted'[j] = posted[Skip(i, j)] /\ posted'[j].for # c
          BY <3>2, <3>5
        <5>2. outcome[posted'[j].for] = <<>>
          BY <3>1, <4>1, <5>1
        <5> QED BY <3>8, <4>1, <5>1, <5>2
      <4> QED BY <4>1
    <3>10. \A x \in Calls : \/ outcome'[x] = <<>>
                            \/ /\ outcome'[x] \in {<<x>>, <<"lost">>}
                               /\ \E k \in DOMAIN order' : order'[k] = x
      BY <2>5, <3>1, <3>8
    <3>11. Receives'
      BY <3>2, <3>6, <3>7, <3>8, <3>9, <3>10 DEF Receives, R
    <3>12. Transit'
      BY <2>1, <2>3, <1>SameOrder DEF Transit, Envs
    <3>13. Asked'
      BY <2>3, SMT DEF IInv, Asked, Requests
    <3>14. Polled'
      BY <2>1, <2>3 DEF IInv, Polled, Shaped, Idle, IsHandler
    <3> QED BY <3>11, <3>12, <3>13, <3>14 DEF IInv
  <2> QED BY <2>4, <2>5, <1>ClientMessage

\* The other events of a progress thread.
<1>RunEventInv.
    ASSUME Setting, IInv, NEW s \in Sides, RunEvent(s)
    PROVE  IInv'
  <2> USE <1>RunEventInv
  <2>1. /\ events' = [events EXCEPT ![s] = Tail(@)]
        /\ UNCHANGED <<env, waiting, refused, connected, wire>>
    BY DEF RunEvent
  <2> DEFINE x == Head(events[s]).body
  <2>2. CASE /\ NextEvent(s, "send_recv") /\ pmix_ptl_base_send_recv(x)
             /\ UNCHANGED <<outcome, held>>
    BY <2>1, <2>2, <1>SendRecvInv
  <2>3. CASE /\ NextEvent(s, "send_oneway") /\ pmix_ptl_base_send(s, x)
             /\ UNCHANGED <<outcome, tag, posted, order, held>>
    BY <2>1, <2>3, <1>OnewayInv
  <2>4. CASE /\ NextEvent(s, "reply") /\ QueueReply(x)
             /\ UNCHANGED <<outcome, tag, posted, order, held>>
    BY <2>1, <2>4, <1>ReplyInv
  <2>5. CASE /\ NextEvent(s, "process_msg")
             /\ IF s = "client" THEN ProcessAtClient(x) ELSE ProcessAtServer(x)
             /\ UNCHANGED <<tag, order>>
    BY <2>1, <2>5, <1>ClientMessageInv, <1>ServerMessageInv, SidesLemma
  <2> QED BY <2>2, <2>3, <2>4, <2>5 DEF RunEvent

\* Every step keeps the invariant.
<1>NextInv.
    ASSUME Setting, IInv, [Next]_vars
    PROVE  IInv'
  <2> USE <1>NextInv
  <2>1. ASSUME NEW c \in Calls, Call(c) \/ Answer(c) PROVE IInv'
    BY <2>1, <1>CallInv, <1>AnswerInv
  <2>2. ASSUME NEW s \in Sides, NEW x \in Beats \cup Notes, SendOneway(s, x) PROVE IInv'
    BY <2>2, <1>SendOnewayInv
  <2>3. ASSUME NEW s \in Sides, Poll(s) \/ RunHandler(s) \/ RunEvent(s) \/ Crash(s) PROVE IInv'
    BY <2>3, <1>PollInv, <1>RunHandlerInv, <1>RunEventInv, <1>CrashInv
  <2>4. CASE UNCHANGED vars
    <3>1. /\ UNCHANGED <<env, waiting, refused, outcome, connected, tag, posted, order, peer>>
          /\ UNCHANGED <<wire, held, events>>
      BY <2>4 DEF vars
    <3> QED BY <3>1, <1>Frame DEF IInv, Transit, Asked, Polled
  <2> QED BY <2>1, <2>2, <2>3, <2>4 DEF Next

(* The message layer implements remote calls *)
\* A call as its caller sees it, by what has become of it.
<1>CallStates.
    ASSUME Setting, IInv, NEW c \in Calls
    PROVE  /\ c \notin waiting \cup refused => CallState(c) = "idle"
           /\ c \in waiting /\ outcome[c] = <<>> => CallState(c) = "waiting"
           /\ c \in refused => CallState(c) = "refused"
           /\ c \in waiting /\ outcome[c] = <<c>> => CallState(c) = "answered"
           /\ c \in waiting /\ outcome[c] = <<"lost">> => CallState(c) = "lost"
  <2> USE <1>CallStates
  <2>1. waiting \cap refused = {} /\ \A k \in DOMAIN order : order[k] \in waiting
    BY DEF IInv, Asked
  <2>2. c \notin waiting => outcome[c] = <<>>
    BY <2>1 DEF IInv, Receives
  <2>3. "lost" # c
    BY DEF Setting
  <2>4. <<"lost">> # <<c>> /\ <<c>> # <<>> /\ <<"lost">> # <<>>
    <3>1. <<"lost">>[1] = "lost" /\ <<c>>[1] = c /\ Len(<<c>>) = 1 /\ Len(<<"lost">>) = 1 /\ Len(<<>>) = 0
      OBVIOUS
    <3> QED BY <2>3, <3>1
  <2> QED BY <2>1, <2>2, <2>4 DEF CallState

\* A step in which no caller learns anything.
<1>NothingLearnt.
    ASSUME UNCHANGED <<waiting, refused, outcome, connected>>
    PROVE  UNCHANGED Answers!vars
  <2> USE <1>NothingLearnt
  <2>1. \A c \in Calls : CallState(c)' = CallState(c)
    BY DEF CallState
  <2> QED BY <2>1 DEF Answers!vars

\* A call of a thread.
<1>CallAsks.
    ASSUME Setting, IInv, IInv', NEW c \in Calls, Call(c)
    PROVE  Answers!Ask(c)
  <2> USE <1>CallAsks
  <2>1. UNCHANGED <<connected, outcome>> /\ c \notin waiting \cup refused
    BY DEF Call
  <2>2. CallState(c) = "idle"
    BY <2>1, <1>CallStates
  <2>3. \A d \in Calls : d # c => CallState(d)' = CallState(d)
    BY <2>1, SMT DEF Call, CallState
  <2>4. CallState(c)' = IF connected THEN "waiting" ELSE "refused"
    <3>1. outcome[c] = <<>>
      <4>1. \A k \in DOMAIN order : order[k] # c
        BY <2>1 DEF IInv, Asked
      <4>2. outcome[c] = <<>> \/ \E k \in DOMAIN order : order[k] = c
        BY DEF IInv, Receives
      <4> QED BY <4>1, <4>2
    <3> QED BY <2>1, <3>1, SMT DEF Call, CallState, IInv, Asked
  <2> DEFINE st == [d \in Calls |-> CallState(d)]
  <2>5. st' = [st EXCEPT ![c] = IF connected THEN "waiting" ELSE "refused"]
    BY <2>3, <2>4
  <2> QED BY <2>1, <2>2, <2>5 DEF Answers!Ask

\* An answer the client processes.
<1>MessageAnswers.
    ASSUME Setting, IInv, NextEvent("client", "process_msg"),
           ProcessAtClient(Head(events["client"]).body),
           UNCHANGED <<waiting, refused, connected>>
    PROVE  UNCHANGED Answers!vars \/ \E c \in Calls : Answers!Answered(c)
  <2> USE <1>MessageAnswers
  <2>1. CASE UNCHANGED outcome
    BY <2>1, <1>NothingLearnt
  <2>2. ASSUME NEW c \in Calls, outcome[c] = <<>>, \E k \in DOMAIN order : order[k] = c,
               outcome' = [outcome EXCEPT ![c] = <<c>>]
        PROVE  Answers!Answered(c)
    <3>1. c \in waiting /\ c \notin refused
      BY <2>2 DEF IInv, Asked
    <3>2. CallState(c) = "waiting"
      BY <2>2, <3>1, <1>CallStates
    <3>3. outcome'[c] = <<c>> /\ \A d \in Calls : d # c => outcome'[d] = outcome[d]
      BY <2>2 DEF IInv, Receives
    <3>4. CallState(c)' = "answered"
      BY <3>1, <3>3 DEF CallState
    <3>5. \A d \in Calls : d # c => CallState(d)' = CallState(d)
      BY <3>3 DEF CallState
    <3> DEFINE st == [d \in Calls |-> CallState(d)]
    <3>6. st' = [st EXCEPT ![c] = "answered"]
      BY <3>4, <3>5
    <3>7. connected
      BY <1>HandlerHasSocket
    <3> QED BY <3>2, <3>6, <3>7 DEF Answers!Answered
  <2> QED BY <2>1, <2>2, <1>ClientMessage

\* The loss of the connection, at the client.
<1>LossIsLost.
    ASSUME Setting, IInv, NextEvent("client", "recv"), ReadFailed("client"),
           UNCHANGED <<waiting, refused>>
    PROVE  Answers!Lost
  <2> USE <1>LossIsLost
  <2>1. /\ connected /\ connected' = FALSE
        /\ \A c \in Calls :
              \/ outcome'[c] = outcome[c]
              \/ /\ outcome[c] = <<>> /\ outcome'[c] = <<"lost">>
                 /\ \E k \in DOMAIN order : order[k] = c
    BY <1>ClientLost
  <2> DEFINE told == {c \in Calls : outcome'[c] # outcome[c]}
             st == [c \in Calls |-> CallState(c)]
  <2>2. ASSUME NEW c \in Calls, c \in told
        PROVE  CallState(c) = "waiting" /\ CallState(c)' = "lost"
    <3>1. c \in waiting /\ c \notin refused /\ outcome[c] = <<>> /\ outcome'[c] = <<"lost">>
      BY <2>1, <2>2, SMT DEF IInv, Asked
    <3>2. <<"lost">> # <<c>>
      <4>1. <<"lost">>[1] = "lost" /\ <<c>>[1] = c /\ "lost" # c
        BY DEF Setting
      <4> QED BY <4>1
    <3> QED BY <3>1, <3>2, <1>CallStates DEF CallState
  <2>3. ASSUME NEW c \in Calls, c \notin told
        PROVE  CallState(c)' = CallState(c)
    BY <2>3 DEF CallState
  <2>4. told \in SUBSET {c \in Calls : st[c] = "waiting"}
    BY <2>2
  <2>5. st' = [c \in Calls |-> IF c \in told THEN "lost" ELSE st[c]]
    BY <2>2, <2>3
  <2> QED BY <2>1, <2>4, <2>5 DEF Answers!Lost

\* Every step is a step of the remote calls, or none of theirs.
<1>StepRefines.
    ASSUME Setting, IInv, IInv', [Next]_vars
    PROVE  [Answers!Next]_(Answers!vars)
  <2> USE <1>StepRefines
  <2> USE DEF Answers!Next
  <2>1. ASSUME NEW c \in Calls, Call(c) PROVE Answers!Next
    BY <2>1, <1>CallAsks
  <2>2. ASSUME NEW c \in Calls, Answer(c) PROVE UNCHANGED Answers!vars
    BY <2>2, <1>NothingLearnt DEF Answer
  <2>3. ASSUME NEW s \in Sides, NEW x \in Beats \cup Notes, SendOneway(s, x)
        PROVE  UNCHANGED Answers!vars
    BY <2>3, <1>NothingLearnt DEF SendOneway
  <2>4. ASSUME NEW s \in Sides, Poll(s) \/ Crash(s) PROVE UNCHANGED Answers!vars
    BY <2>4, <1>NothingLearnt DEF Poll, Crash
  <2>5. ASSUME NEW s \in Sides, RunHandler(s) PROVE [Answers!Next]_(Answers!vars)
    <3>1. UNCHANGED <<waiting, refused>>
      BY <2>5 DEF RunHandler
    <3>2. CASE NextEvent(s, "send") /\ SendHandler(s)
      <4>1. "epipe" \notin env.faults
        BY DEF IInv, Transit, Envs
      <4> QED BY <3>1, <3>2, <4>1, <1>NothingLearnt DEF SendHandler
    <3>3. CASE NextEvent(s, "recv") /\ RecvHandler(s)
      <4>1. CASE \/ \E m \in Mails : \E rest \in Seq(Parcels) : Complete(s, m, rest)
                 \/ \E m \in Mails \cup {None} : \E rest \in Seq(Parcels) : Blocked(s, m, rest)
        BY <3>1, <4>1, <1>NothingLearnt DEF Complete, Blocked
      <4>2. CASE ReadFailed(s) /\ s = "client"
        BY <3>1, <3>3, <4>2, <1>LossIsLost
      <4>3. CASE ReadFailed(s) /\ s = "server"
        BY <3>1, <4>3, <1>NothingLearnt DEF ReadFailed, LostConnection
      <4> QED BY <3>3, <4>1, <4>2, <4>3, <1>ReadCases, SidesLemma
    <3> QED BY <2>5, <3>2, <3>3 DEF RunHandler
  <2>6. ASSUME NEW s \in Sides, RunEvent(s) PROVE [Answers!Next]_(Answers!vars)
    <3>1. UNCHANGED <<waiting, refused, connected>>
      BY <2>6 DEF RunEvent
    <3>2. CASE UNCHANGED outcome
      BY <3>1, <3>2, <1>NothingLearnt
    <3>3. CASE ~UNCHANGED outcome
      <4>1. /\ s = "client" /\ NextEvent("client", "process_msg")
            /\ ProcessAtClient(Head(events["client"]).body)
        BY <2>6, <3>3, SidesLemma DEF RunEvent, ProcessAtServer
      <4> QED BY <3>1, <4>1, <1>MessageAnswers
    <3> QED BY <3>2, <3>3
  <2>7. CASE UNCHANGED vars
    BY <2>7, <1>NothingLearnt DEF vars
  <2> QED BY <2>1, <2>2, <2>3, <2>4, <2>5, <2>6, <2>7 DEF Next
<1> QED BY <1>InitInv, <1>NextInv, <1>StepRefines

\* Every call made while the client is connected is answered at most once, with
\* the answer to that call or, when the connection is lost first, with the loss,
\* however the message layer cuts messages up and whoever crashes.
THEOREM MessagingRefines ==
    ASSUME Setting
    PROVE  Spec => AnsweredAsAsked
<1>1. Init => IInv
  BY Invariance
<1>2. IInv /\ [Next]_vars => IInv'
  BY Invariance
<1>3. Init => Answers!Init
  BY SMT DEF Init, CallState, Answers!Init
<1>4. IInv /\ IInv' /\ [Next]_vars => [Answers!Next]_(Answers!vars)
  BY Invariance
<1> QED BY <1>1, <1>2, <1>3, <1>4, PTL DEF Spec, AnsweredAsAsked, Answers!Spec

-----------------------------------------------------------------------------
(* The tags in a queue *)

\* The dynamic tags that f reads off a sequence q.
Dynamic(q, f) == {t \in Nat : t >= DYNAMIC /\ \E i \in DOMAIN q : f[q[i]] = t}

\* None of them is there twice.
Distinct(q, f) ==
    \A i, j \in DOMAIN q : f[q[i]] >= DYNAMIC /\ f[q[i]] = f[q[j]] => i = j

\* They ascend, and none is left out after a.
Runs(q, f, a) ==
    /\ \A i, j \in DOMAIN q :
          i < j /\ f[q[i]] >= DYNAMIC /\ f[q[j]] >= DYNAMIC => f[q[i]] < f[q[j]]
    /\ \A t \in Dynamic(q, f) : a < t /\ \A k \in a + 1 .. t : k \in Dynamic(q, f)

\* They are those from a + 1 to b.
Carries(q, f, a, b) == Runs(q, f, a) /\ a <= b /\ Dynamic(q, f) = a + 1 .. b

\* The tags without that of the head.
LEMMA TagsTail ==
    ASSUME NEW S, NEW q \in Seq(S), q # <<>>, NEW f \in [S -> Nat]
    PROVE  /\ Dynamic(Tail(q), f) \subseteq Dynamic(q, f)
           /\ f[Head(q)] < DYNAMIC => Dynamic(Tail(q), f) = Dynamic(q, f)
           /\ f[Head(q)] >= DYNAMIC => /\ f[Head(q)] \in Dynamic(q, f)
                                       /\ Dynamic(q, f) = Dynamic(Tail(q), f) \cup {f[Head(q)]}
           /\ Distinct(q, f) => /\ Distinct(Tail(q), f)
                                /\ f[Head(q)] >= DYNAMIC => f[Head(q)] \notin Dynamic(Tail(q), f)
<1> DEFINE w == Tail(q)
           h == f[Head(q)]
<1>1. /\ w \in Seq(S) /\ 1 \in DOMAIN q /\ h = f[q[1]] /\ h \in Nat
      /\ \A i \in DOMAIN w : i \in Nat \ {0} /\ i + 1 \in DOMAIN q /\ w[i] = q[i + 1]
  BY TailLemma, SMT
<1>2. \A i \in DOMAIN q : i = 1 \/ (i - 1 \in DOMAIN w /\ w[i - 1] = q[i])
  BY SMT
<1>3. \A i \in DOMAIN q : f[q[i]] \in Nat
  BY SMT
<1> HIDE DEF w, h
<1>4. Dynamic(w, f) \subseteq Dynamic(q, f)
  BY <1>1 DEF Dynamic
<1>5. Dynamic(q, f) \subseteq Dynamic(w, f) \cup {h}
  BY <1>1, <1>2 DEF Dynamic
<1>6. h >= DYNAMIC => h \in Dynamic(q, f)
  BY <1>1 DEF Dynamic
<1>7. h < DYNAMIC => h \notin Dynamic(q, f)
  BY <1>1, SMT DEF Dynamic, DYNAMIC
<1>8. ASSUME Distinct(q, f)
      PROVE  Distinct(w, f) /\ (h >= DYNAMIC => h \notin Dynamic(w, f))
  <2>1. ASSUME NEW i \in DOMAIN w, NEW j \in DOMAIN w, f[w[i]] >= DYNAMIC, f[w[i]] = f[w[j]]
        PROVE  i = j
    <3>1. i + 1 = j + 1
      BY <1>1, <1>8, <2>1 DEF Distinct
    <3> QED BY <1>1, <3>1, SMT
  <2>2. ASSUME h >= DYNAMIC, NEW i \in DOMAIN w, f[w[i]] = h PROVE FALSE
    <3>1. i + 1 = 1
      BY <1>1, <1>8, <2>2 DEF Distinct
    <3> QED BY <1>1, <3>1, SMT
  <2> QED BY <2>1, <2>2 DEF Distinct, Dynamic
<1> QED BY <1>4, <1>5, <1>6, <1>7, <1>8 DEF w, h

\* The tags with one more at the end.
LEMMA TagsAppend ==
    ASSUME NEW S, NEW q \in Seq(S), NEW e \in S, NEW f \in [S -> Nat]
    PROVE  /\ f[e] < DYNAMIC => Dynamic(Append(q, e), f) = Dynamic(q, f)
           /\ f[e] >= DYNAMIC => Dynamic(Append(q, e), f) = Dynamic(q, f) \cup {f[e]}
           /\ Distinct(q, f) /\ f[e] \notin Dynamic(q, f) => Distinct(Append(q, e), f)
<1> DEFINE w == Append(q, e)
           n == Len(q) + 1
<1>1. /\ DOMAIN w = DOMAIN q \cup {n} /\ n \notin DOMAIN q
      /\ \A i \in DOMAIN q : w[i] = q[i]
      /\ w[n] = e
  BY AppendLemma, SMT
<1>2. f[e] \in Nat /\ \A i \in DOMAIN q : f[q[i]] \in Nat
  BY SMT
<1> HIDE DEF w, n
<1>3. f[e] < DYNAMIC => Dynamic(w, f) = Dynamic(q, f)
  BY <1>1, <1>2, SMT DEF Dynamic, DYNAMIC
<1>4. f[e] >= DYNAMIC => Dynamic(w, f) = Dynamic(q, f) \cup {f[e]}
  BY <1>1, <1>2, SMT DEF Dynamic, DYNAMIC
<1>5. ASSUME Distinct(q, f), f[e] \notin Dynamic(q, f),
             NEW i \in DOMAIN w, NEW j \in DOMAIN w, f[w[i]] >= DYNAMIC, f[w[i]] = f[w[j]]
      PROVE  i = j
  <2>1. CASE i = n /\ j \in DOMAIN q
    BY <1>1, <1>2, <1>5, <2>1 DEF Dynamic
  <2>2. CASE j = n /\ i \in DOMAIN q
    BY <1>1, <1>2, <1>5, <2>2 DEF Dynamic
  <2>3. CASE i \in DOMAIN q /\ j \in DOMAIN q
    BY <1>1, <1>5, <2>3 DEF Distinct
  <2> QED BY <1>1, <2>1, <2>2, <2>3
<1> QED BY <1>3, <1>4, <1>5 DEF w, Distinct

\* The first of a run of tags is the one after a.
LEMMA RunsTail ==
    ASSUME NEW S, NEW q \in Seq(S), q # <<>>, NEW f \in [S -> Nat], NEW a \in Nat,
           a >= DYNAMIC, Runs(q, f, a)
    PROVE  /\ f[Head(q)] < DYNAMIC => Runs(Tail(q), f, a)
           /\ f[Head(q)] >= DYNAMIC => f[Head(q)] = a + 1 /\ Runs(Tail(q), f, a + 1)
<1> DEFINE w == Tail(q)
           h == f[Head(q)]
           D == Dynamic(q, f)
           E == Dynamic(w, f)
<1>1. /\ w \in Seq(S) /\ 1 \in DOMAIN q /\ h = f[q[1]] /\ h \in Nat
      /\ \A i \in DOMAIN w : i \in Nat \ {0} /\ i + 1 \in DOMAIN q /\ w[i] = q[i + 1]
  BY TailLemma, SMT
<1>2. \A i \in DOMAIN q : i \in Nat /\ i >= 1
  BY SMT
<1>3. /\ E \subseteq D
      /\ h < DYNAMIC => E = D
      /\ h >= DYNAMIC => h \in D /\ D = E \cup {h}
  BY TagsTail, SMT
<1>4. D \subseteq Nat
  BY SMT DEF Dynamic
<1> HIDE DEF w, h, D, E
<1>5. \A i, j \in DOMAIN w :
          i < j /\ f[w[i]] >= DYNAMIC /\ f[w[j]] >= DYNAMIC => f[w[i]] < f[w[j]]
  <2> SUFFICES ASSUME NEW i \in DOMAIN w, NEW j \in DOMAIN w,
                      i < j, f[w[i]] >= DYNAMIC, f[w[j]] >= DYNAMIC
               PROVE  f[w[i]] < f[w[j]]
    OBVIOUS
  <2>1. i + 1 < j + 1
    BY <1>1, SMT
  <2> QED BY <1>1, <2>1 DEF Runs
<1>6. \A t \in D : a < t /\ \A k \in a + 1 .. t : k \in D
  BY DEF Runs, D
<1>7. ASSUME h < DYNAMIC PROVE Runs(w, f, a)
  BY <1>3, <1>5, <1>6, <1>7 DEF Runs, E
<1>8. ASSUME h >= DYNAMIC PROVE h = a + 1 /\ Runs(w, f, a + 1)
  <2>1. ASSUME NEW t \in E PROVE h < t
    <3>1. PICK i \in DOMAIN w : f[w[i]] = t /\ t >= DYNAMIC /\ t \in Nat
      BY <2>1 DEF E, Dynamic
    <3>2. i + 1 \in DOMAIN q /\ f[q[i + 1]] = t /\ 1 < i + 1
      BY <1>1, <3>1, SMT
    <3> QED BY <1>1, <1>8, <3>1, <3>2 DEF Runs
  <2>2. h \in D /\ D = E \cup {h}
    BY <1>3, <1>8
  <2>3. a < h /\ a + 1 \in a + 1 .. h
    BY <1>1, <1>6, <2>2, SMT
  <2>4. a + 1 \in D
    BY <1>6, <2>2, <2>3
  <2>5. h = a + 1
    BY <1>1, <2>1, <2>2, <2>3, <2>4, SMT
  <2>6. ASSUME NEW t \in E PROVE a + 1 < t /\ \A k \in a + 1 + 1 .. t : k \in E
    <3>1. a + 1 < t /\ t \in Nat /\ t \in D
      BY <1>3, <1>4, <2>1, <2>5, <2>6, SMT
    <3>2. ASSUME NEW k \in a + 1 + 1 .. t PROVE k \in E
      <4>1. k \in a + 1 .. t /\ k # h
        BY <2>5, <3>1, SMT
      <4> QED BY <1>6, <2>2, <3>1, <4>1
    <3> QED BY <3>1, <3>2
  <2> QED BY <1>5, <2>5, <2>6 DEF Runs, E
<1> QED BY <1>7, <1>8 DEF w, h

\* The same for a run of which the end is known.
LEMMA CarriesTail ==
    ASSUME NEW S, NEW q \in Seq(S), q # <<>>, NEW f \in [S -> Nat], NEW a \in Nat, NEW b \in Nat,
           a >= DYNAMIC, Carries(q, f, a, b)
    PROVE  /\ f[Head(q)] < DYNAMIC => Carries(Tail(q), f, a, b)
           /\ f[Head(q)] >= DYNAMIC => f[Head(q)] = a + 1 /\ Carries(Tail(q), f, a + 1, b)
<1> DEFINE w == Tail(q)
           h == f[Head(q)]
<1>1. /\ h < DYNAMIC => Runs(w, f, a)
      /\ h >= DYNAMIC => h = a + 1 /\ Runs(w, f, a + 1)
  BY RunsTail DEF Carries
<1>2. /\ h < DYNAMIC => Dynamic(w, f) = Dynamic(q, f)
      /\ h >= DYNAMIC => h \in Dynamic(q, f) /\ Dynamic(q, f) = Dynamic(w, f) \cup {h}
  BY TagsTail
<1>3. Dynamic(q, f) = a + 1 .. b /\ a <= b
  BY DEF Carries
<1> HIDE DEF w, h
<1>4. ASSUME h < DYNAMIC PROVE Carries(w, f, a, b)
  BY <1>1, <1>2, <1>3, <1>4 DEF Carries
<1>5. ASSUME h >= DYNAMIC PROVE h = a + 1 /\ Carries(w, f, a + 1, b)
  <2>1. h = a + 1 /\ Runs(w, f, a + 1) /\ h \in a + 1 .. b /\ a + 1 .. b = Dynamic(w, f) \cup {h}
    BY <1>1, <1>2, <1>3, <1>5
  <2>2. \A t \in Dynamic(w, f) : a + 1 < t
    BY <2>1 DEF Runs
  <2>3. Dynamic(w, f) \subseteq Nat
    BY DEF Dynamic
  <2>4. ASSUME NEW t \in Nat PROVE t \in Dynamic(w, f) <=> t \in a + 1 + 1 .. b
    <3>1. t \in a + 1 .. b <=> t \in Dynamic(w, f) \/ t = h
      BY <2>1
    <3> HIDE DEF h
    <3> QED BY <2>1, <2>2, <3>1, SMT
  <2>5. Dynamic(w, f) = a + 1 + 1 .. b /\ a + 1 <= b
    <3>1. a + 1 + 1 .. b \subseteq Nat /\ a + 1 <= b
      BY <2>1, SMT
    <3> QED BY <2>3, <2>4, <3>1
  <2> QED BY <2>1, <2>5 DEF Carries
<1> QED BY <1>4, <1>5 DEF w, h

\* A run goes on with the next tag, or with a message on a reserved one.
LEMMA CarriesAppend ==
    ASSUME NEW S, NEW q \in Seq(S), NEW e \in S, NEW f \in [S -> Nat], NEW a \in Nat, NEW b \in Nat,
           a >= DYNAMIC, Carries(q, f, a, b)
    PROVE  /\ f[e] < DYNAMIC => Carries(Append(q, e), f, a, b)
           /\ f[e] = b + 1 => Carries(Append(q, e), f, a, b + 1)
<1> DEFINE w == Append(q, e)
           n == Len(q) + 1
<1>1. /\ DOMAIN w = DOMAIN q \cup {n} /\ n \notin DOMAIN q
      /\ \A i \in DOMAIN q : w[i] = q[i]
      /\ w[n] = e /\ n \in Nat /\ DOMAIN q = 1 .. Len(q)
  BY AppendLemma, SMT
<1>2. f[e] \in Nat /\ \A i \in DOMAIN q : f[q[i]] \in Nat /\ i \in Nat /\ i < n
  BY <1>1, SMT
<1>3. Dynamic(q, f) = a + 1 .. b /\ a <= b
  BY DEF Carries
<1>4. /\ f[e] < DYNAMIC => Dynamic(w, f) = Dynamic(q, f)
      /\ f[e] >= DYNAMIC => Dynamic(w, f) = Dynamic(q, f) \cup {f[e]}
  BY TagsAppend, SMT
<1> HIDE DEF w, n
<1>5. \A i, j \in DOMAIN q :
          i < j /\ f[q[i]] >= DYNAMIC /\ f[q[j]] >= DYNAMIC => f[q[i]] < f[q[j]]
  BY DEF Carries, Runs
<1>6. \A i \in DOMAIN q : f[q[i]] >= DYNAMIC => f[q[i]] <= b
  <2> SUFFICES ASSUME NEW i \in DOMAIN q, f[q[i]] >= DYNAMIC PROVE f[q[i]] <= b
    OBVIOUS
  <2>1. f[q[i]] \in Dynamic(q, f)
    BY <1>2 DEF Dynamic
  <2> QED BY <1>3, <2>1, SMT
<1>7. ASSUME f[e] < DYNAMIC \/ f[e] = b + 1,
             NEW i \in DOMAIN w, NEW j \in DOMAIN w,
             i < j, f[w[i]] >= DYNAMIC, f[w[j]] >= DYNAMIC
      PROVE  f[w[i]] < f[w[j]]
  <2>1. i \in DOMAIN q
    BY <1>1, <1>2, <1>7, SMT
  <2>2. CASE j \in DOMAIN q
    BY <1>1, <1>5, <1>7, <2>1, <2>2
  <2>3. CASE j = n
    BY <1>1, <1>2, <1>6, <1>7, <2>1, <2>3, SMT DEF DYNAMIC
  <2> QED BY <1>1, <2>2, <2>3
<1>8. ASSUME f[e] < DYNAMIC PROVE Carries(w, f, a, b)
  BY <1>3, <1>4, <1>7, <1>8 DEF Carries, Runs
<1>9. ASSUME f[e] = b + 1 PROVE Carries(w, f, a, b + 1)
  <2>1. f[e] >= DYNAMIC
    BY <1>3, <1>9, SMT DEF DYNAMIC
  <2>2. Dynamic(w, f) = a + 1 .. b + 1 /\ a <= b + 1
    <3>1. Dynamic(w, f) = (a + 1 .. b) \cup {b + 1}
      BY <1>3, <1>4, <1>9, <2>1
    <3> QED BY <1>3, <3>1, SMT
  <2>3. \A t \in Dynamic(w, f) : a < t /\ \A k \in a + 1 .. t : k \in Dynamic(w, f)
    BY <2>2, SMT
  <2> QED BY <1>7, <1>9, <2>2, <2>3 DEF Carries, Runs
<1> QED BY <1>8, <1>9 DEF w

\* Nothing is in an empty sequence.
LEMMA TagsNone ==
    ASSUME NEW f, NEW a \in Nat
    PROVE  /\ Dynamic(<<>>, f) = {} /\ Distinct(<<>>, f)
           /\ Runs(<<>>, f, a) /\ Carries(<<>>, f, a, a)
<1>1. DOMAIN <<>> = {}
  BY SMT
<1>2. Dynamic(<<>>, f) = {} /\ Distinct(<<>>, f)
  BY <1>1 DEF Dynamic, Distinct
<1>3. Runs(<<>>, f, a)
  BY <1>1, <1>2 DEF Runs
<1>4. a + 1 .. a = {} /\ a <= a
  BY SMT
<1> QED BY <1>2, <1>3, <1>4 DEF Carries

\* q2 is q without its first tag t, if that is a dynamic one.
Loses(q, q2, f, t) ==
    /\ t < DYNAMIC => Dynamic(q2, f) = Dynamic(q, f)
    /\ t >= DYNAMIC => t \in Dynamic(q, f) /\ Dynamic(q, f) = Dynamic(q2, f) \cup {t}
    /\ Distinct(q, f) => Distinct(q2, f) /\ (t >= DYNAMIC => t \notin Dynamic(q2, f))
    /\ \A a \in Nat : a >= DYNAMIC /\ Runs(q, f, a) =>
          /\ t < DYNAMIC => Runs(q2, f, a)
          /\ t >= DYNAMIC => t = a + 1 /\ Runs(q2, f, a + 1)
    /\ \A a, b \in Nat : a >= DYNAMIC /\ Carries(q, f, a, b) =>
          /\ t < DYNAMIC => Carries(q2, f, a, b)
          /\ t >= DYNAMIC => t = a + 1 /\ Carries(q2, f, a + 1, b)

\* q2 is q with t at its end, if that is a dynamic tag.
Gains(q, q2, f, t) ==
    /\ t < DYNAMIC => Dynamic(q2, f) = Dynamic(q, f)
    /\ t >= DYNAMIC => Dynamic(q2, f) = Dynamic(q, f) \cup {t}
    /\ Distinct(q, f) /\ t \notin Dynamic(q, f) => Distinct(q2, f)
    /\ \A a, b \in Nat : a >= DYNAMIC /\ Carries(q, f, a, b) =>
          /\ t < DYNAMIC => Carries(q2, f, a, b)
          /\ t = b + 1 => Carries(q2, f, a, b + 1)

\* The head is lost.
LEMMA LosesHead ==
    ASSUME NEW S, NEW q \in Seq(S), q # <<>>, NEW f \in [S -> Nat]
    PROVE  Loses(q, Tail(q), f, f[Head(q)])
<1> DEFINE w == Tail(q)
           t == f[Head(q)]
<1>1. /\ t < DYNAMIC => Dynamic(w, f) = Dynamic(q, f)
      /\ t >= DYNAMIC => t \in Dynamic(q, f) /\ Dynamic(q, f) = Dynamic(w, f) \cup {t}
      /\ Distinct(q, f) => Distinct(w, f) /\ (t >= DYNAMIC => t \notin Dynamic(w, f))
  BY TagsTail, SMT
<1>2. \A a \in Nat : a >= DYNAMIC /\ Runs(q, f, a) =>
          /\ t < DYNAMIC => Runs(w, f, a)
          /\ t >= DYNAMIC => t = a + 1 /\ Runs(w, f, a + 1)
  BY RunsTail
<1>3. \A a, b \in Nat : a >= DYNAMIC /\ Carries(q, f, a, b) =>
          /\ t < DYNAMIC => Carries(w, f, a, b)
          /\ t >= DYNAMIC => t = a + 1 /\ Carries(w, f, a + 1, b)
  BY CarriesTail
<1> HIDE DEF w, t
<1>4. Loses(q, w, f, t)
  BY <1>1, <1>2, <1>3 DEF Loses
<1> QED BY <1>4 DEF w, t

\* A tag is put at the end.
LEMMA GainsLast ==
    ASSUME NEW S, NEW q \in Seq(S), NEW e \in S, NEW f \in [S -> Nat]
    PROVE  Gains(q, Append(q, e), f, f[e])
<1> DEFINE w == Append(q, e)
           t == f[e]
<1>1. /\ t < DYNAMIC => Dynamic(w, f) = Dynamic(q, f)
      /\ t >= DYNAMIC => Dynamic(w, f) = Dynamic(q, f) \cup {t}
      /\ Distinct(q, f) /\ t \notin Dynamic(q, f) => Distinct(w, f)
  BY TagsAppend, SMT
<1>2. \A a, b \in Nat : a >= DYNAMIC /\ Carries(q, f, a, b) =>
          /\ t < DYNAMIC => Carries(w, f, a, b)
          /\ t = b + 1 => Carries(w, f, a, b + 1)
  BY CarriesAppend
<1> HIDE DEF w, t
<1>3. Gains(q, w, f, t)
  BY <1>1, <1>2 DEF Gains
<1> QED BY <1>3 DEF w, t

\* Before it, others that are not dynamic may be.
LEMMA GainsMore ==
    ASSUME NEW q, NEW q2, NEW q3, NEW f, NEW t, Gains(q, q2, f, 0), Gains(q2, q3, f, t)
    PROVE  Gains(q, q3, f, t)
<1>1. 0 < DYNAMIC /\ ~(0 >= DYNAMIC) /\ 0 \notin Dynamic(q, f)
  BY SMT DEF DYNAMIC, Dynamic
<1> QED BY <1>1 DEF Gains

-----------------------------------------------------------------------------
(* The stream of units *)

Wares == Messages \X Nat

\* A message's tag counts where its last unit is.
EndTag == [u \in Wares |-> IF u[2] = HdrUnits + u[1].nbytes THEN u[1].tag ELSE 0]

\* The units of a message come one after the other.
Follows(x, y) ==
    IF x[2] < HdrUnits + x[1].nbytes THEN y = <<x[1], x[2] + 1>> ELSE y[2] = 1

Chained(u) ==
    \A i \in DOMAIN u : /\ u[i][2] \in 1 .. HdrUnits + u[i][1].nbytes
                        /\ i + 1 \in DOMAIN u => Follows(u[i], u[i + 1])

\* r is the message of which the header was read; open tells that its sender
\* still writes, so that no message remains in part.
Stream(u, r, open) ==
    /\ Chained(u)
    /\ u # <<>> => IF r = None THEN u[1][2] = 1 ELSE u[1] = <<r, 3>>
    /\ r # None => r.nbytes = 1
    /\ open => IF u = <<>> THEN r = None
               ELSE u[Len(u)][2] = HdrUnits + u[Len(u)][1].nbytes

\* No header is cut.
Cut(w) == w # <<>> => w[Len(w)][2] >= HdrUnits

\* What is left to write: a message, or its data.
Whole(x) ==
    x # <<>> => LET m == x[1][1]
                IN  x = Units(m) \/ (m.nbytes = 1 /\ x = << <<m, 3>> >>)

\* The units, and what their last one counts for.
LEMMA WareLemma ==
    /\ EndTag \in [Wares -> Nat]
    /\ \A u \in Wares : /\ u[1] \in Messages /\ u[2] \in Nat /\ u = <<u[1], u[2]>>
                        /\ u[1].tag \in Nat /\ u[1].nbytes \in {0, 1}
                        /\ u[2] = HdrUnits + u[1].nbytes => EndTag[u] = u[1].tag
                        /\ u[2] < HdrUnits + u[1].nbytes => EndTag[u] = 0
<1>1. \A u \in Wares : /\ u[1] \in Messages /\ u[2] \in Nat /\ u = <<u[1], u[2]>>
                       /\ u[1].tag \in Nat /\ u[1].nbytes \in {0, 1}
  BY SMT DEF Wares, Messages
<1>2. \A u \in Wares : HdrUnits + u[1].nbytes \in Nat
  BY <1>1, SMT DEF HdrUnits
<1>3. \A u \in Wares : u[2] < HdrUnits + u[1].nbytes => u[2] # HdrUnits + u[1].nbytes
  BY <1>1, <1>2, SMT
<1> QED BY <1>1, <1>3 DEF EndTag

\* One more unit at the end.
LEMMA ChainAppend ==
    ASSUME NEW u \in Seq(Wares), Chained(u), NEW e \in Wares,
           e[2] \in 1 .. HdrUnits + e[1].nbytes, u # <<>> => Follows(u[Len(u)], e)
    PROVE  LET a == Append(u, e)
           IN  /\ a \in Seq(Wares) /\ Chained(a) /\ a # <<>> /\ a[Len(a)] = e
               /\ IF u = <<>> THEN a[1] = e ELSE a[1] = u[1]
<1> DEFINE a == Append(u, e)
           n == Len(u)
<1> HIDE DEF Wares
<1>1. /\ a \in Seq(Wares) /\ a # <<>> /\ a[Len(a)] = e
      /\ IF u = <<>> THEN a[1] = e ELSE a[1] = u[1]
  <2>1. a \in Seq(Wares) /\ Len(a) = n + 1 /\ a[n + 1] = e /\ n \in Nat
    BY AppendLemma, SMT
  <2>2. u # <<>> => a[1] = u[1]
    BY SMT
  <2>3. u = <<>> => n + 1 = 1
    BY SMT
  <2>4. a # <<>>
    BY <2>1, SMT
  <2> QED BY <2>1, <2>2, <2>3, <2>4
<1>2. /\ DOMAIN a = DOMAIN u \cup {n + 1} /\ n + 1 \notin DOMAIN u
      /\ \A i \in DOMAIN u : a[i] = u[i]
      /\ a[n + 1] = e
  BY SMT
<1>3. /\ \A i \in DOMAIN u : i + 1 = n + 1 => i = n /\ u # <<>>
      /\ n + 1 + 1 \notin DOMAIN a
      /\ u # <<>> => Follows(u[n], e)
  BY SMT
<1> HIDE DEF a, n
<1>4. ASSUME NEW i \in DOMAIN a, i + 1 \in DOMAIN a PROVE Follows(a[i], a[i + 1])
  <2>1. i \in DOMAIN u
    BY <1>2, <1>3, <1>4
  <2>2. CASE i + 1 \in DOMAIN u
    BY <1>2, <2>1, <2>2 DEF Chained
  <2>3. CASE i + 1 = n + 1
    BY <1>2, <1>3, <2>1, <2>3
  <2> QED BY <1>2, <1>4, <2>2, <2>3, SMT
<1>5. \A i \in DOMAIN a : a[i][2] \in 1 .. HdrUnits + a[i][1].nbytes
  BY <1>2 DEF Chained
<1>6. Chained(a)
  BY <1>4, <1>5 DEF Chained
<1> QED BY <1>1, <1>6 DEF a

\* The units of a message, one by one.
LEMMA UnitsAppended ==
    ASSUME NEW u \in Seq(Wares), NEW m \in Messages
    PROVE  LET h == Append(Append(u, <<m, 1>>), <<m, 2>>)
           IN  /\ u \o Units(m) = IF m.nbytes = 0 THEN h ELSE Append(h, <<m, 3>>)
               /\ Units(m) \in Seq(Wares) /\ Units(m) # <<>>
               /\ \A i \in 1 .. 3 : <<m, i>> \in Wares
               /\ m.nbytes = 0 => Len(Units(m)) = 2
               /\ m.nbytes = 1 => Len(Units(m)) = 3 /\ Units(m)[3] = <<m, 3>>
               /\ Units(m)[1] = <<m, 1>> /\ Units(m)[2] = <<m, 2>>
<1> DEFINE h == Append(Append(u, <<m, 1>>), <<m, 2>>)
           a == u \o Units(m)
           b == IF m.nbytes = 0 THEN h ELSE Append(h, <<m, 3>>)
           n == HdrUnits + m.nbytes
<1>1. m.nbytes \in {0, 1} /\ n \in {2, 3} /\ (m.nbytes = 0 => n = 2) /\ (m.nbytes = 1 => n = 3)
  <2>1. m.nbytes \in {0, 1}
    BY DEF Messages
  <2> QED BY <2>1, SMT DEF HdrUnits
<1>2. \A i \in Nat : <<m, i>> \in Wares
  BY SMT DEF Wares
<1> HIDE DEF Wares, n
<1>3. Units(m) = [i \in 1 .. n |-> <<m, i>>]
  BY DEF Units, n
<1>4. Units(m) \in Seq(Wares) /\ Len(Units(m)) = n /\ \A i \in 1 .. n : Units(m)[i] = <<m, i>>
  BY <1>1, <1>2, <1>3, SMT
<1>5. h \in Seq(Wares) /\ <<m, 3>> \in Wares
  BY <1>2, SMT
<1>6. Len(h) = Len(u) + 2 /\ h[Len(u) + 1] = <<m, 1>> /\ h[Len(u) + 2] = <<m, 2>>
      /\ \A i \in 1 .. Len(u) : h[i] = u[i]
  BY <1>2, SMT
<1>7. a \in Seq(Wares) /\ Len(a) = Len(u) + n
  BY <1>1, <1>4, SMT
<1>8. /\ \A i \in 1 .. Len(u) : a[i] = u[i]
      /\ \A i \in 1 .. n : a[Len(u) + i] = <<m, i>>
  BY <1>1, <1>4, SMT
<1> HIDE DEF h, a
<1>9. b \in Seq(Wares)
  BY <1>2, <1>5, SMT
<1>10. CASE m.nbytes = 0
  <2>1. b = h /\ n = 2
    BY <1>1, <1>10, SMT
  <2>2. \A i \in 1 .. Len(a) : a[i] = h[i]
    <3> SUFFICES ASSUME NEW i \in 1 .. Len(a) PROVE a[i] = h[i]
      BY SMT
    <3>1. CASE i \in 1 .. Len(u)
      BY <1>6, <1>8, <3>1, SMT
    <3>2. CASE i = Len(u) + 1
      BY <1>6, <1>8, <2>1, <3>2, SMT
    <3>3. CASE i = Len(u) + 2
      BY <1>6, <1>8, <2>1, <3>3, SMT
    <3> QED BY <1>7, <2>1, <3>1, <3>2, <3>3, SMT
  <2>3. a = b
    BY <1>5, <1>6, <1>7, <2>1, <2>2, SameSeq, SMT
  <2> QED BY <1>1, <1>2, <1>4, <1>10, <2>1, <2>3, SMT DEF a, h
<1>11. CASE m.nbytes = 1
  <2>1. b = Append(h, <<m, 3>>) /\ n = 3
    BY <1>1, <1>11, SMT
  <2> HIDE DEF b
  <2>2. Len(b) = Len(u) + 3 /\ b[Len(u) + 3] = <<m, 3>> /\ \A i \in 1 .. Len(u) + 2 : b[i] = h[i]
    BY <1>5, <1>6, <2>1, SMT
  <2>3. a[Len(u) + 1] = <<m, 1>> /\ a[Len(u) + 2] = <<m, 2>> /\ a[Len(u) + 3] = <<m, 3>>
    BY <1>8, <2>1, SMT
  <2>4. b[Len(u) + 1] = <<m, 1>> /\ b[Len(u) + 2] = <<m, 2>>
    BY <1>6, <2>2, SMT
  <2>5. \A i \in 1 .. Len(a) : a[i] = b[i]
    <3> SUFFICES ASSUME NEW i \in 1 .. Len(a) PROVE a[i] = b[i]
      BY SMT
    <3>1. CASE i \in 1 .. Len(u)
      BY <1>6, <1>8, <2>2, <3>1, SMT
    <3>2. CASE i = Len(u) + 1
      BY <2>3, <2>4, <3>2
    <3>3. CASE i = Len(u) + 2
      BY <2>3, <2>4, <3>3
    <3>4. CASE i = Len(u) + 3
      BY <2>2, <2>3, <3>4
    <3>5. i \in 1 .. Len(u) \/ i = Len(u) + 1 \/ i = Len(u) + 2 \/ i = Len(u) + 3
      BY <1>7, <2>1, SMT
    <3> QED BY <3>1, <3>2, <3>3, <3>4, <3>5
  <2>6. a = b
    BY <1>7, <1>9, <2>1, <2>2, <2>5, SameSeq, SMT
  <2> QED BY <1>1, <1>2, <1>4, <1>11, <2>1, <2>6, SMT DEF a, b, h
<1> QED BY <1>1, <1>10, <1>11

\* A message is put at the end of a line.
LEMMA LineGains ==
    ASSUME NEW u \in Seq(Wares), NEW m \in Messages
    PROVE  Gains(u, u \o Units(m), EndTag, m.tag)
<1> DEFINE a == Append(u, <<m, 1>>)
           b == Append(a, <<m, 2>>)
           c == Append(b, <<m, 3>>)
           v == u \o Units(m)
<1>1. /\ m.nbytes \in {0, 1} /\ \A i \in 1 .. 3 : <<m, i>> \in Wares
      /\ v = IF m.nbytes = 0 THEN b ELSE c
  BY UnitsAppended DEF Messages
<1>2. <<m, 1>> \in Wares /\ <<m, 2>> \in Wares /\ <<m, 3>> \in Wares
  BY <1>1, SMT
<1>3. /\ <<m, 1>>[1] = m /\ <<m, 2>>[1] = m /\ <<m, 3>>[1] = m
      /\ <<m, 1>>[2] = 1 /\ <<m, 2>>[2] = 2 /\ <<m, 3>>[2] = 3
  BY SMT
<1>4. /\ 1 < HdrUnits + m.nbytes
      /\ m.nbytes = 0 => 2 = HdrUnits + m.nbytes
      /\ m.nbytes = 1 => 2 < HdrUnits + m.nbytes /\ 3 = HdrUnits + m.nbytes
  BY <1>1, SMT DEF HdrUnits
<1>5. a \in Seq(Wares)
  BY <1>2, AppendLemma
<1>6. Gains(u, a, EndTag, 0)
  <2>1. EndTag[<<m, 1>>] = 0
    BY <1>2, <1>3, <1>4, WareLemma
  <2>2. Gains(u, a, EndTag, EndTag[<<m, 1>>])
    BY <1>2, GainsLast, WareLemma
  <2> QED BY <2>1, <2>2
<1> HIDE DEF a
<1>7. b \in Seq(Wares)
  BY <1>2, <1>5, AppendLemma
<1>8. Gains(a, b, EndTag, EndTag[<<m, 2>>])
  BY <1>2, <1>5, GainsLast, WareLemma
<1> HIDE DEF b
<1>9. CASE m.nbytes = 0
  <2>1. v = b /\ EndTag[<<m, 2>>] = m.tag
    BY <1>1, <1>2, <1>3, <1>4, <1>9, WareLemma
  <2> QED BY <1>6, <1>8, <2>1, GainsMore
<1>10. CASE m.nbytes = 1
  <2>1. v = c /\ EndTag[<<m, 2>>] = 0 /\ EndTag[<<m, 3>>] = m.tag
    <3>1. m.nbytes # 0
      BY <1>10, SMT
    <3> QED BY <1>1, <1>2, <1>3, <1>4, <1>10, <3>1, WareLemma
  <2>2. Gains(b, c, EndTag, EndTag[<<m, 3>>])
    BY <1>2, <1>7, GainsLast, WareLemma
  <2> HIDE DEF c
  <2>3. Gains(u, b, EndTag, 0)
    BY <1>6, <1>8, <2>1, GainsMore
  <2> QED BY <2>1, <2>2, <2>3, GainsMore
<1> QED BY <1>1, <1>9, <1>10

\* A message is put behind what is under way.
LEMMA StreamUnits ==
    ASSUME NEW u \in Seq(Wares), NEW r, Stream(u, r, TRUE), NEW m \in Messages
    PROVE  u \o Units(m) \in Seq(Wares) /\ Stream(u \o Units(m), r, TRUE)
<1> DEFINE a == Append(u, <<m, 1>>)
           b == Append(a, <<m, 2>>)
           c == Append(b, <<m, 3>>)
           v == u \o Units(m)
<1>1. /\ m.nbytes \in {0, 1} /\ \A i \in 1 .. 3 : <<m, i>> \in Wares
      /\ v = IF m.nbytes = 0 THEN b ELSE c
  BY UnitsAppended DEF Messages
<1>2. <<m, 1>> \in Wares /\ <<m, 2>> \in Wares /\ <<m, 3>> \in Wares
  BY <1>1, SMT
<1>3. /\ <<m, 1>>[1] = m /\ <<m, 2>>[1] = m /\ <<m, 3>>[1] = m
      /\ <<m, 1>>[2] = 1 /\ <<m, 2>>[2] = 2 /\ <<m, 3>>[2] = 3
  BY SMT
<1>4. /\ 1 \in 1 .. HdrUnits + m.nbytes /\ 2 \in 1 .. HdrUnits + m.nbytes
      /\ 1 < HdrUnits + m.nbytes /\ 1 + 1 = 2 /\ 2 + 1 = 3
      /\ m.nbytes = 0 => 2 = HdrUnits + m.nbytes
      /\ m.nbytes = 1 => /\ 3 \in 1 .. HdrUnits + m.nbytes /\ 2 < HdrUnits + m.nbytes
                         /\ 3 = HdrUnits + m.nbytes
  BY <1>1, SMT DEF HdrUnits
<1>5. /\ Chained(u) /\ (u # <<>> => IF r = None THEN u[1][2] = 1 ELSE u[1] = <<r, 3>>)
      /\ IF u = <<>> THEN r = None ELSE u[Len(u)][2] = HdrUnits + u[Len(u)][1].nbytes
      /\ r # None => r.nbytes = 1
  BY DEF Stream
<1>6. u # <<>> => Follows(u[Len(u)], <<m, 1>>)
  <2>1. u # <<>> => u[Len(u)] \in Wares
    BY SMT DEF Wares
  <2>2. u # <<>> => ~(u[Len(u)][2] < HdrUnits + u[Len(u)][1].nbytes)
    BY <1>5, <2>1, WareLemma, SMT
  <2> QED BY <1>3, <2>2 DEF Follows
<1>7. /\ a \in Seq(Wares) /\ Chained(a) /\ a # <<>> /\ a[Len(a)] = <<m, 1>>
      /\ IF u = <<>> THEN a[1] = <<m, 1>> ELSE a[1] = u[1]
  BY <1>2, <1>3, <1>4, <1>5, <1>6, ChainAppend
<1> HIDE DEF a
<1>8. /\ b \in Seq(Wares) /\ Chained(b) /\ b # <<>> /\ b[Len(b)] = <<m, 2>>
      /\ b[1] = a[1]
  <2>1. Follows(a[Len(a)], <<m, 2>>)
    BY <1>3, <1>4, <1>7 DEF Follows
  <2> QED BY <1>2, <1>3, <1>4, <1>7, <2>1, ChainAppend
<1>9. IF r = None THEN a[1][2] = 1 ELSE a[1] = <<r, 3>>
  BY <1>3, <1>5, <1>7
<1> HIDE DEF b
<1>10. CASE m.nbytes = 0
  <2>1. v = b
    BY <1>1, <1>10
  <2>2. Stream(b, r, TRUE)
    BY <1>3, <1>4, <1>5, <1>8, <1>9, <1>10 DEF Stream
  <2> QED BY <1>8, <2>1, <2>2
<1>11. CASE m.nbytes = 1
  <2>1. v = c
    <3>1. m.nbytes # 0
      BY <1>11, SMT
    <3> QED BY <1>1, <3>1
  <2>2. /\ c \in Seq(Wares) /\ Chained(c) /\ c # <<>> /\ c[Len(c)] = <<m, 3>>
        /\ c[1] = b[1]
    <3>1. Follows(b[Len(b)], <<m, 3>>)
      BY <1>3, <1>4, <1>8, <1>11 DEF Follows
    <3> QED BY <1>2, <1>3, <1>4, <1>8, <1>11, <3>1, ChainAppend
  <2> HIDE DEF c
  <2>3. Stream(c, r, TRUE)
    BY <1>3, <1>4, <1>5, <1>8, <1>9, <1>11, <2>2 DEF Stream
  <2> QED BY <2>1, <2>2, <2>3
<1> QED BY <1>1, <1>10, <1>11

\* The tag of a message on a queue.
TagOf == [m \in Messages |-> m.tag]

-----------------------------------------------------------------------------
(* Requests on their way to the server *)

\* A dynamic tag goes from the queue q to the line and to the events ev of the
\* server, which has taken up those up to base; last is the last one given.
\* While the client has its socket none is missing.
Flow(base, ev, f, line, q, last, open) ==
    \E e \in Nat :
       /\ Carries(ev, f, base, e)
       /\ Runs(line, EndTag, e)
       /\ open => \E l \in Nat : Carries(line, EndTag, e, l) /\ Carries(q, TagOf, l, last)

\* The same tags in the same order.
Same(q, q2, f) ==
    /\ Dynamic(q2, f) = Dynamic(q, f)
    /\ Distinct(q, f) => Distinct(q2, f)
    /\ \A a, b \in Nat : a >= DYNAMIC /\ Carries(q, f, a, b) => Carries(q2, f, a, b)

\* A message on a reserved tag changes nothing.
LEMMA SameTags ==
    ASSUME NEW q, NEW q2, NEW f, NEW t \in Nat, t < DYNAMIC,
           Gains(q, q2, f, t) \/ Loses(q, q2, f, t)
    PROVE  Same(q, q2, f)
<1>1. t \notin Dynamic(q, f) /\ ~(t >= DYNAMIC)
  BY SMT DEF Dynamic, DYNAMIC
<1>2. CASE Gains(q, q2, f, t)
  BY <1>1, <1>2 DEF Same, Gains
<1>3. CASE Loses(q, q2, f, t)
  BY <1>1, <1>3 DEF Same, Loses
<1> QED BY <1>2, <1>3

\* A run that starts at a tag does not end before.
LEMMA CarriesBounds ==
    ASSUME NEW q, NEW f, NEW a \in Nat, NEW b \in Nat, a >= DYNAMIC, Carries(q, f, a, b)
    PROVE  a <= b /\ b >= DYNAMIC /\ (Dynamic(q, f) = {} => a = b)
<1>1. a <= b /\ Dynamic(q, f) = a + 1 .. b
  BY DEF Carries
<1> QED BY <1>1, SMT DEF DYNAMIC

\* Other events come and go.
LEMMA FlowEvents ==
    ASSUME NEW base, NEW ev, NEW f, NEW line, NEW q, NEW last, NEW open,
           Flow(base, ev, f, line, q, last, open), NEW ev2, Same(ev, ev2, f),
           base \in Nat, base >= DYNAMIC, last \in Nat
    PROVE  Flow(base, ev2, f, line, q, last, open)
BY DEF Flow, Same

\* Messages on reserved tags are queued, or put on the line.
LEMMA FlowOther ==
    ASSUME NEW base, NEW ev, NEW f, NEW line, NEW q, NEW last,
           Flow(base, ev, f, line, q, last, TRUE), NEW line2, Same(line, line2, EndTag),
           NEW q2, Same(q, q2, TagOf), base \in Nat, base >= DYNAMIC, last \in Nat
    PROVE  Flow(base, ev, f, line2, q2, last, TRUE)
<1>1. PICK e \in Nat :
         /\ Carries(ev, f, base, e) /\ Runs(line, EndTag, e)
         /\ \E l \in Nat : Carries(line, EndTag, e, l) /\ Carries(q, TagOf, l, last)
  BY DEF Flow
<1>2. PICK l \in Nat : Carries(line, EndTag, e, l) /\ Carries(q, TagOf, l, last)
  BY <1>1
<1>3. e >= DYNAMIC
  BY <1>1, CarriesBounds
<1>4. l >= DYNAMIC
  BY <1>2, <1>3, CarriesBounds
<1>5. Carries(line2, EndTag, e, l) /\ Carries(q2, TagOf, l, last)
  BY <1>2, <1>3, <1>4 DEF Same
<1>6. Runs(line2, EndTag, e)
  BY <1>5 DEF Carries
<1> QED BY <1>1, <1>5, <1>6 DEF Flow

-----------------------------------------------------------------------------
(* Answers on their way to the client *)

HeldTags(hd) == {t \in Nat : t >= DYNAMIC /\ \E m \in hd : m.tag = t}

\* A dynamic tag is in one place at most and a receive for it, one of O, waits.
Apart(H, R, Q, L, E, O) ==
    /\ H \subseteq O /\ R \subseteq O /\ Q \subseteq O /\ L \subseteq O /\ E \subseteq O
    /\ H \cap R = {} /\ H \cap Q = {} /\ H \cap L = {} /\ H \cap E = {}
    /\ R \cap Q = {} /\ R \cap L = {} /\ R \cap E = {}
    /\ Q \cap L = {} /\ Q \cap E = {} /\ L \cap E = {}

\* An answer goes from the requests held by way of the events sev of the server,
\* its queue q and the line to the events cev of the client; it is there once.
Back(hd, sev, f, q, line, cev, g, O) ==
    /\ Apart(HeldTags(hd), Dynamic(sev, f), Dynamic(q, TagOf), Dynamic(line, EndTag),
             Dynamic(cev, g), O)
    /\ \A m, n \in hd : m.tag >= DYNAMIC /\ m.tag = n.tag => m = n
    /\ Distinct(sev, f) /\ Distinct(q, TagOf) /\ Distinct(line, EndTag) /\ Distinct(cev, g)

\* Some of it is lost, or nothing changes.
LEMMA BackLess ==
    ASSUME NEW hd, NEW sev, NEW f, NEW q, NEW line, NEW cev, NEW g, NEW O,
           Back(hd, sev, f, q, line, cev, g, O),
           NEW hd2 \in SUBSET hd,
           NEW sev2, Dynamic(sev2, f) \subseteq Dynamic(sev, f),
           Distinct(sev, f) => Distinct(sev2, f),
           NEW q2, Dynamic(q2, TagOf) \subseteq Dynamic(q, TagOf),
           Distinct(q, TagOf) => Distinct(q2, TagOf),
           NEW line2, Dynamic(line2, EndTag) \subseteq Dynamic(line, EndTag),
           Distinct(line, EndTag) => Distinct(line2, EndTag),
           NEW cev2, Dynamic(cev2, g) \subseteq Dynamic(cev, g),
           Distinct(cev, g) => Distinct(cev2, g)
    PROVE  Back(hd2, sev2, f, q2, line2, cev2, g, O)
<1>1. HeldTags(hd2) \subseteq HeldTags(hd)
  BY DEF HeldTags
<1>2. Apart(HeldTags(hd), Dynamic(sev, f), Dynamic(q, TagOf), Dynamic(line, EndTag),
            Dynamic(cev, g), O)
  BY DEF Back
<1>3. Apart(HeldTags(hd2), Dynamic(sev2, f), Dynamic(q2, TagOf), Dynamic(line2, EndTag),
            Dynamic(cev2, g), O)
  BY <1>1, <1>2, SMT DEF Apart
<1> QED BY <1>3 DEF Back

\* A tag at most has moved from a, which was b, to c, which was d.
Moved(a, b, f, c, d, g) ==
    /\ Distinct(a, f) /\ Distinct(c, g)
    /\ Dynamic(a, f) \subseteq Dynamic(b, f)
    /\ Dynamic(c, g) \subseteq Dynamic(d, g) \cup (Dynamic(b, f) \ Dynamic(a, f))

\* A tag moves from one place to another.
LEMMA TagMoves ==
    ASSUME NEW a, NEW a2, NEW f, NEW b, NEW b2, NEW g, NEW t \in Nat,
           Loses(a, a2, f, t), Gains(b, b2, g, t), Distinct(a, f), Distinct(b, g),
           Dynamic(a, f) \cap Dynamic(b, g) = {}
    PROVE  Moved(a2, a, f, b2, b, g)
<1>1. t < DYNAMIC \/ t >= DYNAMIC
  BY SMT DEF DYNAMIC
<1>2. t < DYNAMIC => t \notin Dynamic(b, g)
  BY SMT DEF DYNAMIC, Dynamic
<1>3. CASE t < DYNAMIC
  BY <1>2, <1>3 DEF Loses, Gains, Moved
<1>4. CASE t >= DYNAMIC
  <2>1. /\ t \in Dynamic(a, f) /\ Dynamic(a, f) = Dynamic(a2, f) \cup {t} /\ t \notin Dynamic(a2, f)
        /\ Dynamic(b2, g) = Dynamic(b, g) \cup {t} /\ Distinct(a2, f)
    BY <1>4 DEF Loses, Gains
  <2>2. Distinct(b2, g)
    BY <2>1 DEF Gains
  <2> QED BY <2>1, <2>2 DEF Moved
<1> QED BY <1>1, <1>3, <1>4

-----------------------------------------------------------------------------
(* The invariant of the message layer *)

\* What s has not written yet of the message it writes, and the units on their
\* way from s to the other side.
Unsent(s) == IF peer[s].sd THEN peer[s].send_msg ELSE <<>>
Line(s) == wire[Other(s)] \o Unsent(s)

AllEvents ==
    [ev : {"send_recv"}, body : Calls]
    \cup [ev : {"send_oneway"}, body : Notes \cup Beats]
    \cup [ev : {"reply", "process_msg"}, body : Messages]
    \cup [ev : {"recv", "send"}, body : {None}]

\* The tag of the message in an event of this kind.
KindTag(kind) == [e \in AllEvents |-> IF e.ev = kind THEN e.body.tag ELSE 0]

\* The messages that may be bound for s: no notification for the server and,
\* when a sensor takes the heartbeats, none of those for the client.
Bound(s, mon) ==
    {m \in Messages : IF s = "server" THEN m.tag # NOTIFY ELSE mon => m.tag # HEARTBEAT}

Deeds(s, mon) ==
    [ev : {"send_recv"}, body : Calls]
    \cup [ev : {"send_oneway"}, body : IF s = "client" THEN Beats ELSE Notes]
    \cup [ev : {"process_msg"}, body : Bound(s, mon)]
    \cup [ev : IF s = "server" THEN {"reply"} ELSE {}, body : Bound("client", mon)]
    \cup [ev : {"recv", "send"}, body : {None}]

Loads(s, mon) ==
    [sd : BOOLEAN, finalized : BOOLEAN, send_msg : Seq(Bound(Other(s), mon) \X Nat),
     send_queue : Seq(Bound(Other(s), mon)), send_ev : BOOLEAN,
     recv_msg : Bound(s, mon) \cup {None}]

TagsIn(q) == {q[i].tag : i \in DOMAIN q}
PostedTags == TagsIn(posted)

\* Whatever is under way may go where it goes.
Sorted(mon) ==
    /\ \A s \in Sides : /\ peer[s] \in Loads(s, mon)
                        /\ wire[s] \in Seq(Bound(s, mon) \X Nat)
                        /\ events[s] \in Seq(Deeds(s, mon))
    /\ held \subseteq Bound("client", mon)
    /\ NOTIFY \in PostedTags

\* There is a message to write when the event of the write is set, and when
\* others are queued behind it.
Writing(p) ==
    /\ p.send_ev => p.send_msg # None
    /\ p.send_msg = None => p.send_queue = <<>>

\* The server's queue of events is in order as the client's is.
ServerPolled ==
    /\ Shaped(events["server"])
    /\ ~peer["server"].sd => Idle(events["server"])

Always ==
    /\ Sorted(env.monitored)
    /\ Writing(peer["client"]) /\ Writing(peer["server"])
    /\ ServerPolled
    /\ OnlyBeatsKept

\* The units that s reads are those of whole messages.
StreamTo(s) ==
    /\ Cut(wire[s]) /\ Whole(peer[s].send_msg)
    /\ peer[s].sd => Stream(Line(Other(s)), peer[s].recv_msg, peer[Other(s)].sd)

Base == DYNAMIC + Len(handled)

Forward ==
    peer["server"].sd =>
       Flow(Base, events["server"], KindTag("process_msg"), Line("client"),
            peer["client"].send_queue, tag, peer["client"].sd)

Backward ==
    /\ Back(held, events["server"], KindTag("reply"), peer["server"].send_queue,
            Line("server"), events["client"], KindTag("process_msg"),
            {t \in PostedTags : t <= Base})
    /\ \A k \in Base + 1 .. tag : k \in PostedTags

Exact ==
    /\ StreamTo("client") /\ StreamTo("server")
    /\ Forward /\ Backward
    /\ stray = {}
    /\ Len(handled) \in 0 .. Len(order) /\ handled = SubSeq(order, 1, Len(handled))

PipeInv == IInv /\ Always /\ ("short_hdr" \in env.faults \/ Exact)

-----------------------------------------------------------------------------
(* Types *)

\* What an event counts for.
LEMMA KindLemma ==
    ASSUME NEW k \in {"reply", "process_msg"}
    PROVE  /\ KindTag(k) \in [AllEvents -> Nat]
           /\ \A e \in AllEvents :
                 KindTag(k)[e] = IF e.ev = k THEN e.body.tag ELSE 0
<1>1. \A e \in AllEvents : e.ev = k => e.body.tag \in Nat
  <2> SUFFICES ASSUME NEW e \in AllEvents, e.ev = k PROVE e.body \in Messages
    BY DEF Messages
  <2> QED BY DEF AllEvents
<1> QED BY <1>1 DEF KindTag

\* The messages that are bound somewhere are messages.
LEMMA BoundLemma ==
    ASSUME NEW s \in Sides, NEW mon
    PROVE  /\ Bound(s, mon) \subseteq Messages
           /\ Bound(s, mon) \X Nat \subseteq Wares
           /\ Deeds(s, mon) \subseteq AllEvents
<1>1. \A u \in Sides : Bound(u, mon) \subseteq Messages
  BY DEF Bound
<1>2. Bound(s, mon) \X Nat \subseteq Wares
  BY <1>1, SMT DEF Wares
<1>3. ASSUME NEW e \in Deeds(s, mon) PROVE e \in AllEvents
  <2>1. CASE e \in [ev : {"send_recv"}, body : Calls]
    BY <2>1 DEF AllEvents
  <2>2. CASE e \in [ev : {"send_oneway"}, body : IF s = "client" THEN Beats ELSE Notes]
    <3>1. e \in [ev : {"send_oneway"}, body : Notes \cup Beats]
      BY <2>2, SMT
    <3> QED BY <3>1 DEF AllEvents
  <2>3. CASE e \in [ev : {"process_msg"}, body : Bound(s, mon)]
    <3>1. e \in [ev : {"reply", "process_msg"}, body : Messages]
      BY <1>1, <2>3, SMT
    <3> QED BY <3>1 DEF AllEvents
  <2>4. CASE e \in [ev : IF s = "server" THEN {"reply"} ELSE {}, body : Bound("client", mon)]
    <3>1. e \in [ev : {"reply", "process_msg"}, body : Messages]
      BY <1>1, <2>4, SidesLemma, SMT
    <3> QED BY <3>1 DEF AllEvents
  <2>5. CASE e \in [ev : {"recv", "send"}, body : {None}]
    BY <2>5 DEF AllEvents
  <2> QED BY <1>3, <2>1, <2>2, <2>3, <2>4, <2>5 DEF Deeds
<1> QED BY <1>1, <1>2, <1>3

\* So are those of a sequence.
LEMMA BoundSeq ==
    ASSUME NEW s \in Sides, NEW mon
    PROVE  /\ Seq(Bound(s, mon)) \subseteq Seq(Messages)
           /\ Seq(Bound(s, mon) \X Nat) \subseteq Seq(Wares)
<1> DEFINE B == Bound(s, mon)
           W == B \X Nat
<1>1. B \subseteq Messages /\ W \subseteq Wares
  BY BoundLemma, SMT
<1> HIDE DEF B, W
<1>2. Seq(B) \subseteq Seq(Messages) /\ Seq(W) \subseteq Seq(Wares)
  BY <1>1, SeqSubset
<1> QED BY <1>2 DEF B, W

\* The types of what is under way.
LEMMA SortedTypes ==
    ASSUME NEW mon, Sorted(mon), NEW s \in Sides
    PROVE  /\ peer[s].send_msg \in Seq(Wares) /\ peer[s].send_queue \in Seq(Messages)
           /\ wire[s] \in Seq(Wares) /\ Unsent(s) \in Seq(Wares) /\ Line(s) \in Seq(Wares)
           /\ events[s] \in Seq(AllEvents) /\ held \subseteq Messages
           /\ peer[s].recv_msg \in Messages \cup {None} /\ peer[s].sd \in BOOLEAN
<1>1. /\ peer[s] \in Loads(s, mon) /\ events[s] \in Seq(Deeds(s, mon))
      /\ Other(s) \in Sides /\ "client" \in Sides
      /\ \A u \in Sides : wire[u] \in Seq(Bound(u, mon) \X Nat)
      /\ held \subseteq Bound("client", mon)
  BY SidesLemma DEF Sorted
<1>2. /\ peer[s].send_msg \in Seq(Bound(Other(s), mon) \X Nat)
      /\ peer[s].send_queue \in Seq(Bound(Other(s), mon))
      /\ peer[s].recv_msg \in Bound(s, mon) \cup {None} /\ peer[s].sd \in BOOLEAN
  BY <1>1 DEF Loads
<1>3. peer[s].send_msg \in Seq(Wares) /\ peer[s].send_queue \in Seq(Messages)
  BY <1>1, <1>2, BoundSeq
<1>4. \A u \in Sides : wire[u] \in Seq(Wares)
  BY <1>1, BoundSeq
<1>5. events[s] \in Seq(AllEvents)
  BY <1>1, BoundLemma, SeqSubset
<1>6. held \subseteq Messages /\ peer[s].recv_msg \in Messages \cup {None}
  BY <1>1, <1>2, BoundLemma
<1>7. Unsent(s) \in Seq(Wares)
  <2>1. <<>> \in Seq(Wares)
    BY EmptyLemma
  <2> QED BY <1>3, <2>1 DEF Unsent
<1>8. Line(s) \in Seq(Wares)
  BY <1>1, <1>4, <1>7, ConcatLemma DEF Line
<1> QED BY <1>2, <1>3, <1>4, <1>5, <1>6, <1>7, <1>8

\* The numbers.
LEMMA BaseLemma ==
    ASSUME IInv, Exact
    PROVE  Base \in Nat /\ Base >= DYNAMIC /\ tag \in Nat /\ Len(handled) \in Nat
<1>1. order \in Seq(Calls) /\ tag = DYNAMIC + Len(order)
  BY DEF IInv, Asked
<1>2. Len(handled) \in 0 .. Len(order)
  BY DEF Exact
<1> QED BY <1>1, <1>2, SMT DEF Base, DYNAMIC

-----------------------------------------------------------------------------
(* Events *)

\* An event is put at the end of a queue.
LEMMA EventGains ==
    ASSUME NEW q \in Seq(AllEvents), NEW e \in AllEvents, NEW k \in {"reply", "process_msg"}
    PROVE  Gains(q, Append(q, e), KindTag(k), IF e.ev = k THEN e.body.tag ELSE 0)
<1>1. Gains(q, Append(q, e), KindTag(k), KindTag(k)[e])
  BY KindLemma, GainsLast
<1> QED BY <1>1, KindLemma

\* The first event of a queue has run.
LEMMA EventLoses ==
    ASSUME NEW q \in Seq(AllEvents), q # <<>>, NEW k \in {"reply", "process_msg"}
    PROVE  Loses(q, Tail(q), KindTag(k), IF Head(q).ev = k THEN Head(q).body.tag ELSE 0)
<1>1. Loses(q, Tail(q), KindTag(k), KindTag(k)[Head(q)])
  BY KindLemma, LosesHead
<1>2. Head(q) \in AllEvents
  BY TailLemma
<1> QED BY <1>1, <1>2, KindLemma

\* An event of another kind makes no difference.
LEMMA EventsSame ==
    ASSUME NEW q \in Seq(AllEvents), NEW k \in {"reply", "process_msg"}
    PROVE  /\ Same(q, q, KindTag(k))
           /\ \A e \in AllEvents : e.ev # k => Same(q, Append(q, e), KindTag(k))
           /\ q # <<>> /\ Head(q).ev # k => Same(q, Tail(q), KindTag(k))
<1>1. 0 \in Nat /\ 0 < DYNAMIC
  BY SMT DEF DYNAMIC
<1>2. Same(q, q, KindTag(k))
  BY DEF Same
<1>3. ASSUME NEW e \in AllEvents, e.ev # k PROVE Same(q, Append(q, e), KindTag(k))
  <2>1. Gains(q, Append(q, e), KindTag(k), 0)
    BY <1>3, EventGains
  <2> QED BY <1>1, <2>1, SameTags
<1>4. ASSUME q # <<>>, Head(q).ev # k PROVE Same(q, Tail(q), KindTag(k))
  <2>1. Loses(q, Tail(q), KindTag(k), 0)
    BY <1>4, EventLoses
  <2> QED BY <1>1, <2>1, SameTags
<1> QED BY <1>2, <1>3, <1>4

-----------------------------------------------------------------------------
(* Steps of threads *)

\* The invariant after a step, by what it is about.
LEMMA AlwaysFrame ==
    ASSUME Always, env'.monitored = env.monitored,
           \A s \in Sides : /\ peer'[s] \in Loads(s, env.monitored)
                            /\ wire'[s] \in Seq(Bound(s, env.monitored) \X Nat)
                            /\ events'[s] \in Seq(Deeds(s, env.monitored)),
           held' \subseteq Bound("client", env.monitored), NOTIFY \in PostedTags',
           Writing(peer'["client"]), Writing(peer'["server"]),
           Shaped(events'["server"]), ~peer'["server"].sd => Idle(events'["server"]),
           \A m \in unexpected' : m.tag = HEARTBEAT /\ ~env.monitored
    PROVE  Always'
<1>1. (Sorted(env.monitored))'
  BY DEF Sorted
<1>2. ServerPolled' /\ OnlyBeatsKept'
  BY DEF ServerPolled, OnlyBeatsKept, Shaped, Idle, IsHandler
<1> QED BY <1>1, <1>2 DEF Always, Writing

-----------------------------------------------------------------------------
(* Sending *)

\* A message in units, of any kind of messages.
LEMMA UnitsBound ==
    ASSUME NEW S, NEW m \in S, m.nbytes \in {0, 1}
    PROVE  Units(m) \in Seq(S \X Nat)
<1>1. HdrUnits + m.nbytes \in Nat
  BY SMT DEF HdrUnits
<1>2. \A i \in 1 .. HdrUnits + m.nbytes : <<m, i>> \in S \X Nat
  BY SMT
<1> HIDE DEF HdrUnits
<1> QED BY <1>1, <1>2, SMT DEF Units

\* A side sends m: the message is put on its line at once or at the end of its
\* queue, unless the side has no socket and nothing to write.
SentOn(s, m) ==
    LET q == peer[s].send_queue
        q2 == peer'[s].send_queue
    IN  \/ /\ peer[s].sd /\ q = <<>> /\ q2 = <<>> /\ Line(s)' = Line(s) \o Units(m)
           /\ Gains(Line(s), Line(s)', EndTag, m.tag)
        \/ /\ ~peer[s].sd /\ q2 = q /\ Line(s)' = Line(s)
        \/ Gains(q, q2, TagOf, m.tag) /\ Line(s)' = Line(s)

\* A step in which the client's requests are as they were.
LEMMA ForwardKept ==
    ASSUME IInv, Exact, UNCHANGED <<handled, tag>>,
           peer'["server"].sd => peer["server"].sd,
           Same(events["server"], events'["server"], KindTag("process_msg")),
           Line("client")' = Line("client"), peer'["client"].send_queue = peer["client"].send_queue,
           peer'["client"].sd = peer["client"].sd
    PROVE  Forward'
<1> SUFFICES ASSUME peer["server"].sd
             PROVE  Flow(Base, events'["server"], KindTag("process_msg"), Line("client"),
                         peer["client"].send_queue, tag, peer["client"].sd)
  BY DEF Forward, Base
<1>1. Flow(Base, events["server"], KindTag("process_msg"), Line("client"),
           peer["client"].send_queue, tag, peer["client"].sd)
  BY DEF Exact, Forward
<1>2. Base \in Nat /\ Base >= DYNAMIC /\ tag \in Nat
  BY BaseLemma
<1> QED BY <1>1, <1>2, FlowEvents

\* A step in which the server's answers are as they were, or some are lost.
LEMMA BackwardKept ==
    ASSUME IInv, Exact, UNCHANGED <<handled, tag, posted>>, held' \subseteq held,
           Dynamic(events'["server"], KindTag("reply"))
              \subseteq Dynamic(events["server"], KindTag("reply")),
           Distinct(events["server"], KindTag("reply"))
              => Distinct(events'["server"], KindTag("reply")),
           Dynamic(events'["client"], KindTag("process_msg"))
              \subseteq Dynamic(events["client"], KindTag("process_msg")),
           Distinct(events["client"], KindTag("process_msg"))
              => Distinct(events'["client"], KindTag("process_msg")),
           Dynamic(Line("server")', EndTag) \subseteq Dynamic(Line("server"), EndTag),
           Distinct(Line("server"), EndTag) => Distinct(Line("server")', EndTag),
           Dynamic(peer'["server"].send_queue, TagOf)
              \subseteq Dynamic(peer["server"].send_queue, TagOf),
           Distinct(peer["server"].send_queue, TagOf)
              => Distinct(peer'["server"].send_queue, TagOf)
    PROVE  Backward'
<1> DEFINE O == {t \in PostedTags : t <= Base}
<1>1. /\ Back(held, events["server"], KindTag("reply"), peer["server"].send_queue,
              Line("server"), events["client"], KindTag("process_msg"), O)
      /\ \A k \in Base + 1 .. tag : k \in PostedTags
  BY DEF Exact, Backward
<1> HIDE DEF O
<1>2. Back(held', events'["server"], KindTag("reply"), peer'["server"].send_queue,
           Line("server")', events'["client"], KindTag("process_msg"), O)
  BY <1>1, BackLess
<1>3. Base' = Base /\ PostedTags' = PostedTags
  BY DEF Base, PostedTags
<1> QED BY <1>1, <1>2, <1>3 DEF Backward, O

\* The progress thread of a side has run an event.
LEMMA RunMoves ==
    ASSUME IInv, Always, env' = env, NEW s \in Sides, events[s] # <<>>,
           events' = [events EXCEPT ![s] = Tail(@)],
           \A u \in Sides : /\ peer'[u] \in Loads(u, env.monitored) /\ Writing(peer'[u])
                            /\ peer'[u].sd = peer[u].sd
                            /\ wire'[u] \in Seq(Bound(u, env.monitored) \X Nat),
           held' \subseteq Bound("client", env.monitored), NOTIFY \in PostedTags',
           \A m \in unexpected' : m.tag = HEARTBEAT /\ ~env.monitored
    PROVE  Always'
<1> DEFINE mon == env.monitored
<1>1. /\ events \in [Sides -> Seq(Events)] /\ Sorted(mon) /\ ServerPolled
      /\ \A u \in Sides : events[u] \in Seq(Deeds(u, mon))
  BY DEF IInv, Transit, Always, Sorted
<1>2. \A u \in Sides : events'[u] = IF u = s THEN Tail(events[s]) ELSE events[u]
  BY <1>1
<1>3. Tail(events[s]) \in Seq(Deeds(s, mon))
  BY <1>1, TailLemma
<1>4. \A u \in Sides : /\ peer'[u] \in Loads(u, mon) /\ wire'[u] \in Seq(Bound(u, mon) \X Nat)
                       /\ events'[u] \in Seq(Deeds(u, mon))
  BY <1>1, <1>2, <1>3
<1>5. Shaped(events'["server"]) /\ (~peer'["server"].sd => Idle(events'["server"]))
  <2>1. CASE s = "server"
    <3>1. events'["server"] = Tail(events["server"])
      BY <1>2, <2>1, SidesLemma
    <3>2. events["server"] \in Seq(Deeds("server", mon)) /\ events["server"] # <<>>
      BY <1>1, <2>1, SidesLemma
    <3>3. /\ Shaped(events["server"]) => Shaped(Tail(events["server"]))
          /\ Idle(events["server"]) => Idle(Tail(events["server"]))
      BY <3>2, QueueTail
    <3> QED BY <1>1, <3>1, <3>3, SidesLemma DEF ServerPolled
  <2>2. CASE s # "server"
    <3>1. events'["server"] = events["server"]
      BY <1>2, <2>2, SidesLemma
    <3> QED BY <1>1, <3>1, SidesLemma DEF ServerPolled
  <2> QED BY <2>1, <2>2
<1>6. Writing(peer'["client"]) /\ Writing(peer'["server"]) /\ env'.monitored = mon
  BY SidesLemma
<1> QED BY <1>4, <1>5, <1>6, AlwaysFrame

\* The queues after such an event.
LEMMA RunEvents ==
    ASSUME IInv, Always, NEW s \in Sides, events[s] # <<>>,
           events' = [events EXCEPT ![s] = Tail(@)]
    PROVE  /\ \A u \in Sides : u # s => events'[u] = events[u]
           /\ \A u \in Sides : events[u] \in Seq(AllEvents)
           /\ \A u \in Sides, k \in {"reply", "process_msg"} :
                 (u # s \/ Head(events[s]).ev # k)
                    => Same(events[u], events'[u], KindTag(k))
           /\ \A k \in {"reply", "process_msg"} :
                 Head(events[s]).ev = k =>
                    Loses(events[s], events'[s], KindTag(k), Head(events[s]).body.tag)
<1>1. events \in [Sides -> Seq(Events)] /\ Sorted(env.monitored)
  BY DEF IInv, Transit, Always
<1>2. \A u \in Sides : events'[u] = IF u = s THEN Tail(events[s]) ELSE events[u]
  BY <1>1
<1>3. \A u \in Sides : events[u] \in Seq(AllEvents)
  BY <1>1, SortedTypes
<1>4. ASSUME NEW u \in Sides, NEW k \in {"reply", "process_msg"},
             u # s \/ Head(events[s]).ev # k
      PROVE  Same(events[u], events'[u], KindTag(k))
  <2>1. CASE u = s
    BY <1>2, <1>3, <1>4, <2>1, EventsSame
  <2>2. CASE u # s
    BY <1>2, <1>3, <2>2, EventsSame
  <2> QED BY <2>1, <2>2
<1>5. ASSUME NEW k \in {"reply", "process_msg"}, Head(events[s]).ev = k
      PROVE  Loses(events[s], events'[s], KindTag(k), Head(events[s]).body.tag)
  BY <1>2, <1>3, <1>5, EventLoses
<1> QED BY <1>2, <1>3, <1>4, <1>5

\* The invariant gives what a step of an event starts from.
LEMMA AlwaysParts ==
    ASSUME Always
    PROVE  /\ Sorted(env.monitored) /\ held \subseteq Bound("client", env.monitored)
           /\ NOTIFY \in PostedTags
           /\ \A u \in Sides : peer[u] \in Loads(u, env.monitored) /\ Writing(peer[u])
           /\ \A m \in unexpected : m.tag = HEARTBEAT /\ ~env.monitored
BY SidesLemma DEF Always, Sorted, OnlyBeatsKept

-----------------------------------------------------------------------------
(* Messages that were read *)

\* A message is processed by a side that has a socket.
LEMMA ReaderHasSocket ==
    ASSUME IInv, Always, NEW s \in Sides, events[s] # <<>>,
           IsHandler(Head(events[s])) \/ Head(events[s]).ev = "process_msg"
    PROVE  peer[s].sd
<1>1. events[s] \in Seq(Events)
  BY DEF IInv, Transit
<1>2. 1 \in DOMAIN events[s] /\ Head(events[s]) = events[s][1]
  BY <1>1, TailLemma
<1>3. ~Idle(events[s])
  BY <1>2 DEF Idle
<1>4. CASE s = "client"
  BY <1>3, <1>4 DEF IInv, Polled
<1>5. CASE s = "server"
  BY <1>3, <1>5 DEF Always, ServerPolled
<1> QED BY <1>4, <1>5, SidesLemma

=============================================================================
