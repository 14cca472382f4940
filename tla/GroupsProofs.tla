---------------------------- MODULE GroupsProofs ----------------------------
(***************************************************************************)
(* Proofs about Groups, for every finite set of members and every scenario: *)
(* the members of a group go through its rounds together and are told the  *)
(* same, unless the host refuses or one of them is lost; and a timer runs   *)
(* only for a tracker that is on the list.                                 *)
(***************************************************************************)
EXTENDS Groups, FiniteSetTheorems, TLAPS

\* Who is on a tracker waits for its operation, which is its next one.
Joined ==
    /\ \A op \in Ops : \A p \in trk[op].cbs : p \in Members /\ call[p] = op /\ p \notin gone
    /\ \A p \in Members : call[p] # "none" => call[p] = NextOp(p) /\ round[p] < 3

\* The functions have their domains.
Shapes ==
    /\ trk \in [Ops -> [nlocal : Int, cbs : SUBSET Members]]
    /\ cbs \subseteq [op : Ops, status : {"success", "error"}]

\* The host works on op, or has answered it.
Busy(op) == op \in host \/ \E r \in cbs : r.op = op

\* As long as nobody is lost, what the host works on has been called by all, and
\* comes back once.
AllCalled ==
    gone = {} =>
      /\ \A op \in Ops : trk[op] # None => trk[op].nlocal = Cardinality(Members)
      /\ \A op \in Ops : Busy(op) => trk[op] # None /\ trk[op].cbs = Members
      /\ \A r \in cbs : r.op \notin host
      /\ \A r, s \in cbs : r.op = s.op => r = s
      /\ "result" \notin wild

\* As long as nobody is lost and the host does not refuse, the members are in the
\* same round, with the same answers, and the group is there to be destructed.
Together ==
    (~MayRefuse /\ gone = {}) =>
      /\ \A p, q \in Members : round[p] = round[q] /\ answers[p] = answers[q]
      /\ \A p \in Members : round[p] % 2 = 1 \/ call[p] = "construct" => grp

\* A timer runs for a tracker on the list, one of whose callers asked for it;
\* memory is misused only where the timers and the refusals say so.
Timing ==
    /\ TimersOwned /\ CaddyReleasedOnce
    /\ \A op \in armed : gone # {} \/ \E q \in trk[op].cbs : q \in env.timed
    /\ armed # {} => env.timed # {}

IInv == TypeOK /\ Shapes /\ Joined /\ WaitersTracked /\ AllCalled /\ Together /\ Timing

-----------------------------------------------------------------------------
(* What the operators are *)

\* A call added to the tracker of its operation.
Extended(op, p) == [Tracker(op) EXCEPT !.cbs = @ \cup {p}]

\* A tracker with a call more is a tracker, and not the absent one; with nobody
\* lost it counts all members, and holds them all when it is complete.
LEMMA ExtendedFacts ==
    ASSUME IsFiniteSet(Members), Shapes, NEW op \in Ops, NEW p \in Members
    PROVE  /\ Extended(op, p) \in [nlocal : Int, cbs : SUBSET Members]
           /\ Extended(op, p) # None
           /\ Extended(op, p).cbs = trk[op].cbs \cup {p}
           /\ (AllCalled /\ gone = {}) =>
                /\ Extended(op, p).nlocal = Cardinality(Members)
                /\ Cardinality(Extended(op, p).cbs) = Extended(op, p).nlocal =>
                      Extended(op, p).cbs = Members
<1>1. /\ Tracker(op) \in [nlocal : Int, cbs : SUBSET Members]
      /\ Tracker(op).cbs = trk[op].cbs
      /\ trk[op] # None => Tracker(op) = trk[op]
      /\ trk[op] = None => Tracker(op).nlocal = Cardinality(Members \ gone)
  <2>1. IsFiniteSet(Members \ gone)
    BY FS_Difference, Zenon
  <2>2. Cardinality(Members \ gone) \in Nat
    BY <2>1, FS_CardinalityType, Zenon
  <2>3. trk[op] \in [nlocal : Int, cbs : SUBSET Members]
    BY Zenon DEF Shapes
  <2> QED BY <2>2, <2>3 DEF Tracker, None
<1>2. /\ Extended(op, p) \in [nlocal : Int, cbs : SUBSET Members]
      /\ Extended(op, p).cbs = trk[op].cbs \cup {p}
      /\ Extended(op, p).nlocal = Tracker(op).nlocal
  BY <1>1, Zenon DEF Extended
<1>3. Extended(op, p) # None
  BY <1>2 DEF None
<1>4. ASSUME AllCalled, gone = {} PROVE Extended(op, p).nlocal = Cardinality(Members)
  <2>1. Members \ gone = Members
    BY <1>4, Zenon
  <2> QED BY <1>1, <1>2, <1>4, <2>1, Zenon DEF AllCalled
<1>5. ASSUME Cardinality(Extended(op, p).cbs) = Cardinality(Members)
      PROVE  Extended(op, p).cbs = Members
  <2>1. Extended(op, p).cbs \subseteq Members
    BY <1>2, Zenon
  <2> QED BY <1>5, <2>1, FS_Subset, Zenon
<1> QED BY <1>2, <1>3, <1>4, <1>5, Zenon

-----------------------------------------------------------------------------
(* The invariant holds at first, and every step keeps it *)

\* Initially nobody has called.
LEMMA GroupsInit ==
    ASSUME Init
    PROVE  IInv
<1> USE DEF Init
<1>1. \A op \in Ops : trk[op] = None
  BY Zenon
<1>2. TypeOK
  <2>1. call \in [Members -> Ops \cup {"none"}]
    BY Zenon
  <2>2. 0 \in 0 .. 3
    OBVIOUS
  <2>3. round \in [Members -> 0 .. 3]
    BY <2>2, Zenon
  <2>4. grp \in BOOLEAN /\ host \subseteq Ops /\ armed \subseteq Ops /\ wild \subseteq Misuses
    BY Zenon
  <2> QED BY <2>1, <2>3, <2>4, Zenon DEF TypeOK
<1>3. Shapes
  BY DEF Shapes, None
<1>4. Joined
  BY <1>1, Zenon DEF Joined, None
<1>5. WaitersTracked
  BY Zenon DEF WaitersTracked
<1>6. AllCalled
  BY <1>1, Zenon DEF AllCalled, Busy
<1>7. Together
  BY DEF Together
<1>8. Timing
  BY Zenon DEF Timing, TimersOwned, CaddyReleasedOnce
<1> QED BY <1>2, <1>3, <1>4, <1>5, <1>6, <1>7, <1>8, Zenon DEF IInv

\* A member joins the tracker of its next operation; the last one also hands it
\* to the host, or to the progress thread.
LEMMA JoinStep ==
    ASSUME IsFiniteSet(Members), IInv, NEW p \in Members, NEW op \in Ops,
           Idle(p), NextOp(p) = op,
           trk' = [trk EXCEPT ![op] = Extended(op, p)],
           call' = [call EXCEPT ![p] = op],
           grp' = (op = "construct" \/ grp),
           op = "destruct" => grp,
           armed' = armed \cup Arm(op, p) \/ armed' = armed \ {op},
           wild' = wild \cup Rearmed(op, p),
           UNCHANGED <<env, round, answers, gone>>,
           \/ UNCHANGED <<host, cbs>>
           \/ /\ Cardinality(Extended(op, p).cbs) = Extended(op, p).nlocal
              /\ \/ host' = host \cup {op} /\ cbs' = cbs
                 \/ host' = host /\ cbs' = cbs \cup {[op |-> op, status |-> "success"]}
    PROVE  IInv'
<1> DEFINE t == Extended(op, p)
<1>0. /\ t \in [nlocal : Int, cbs : SUBSET Members]
      /\ t # None
      /\ t.cbs = trk[op].cbs \cup {p}
      /\ gone = {} => t.nlocal = Cardinality(Members)
      /\ gone = {} /\ Cardinality(t.cbs) = t.nlocal => t.cbs = Members
  BY ExtendedFacts, Zenon DEF IInv
<1>1. trk' = [trk EXCEPT ![op] = t] /\ (Cardinality(t.cbs) = t.nlocal \/ UNCHANGED <<host, cbs>>)
  BY Zenon
<1>2. trk'[op] = t /\ \A o \in Ops : o # op => trk'[o] = trk[o]
  BY <1>1, Zenon DEF IInv, Shapes
<1> HIDE DEF t
<1>3. call'[p] = op /\ \A q \in Members : q # p => call'[q] = call[q]
  BY Zenon DEF IInv, TypeOK
<1>4. TypeOK'
  <2>1. armed' \subseteq Ops /\ wild' \subseteq Misuses
    BY Zenon DEF IInv, TypeOK, Arm, Rearmed, Misuses
  <2> QED BY <2>1, Zenon DEF IInv, TypeOK, Ops
<1>5. Shapes'
  <2>1. trk' \in [Ops -> [nlocal : Int, cbs : SUBSET Members]]
    BY <1>0, <1>1, Zenon DEF IInv, Shapes
  <2>2. [op |-> op, status |-> "success"] \in [op : Ops, status : {"success", "error"}]
    BY Zenon
  <2> QED BY <2>1, <2>2, Zenon DEF IInv, Shapes
<1>6. Joined'
  <2>1. \A q \in Members : NextOp(q)' = NextOp(q)
    BY Zenon DEF NextOp
  <2>2. \A q \in Members : call'[q] # "none" => call'[q] = NextOp(q)' /\ round'[q] < 3
    BY <1>3, <2>1, Zenon DEF IInv, Joined, Idle
  <2>3. ASSUME NEW o \in Ops, NEW q \in trk'[o].cbs
        PROVE  q \in Members /\ call'[q] = o /\ q \notin gone'
    <3>1. CASE q = p
      <4>1. o = op
        BY <3>1, <1>2, <2>3, Zenon DEF IInv, Joined, Idle, Ops
      <4> QED BY <3>1, <4>1, <1>3, Zenon DEF Idle
    <3>2. CASE q # p
      <4>1. q \in trk[o].cbs
        BY <3>2, <1>0, <1>2, <2>3
      <4> QED BY <3>2, <4>1, <1>3, Zenon DEF IInv, Joined
    <3> QED BY <3>1, <3>2, Zenon
  <2> QED BY <2>2, <2>3, Zenon DEF Joined
<1>7. WaitersTracked'
  <2>1. ASSUME NEW q \in Members, call'[q] # "none", ~MayRefuse
        PROVE  trk'[call'[q]] # None /\ q \in trk'[call'[q]].cbs
    <3>1. CASE q = p
      BY <3>1, <1>0, <1>2, <1>3, Zenon
    <3>2. CASE q # p
      <4>1. trk[call[q]] # None /\ q \in trk[call[q]].cbs /\ call'[q] = call[q] /\ call[q] \in Ops
        BY <2>1, <3>2, <1>3, Zenon DEF IInv, WaitersTracked, TypeOK
      <4> QED BY <4>1, <1>0, <1>2, Zenon
    <3> QED BY <3>1, <3>2, Zenon
  <2>2. MayRefuse' = MayRefuse
    BY Zenon DEF MayRefuse
  <2> QED BY <2>1, <2>2, Zenon DEF WaitersTracked
<1>8. AllCalled'
  <2>0. SUFFICES ASSUME gone = {}
                 PROVE  /\ \A o \in Ops : trk'[o] # None => trk'[o].nlocal = Cardinality(Members)
                        /\ \A o \in Ops : Busy(o)' => trk'[o] # None /\ trk'[o].cbs = Members
                        /\ \A r \in cbs' : r.op \notin host'
                        /\ \A r, s \in cbs' : r.op = s.op => r = s
                        /\ "result" \notin wild'
    BY Zenon DEF AllCalled
  <2>1. host = {} /\ cbs = {}
    <3>1. ASSUME NEW o \in Ops, Busy(o) PROVE FALSE
      <4>1. p \in trk[o].cbs
        BY <2>0, <3>1, Zenon DEF IInv, AllCalled
      <4> QED BY <4>1, Zenon DEF IInv, Joined, Idle, Ops
    <3> QED BY <3>1, Zenon DEF Busy, IInv, Shapes, TypeOK
  <2>2. \A o \in Ops : trk'[o] # None => trk'[o].nlocal = Cardinality(Members)
    BY <2>0, <1>0, <1>2, Zenon DEF IInv, AllCalled
  <2>3. ASSUME NEW o \in Ops, Busy(o)' PROVE trk'[o] # None /\ trk'[o].cbs = Members
    <3>1. o = op /\ Cardinality(t.cbs) = t.nlocal
      BY <2>1, <2>3, <1>1 DEF Busy
    <3> QED BY <3>1, <1>0, <1>2, <2>0, Zenon
  <2>4. "result" \notin wild'
    <3>1. "result" \notin wild
      BY <2>0, Zenon DEF IInv, AllCalled
    <3> QED BY <3>1 DEF Rearmed
  <2> QED BY <2>0, <2>1, <2>2, <2>3, <2>4, Zenon DEF IInv, AllCalled
<1>9. Together'
  <2>0. MayRefuse' = MayRefuse
    BY Zenon DEF MayRefuse
  <2>1. SUFFICES ASSUME ~MayRefuse, gone = {}
                 PROVE  /\ \A q, s \in Members : round'[q] = round'[s] /\ answers'[q] = answers'[s]
                        /\ \A q \in Members : round'[q] % 2 = 1 \/ call'[q] = "construct" => grp'
    BY <2>0, Zenon DEF Together
  <2>2. \A q \in Members : round'[q] % 2 = 1 \/ call'[q] = "construct" => grp'
    BY <2>1, <1>3, Zenon DEF IInv, Together, Ops
  <2> QED BY <2>1, <2>2, Zenon DEF IInv, Together
<1>10. Timing'
  <2>1. \A o \in armed' : (o \in armed \/ (o = op /\ p \in env.timed)) /\ o \in Ops
    BY <1>4, Zenon DEF Arm, Timed, TypeOK
  <2>2. \A o \in armed' : trk'[o] # None
    BY <1>0, <1>2, <2>1, Zenon DEF IInv, Timing, TimersOwned
  <2>3. \A o \in armed' : gone # {} \/ \E q \in trk'[o].cbs : q \in env.timed
    <3>1. ASSUME NEW o \in armed', gone = {} PROVE \E q \in trk'[o].cbs : q \in env.timed
      <4>1. CASE o \in armed
        BY <3>1, <4>1, <1>0, <1>2, <2>1, Zenon DEF IInv, Timing
      <4>2. CASE o = op /\ p \in env.timed
        BY <4>2, <1>0, <1>2, Zenon
      <4> QED BY <3>1, <4>1, <4>2, <2>1, Zenon
    <3> QED BY <3>1, Zenon
  <2>4. ASSUME "rearmed" \in wild', "rearmed" \notin wild
        PROVE  gone # {} \/ \E x, y \in env.timed : x # y
    <3>1. p \in env.timed /\ op \in armed
      BY <2>4, Zenon DEF Rearmed, Timed
    <3>2. gone # {} \/ \E q \in trk[op].cbs : q \in env.timed
      BY <3>1, Zenon DEF IInv, Timing
    <3>3. \A q \in trk[op].cbs : q # p
      BY Zenon DEF IInv, Joined, Idle, Ops
    <3> QED BY <3>1, <3>2, <3>3, Zenon
  <2>5. /\ "stray" \in wild' => "stray" \in wild
        /\ "fired" \in wild' => "fired" \in wild
        /\ "caddy" \in wild' => "caddy" \in wild
    BY DEF Rearmed
  <2>6. TimersOwned'
    BY <2>2, <2>4, <2>5, Zenon DEF IInv, Timing, TimersOwned
  <2>7. CaddyReleasedOnce'
    BY <2>5, Zenon DEF IInv, Timing, CaddyReleasedOnce, MayRefuse
  <2>8. armed' # {} => env'.timed # {}
    BY <2>1, Zenon DEF IInv, Timing
  <2> QED BY <2>3, <2>6, <2>7, <2>8, Zenon DEF Timing
<1> QED BY <1>4, <1>5, <1>6, <1>7, <1>8, <1>9, <1>10, Zenon DEF IInv


\* A construct that finds no host leaves the timer of its tracker running.
Left(op, p) == IF ~env.hosted /\ op \in armed \cup Arm(op, p) THEN {"stray"} ELSE {}

\* A member is answered at once: the host refuses, or there is no group.  The
\* tracker, if it was there, is released with its other callers.
LEMMA RefuseStep ==
    ASSUME IInv, NEW p \in Members, NEW op \in Ops, NEW status,
           Idle(p), NextOp(p) = op,
           Answer({p}, status),
           \/ /\ trk' = [trk EXCEPT ![op] = None] /\ MayRefuse
              /\ armed' = armed \ {op}
              /\ wild' = wild \cup Rearmed(op, p) \cup {"caddy"} \cup Left(op, p)
           \/ trk' = trk /\ (MayRefuse \/ gone # {}) /\ UNCHANGED <<armed, wild>>,
           grp' \in BOOLEAN,
           UNCHANGED <<env, call, host, cbs, gone>>
    PROVE  IInv'
<1>0. MayRefuse' = MayRefuse
  BY Zenon DEF MayRefuse
<1>1. /\ round' \in [Members -> 0 .. 3]
      /\ \A q \in Members : q # p => round'[q] = round[q]
  BY DEF IInv, TypeOK, Answer, Idle
<1>2. /\ trk' \in [Ops -> [nlocal : Int, cbs : SUBSET Members]]
      /\ \A o \in Ops : trk'[o] = trk[o] \/ (o = op /\ trk'[o] = None)
  <2>1. None \in [nlocal : Int, cbs : SUBSET Members]
    BY DEF None
  <2>2. trk \in [Ops -> [nlocal : Int, cbs : SUBSET Members]]
    BY Zenon DEF IInv, Shapes
  <2>3. CASE trk' = trk
    BY <2>2, <2>3, Zenon
  <2>4. CASE trk' = [trk EXCEPT ![op] = None]
    BY <2>1, <2>2, <2>4, Zenon
  <2> QED BY <2>3, <2>4, Zenon
<1>3. TypeOK'
  <2>1. armed' \subseteq Ops /\ wild' \subseteq Misuses
    BY Zenon DEF IInv, TypeOK, Left, Rearmed, Misuses
  <2> QED BY <1>1, <2>1, Zenon DEF IInv, TypeOK
<1>4. Shapes'
  BY <1>2, Zenon DEF IInv, Shapes
<1>5. Joined'
  <2>1. \A q \in Members : q # p => NextOp(q)' = NextOp(q)
    BY <1>1, Zenon DEF NextOp
  <2>2. \A q \in Members : call'[q] # "none" => call'[q] = NextOp(q)' /\ round'[q] < 3
    BY <1>1, <2>1, Zenon DEF IInv, Joined, Idle
  <2>3. \A o \in Ops : \A q \in trk'[o].cbs : q \in Members /\ call'[q] = o /\ q \notin gone'
    BY <1>2 DEF IInv, Joined, None
  <2> QED BY <2>2, <2>3, Zenon DEF Joined
<1>6. WaitersTracked' /\ Together'
  BY <1>0, Zenon DEF IInv, WaitersTracked, Together
<1>7. AllCalled'
  <2>0. SUFFICES ASSUME gone = {}
                 PROVE  /\ \A o \in Ops : trk'[o] # None => trk'[o].nlocal = Cardinality(Members)
                        /\ \A o \in Ops : Busy(o)' => trk'[o] # None /\ trk'[o].cbs = Members
    <3>1. "result" \in wild' => "result" \in wild
      BY DEF Left, Rearmed
    <3> QED BY <3>1, Zenon DEF AllCalled, IInv
  <2>1. ASSUME NEW o \in Ops, Busy(o) PROVE FALSE
    <3>1. p \in trk[o].cbs
      BY <2>0, <2>1, Zenon DEF IInv, AllCalled
    <3> QED BY <3>1, Zenon DEF IInv, Joined, Idle, Ops
  <2>2. \A o \in Ops : Busy(o)' = Busy(o)
    BY Zenon DEF Busy
  <2> QED BY <1>2, <2>0, <2>1, <2>2, Zenon DEF IInv, AllCalled
<1>8. Timing'
  <2>1. CASE trk' = trk /\ UNCHANGED <<armed, wild>>
    BY <1>0, <2>1, Zenon DEF IInv, Timing, TimersOwned, CaddyReleasedOnce
  <2>2. CASE /\ trk' = [trk EXCEPT ![op] = None] /\ MayRefuse
             /\ armed' = armed \ {op}
             /\ wild' = wild \cup Rearmed(op, p) \cup {"caddy"} \cup Left(op, p)
    <3>1. \A o \in armed' : o \in armed /\ o # op /\ o \in Ops
      BY <1>3, <2>2, Zenon DEF TypeOK
    <3>2. \A o \in armed' : trk'[o] = trk[o]
      BY <1>2, <3>1, Zenon
    <3>3. \A o \in armed' : trk'[o] # None /\ (gone # {} \/ \E q \in trk'[o].cbs : q \in env.timed)
      BY <3>1, <3>2, Zenon DEF IInv, Timing, TimersOwned
    <3>4. ASSUME "rearmed" \in wild', "rearmed" \notin wild
          PROVE  gone # {} \/ \E x, y \in env.timed : x # y
      <4>1. p \in env.timed /\ op \in armed
        BY <2>2, <3>4 DEF Rearmed, Timed, Left
      <4>2. gone # {} \/ \E q \in trk[op].cbs : q \in env.timed
        BY <4>1, Zenon DEF IInv, Timing
      <4>3. \A q \in trk[op].cbs : q # p
        BY Zenon DEF IInv, Joined, Idle, Ops
      <4> QED BY <4>1, <4>2, <4>3, Zenon
    <3>5. "stray" \in wild' => "stray" \in wild \/ (~env.hosted /\ env.timed # {})
      <4>1. "stray" \in wild' => "stray" \in wild \/ (~env.hosted /\ op \in armed \cup Arm(op, p))
        BY <2>2 DEF Rearmed, Left
      <4>2. op \in armed \cup Arm(op, p) => env.timed # {}
        BY Zenon DEF Arm, Timed, IInv, Timing
      <4> QED BY <4>1, <4>2, Zenon
    <3>6. "fired" \in wild' => "fired" \in wild
      BY <2>2 DEF Rearmed, Left
    <3>7. TimersOwned'
      BY <3>3, <3>4, <3>5, <3>6, Zenon DEF IInv, Timing, TimersOwned
    <3>8. CaddyReleasedOnce'
      BY <1>0, <2>2, Zenon DEF CaddyReleasedOnce
    <3>9. armed' # {} => env'.timed # {}
      BY <3>1, Zenon DEF IInv, Timing
    <3> QED BY <3>3, <3>7, <3>8, <3>9, Zenon DEF Timing
  <2> QED BY <2>1, <2>2, Zenon
<1> QED BY <1>3, <1>4, <1>5, <1>6, <1>7, <1>8, Zenon DEF IInv

\* The handlers of a call: the caller joins, or is refused.
LEMMA ContributeStep ==
    ASSUME IsFiniteSet(Members), IInv, NEW p \in Members, NEW op \in Ops, NEW v,
           Idle(p), NextOp(p) = op,
           Contribute(op, p, v),
           v \in {"success", "succeeded"} \/ MayRefuse,
           grp' = (op = "construct" \/ grp),
           op = "destruct" => grp,
           UNCHANGED <<env, gone>>
    PROVE  IInv'
<1> DEFINE t == Extended(op, p)
<1>1. \/ /\ trk' = [trk EXCEPT ![op] = t] /\ call' = [call EXCEPT ![p] = op]
         /\ armed' = armed \cup Arm(op, p) \/ armed' = armed \ {op}
         /\ wild' = wild \cup Rearmed(op, p)
         /\ UNCHANGED <<round, answers>>
         /\ \/ UNCHANGED <<host, cbs>>
            \/ /\ Cardinality(t.cbs) = t.nlocal
               /\ \/ host' = host \cup {op} /\ cbs' = cbs
                  \/ host' = host /\ cbs' = cbs \cup {[op |-> op, status |-> "success"]}
      \/ /\ trk' = [trk EXCEPT ![op] = None] /\ Answer({p}, v)
         /\ v \notin {"success", "succeeded"}
         /\ armed' = armed \ {op}
         /\ wild' = wild \cup Rearmed(op, p) \cup {"caddy"} \cup Left(op, p)
         /\ UNCHANGED <<call, host, cbs>>
  BY Zenon DEF Contribute, Upcall, Done, Joins, Extended, Left
<1>2. grp' \in BOOLEAN
  BY Zenon
<1> HIDE DEF t
<1>3. CASE trk' = [trk EXCEPT ![op] = t] /\ call' = [call EXCEPT ![p] = op] /\ UNCHANGED <<round, answers>>
           /\ (armed' = armed \cup Arm(op, p) \/ armed' = armed \ {op})
           /\ wild' = wild \cup Rearmed(op, p)
           /\ (\/ UNCHANGED <<host, cbs>>
               \/ /\ Cardinality(t.cbs) = t.nlocal
                  /\ \/ host' = host \cup {op} /\ cbs' = cbs
                     \/ host' = host /\ cbs' = cbs \cup {[op |-> op, status |-> "success"]})
  BY <1>3, JoinStep, Zenon DEF t
<1>4. CASE trk' = [trk EXCEPT ![op] = None] /\ Answer({p}, v) /\ v \notin {"success", "succeeded"}
           /\ armed' = armed \ {op}
           /\ wild' = wild \cup Rearmed(op, p) \cup {"caddy"} \cup Left(op, p)
           /\ UNCHANGED <<call, host, cbs>>
  BY <1>2, <1>4, RefuseStep, Zenon
<1> QED BY <1>1, <1>3, <1>4, Zenon

\* PMIx_Group_construct and PMIx_Group_destruct.
LEMMA CallStep ==
    ASSUME IsFiniteSet(Members), IInv, NEW p \in Members, NEW v \in env.verdicts,
           GrpConstruct(p, v) \/ GrpDestruct(p, v)
    PROVE  IInv'
<1>0. v \in {"success", "succeeded"} \/ MayRefuse
  BY Zenon DEF MayRefuse
<1>1. CASE GrpConstruct(p, v)
  <2> DEFINE w == IF env.hosted THEN v ELSE "not_supported"
  <2>1. /\ Contribute("construct", p, w) /\ grp' = TRUE
        /\ Idle(p) /\ NextOp(p) = "construct" /\ UNCHANGED <<env, gone>>
    BY <1>1, Zenon DEF GrpConstruct
  <2>2. w \in {"success", "succeeded"} \/ MayRefuse
    BY <1>0, Zenon DEF MayRefuse
  <2>3. "construct" \in Ops /\ grp' = ("construct" = "construct" \/ grp)
    BY <2>1, Zenon DEF Ops
  <2> HIDE DEF w
  <2> QED BY <2>1, <2>2, <2>3, ContributeStep, Zenon
<1>2. CASE GrpDestruct(p, v)
  <2>0. /\ Idle(p) /\ NextOp(p) = "destruct" /\ UNCHANGED <<env, grp, gone>>
        /\ "destruct" \in Ops
    BY <1>2, Zenon DEF GrpDestruct, Ops
  <2>1. CASE ~env.hosted \/ ~grp
    <3> DEFINE w == IF env.hosted THEN "not_found" ELSE "not_supported"
    <3>1. Answer({p}, w) /\ UNCHANGED <<call, trk, host, cbs, armed, wild>>
      BY <1>2, <2>1, Zenon DEF GrpDestruct
    <3> HIDE DEF w
    <3>2. grp' \in BOOLEAN /\ trk' = trk
      BY <2>0, <3>1, Zenon DEF IInv, TypeOK
    <3>3. MayRefuse \/ gone # {}
      <4>1. round[p] \in 0 .. 3 /\ round[p] % 2 # 0
        BY <2>0, Zenon DEF NextOp, IInv, TypeOK
      <4>2. round[p] % 2 = 1
        BY <4>1
      <4> QED BY <2>1, <4>2, Zenon DEF IInv, Together, MayRefuse
    <3> QED BY <2>0, <3>1, <3>2, <3>3, RefuseStep, Zenon
  <2>2. CASE env.hosted /\ grp
    <3>1. Contribute("destruct", p, v)
      BY <1>2, <2>2, Zenon DEF GrpDestruct
    <3>2. grp' = ("destruct" = "construct" \/ grp)
      BY <2>0, <2>2, Zenon DEF IInv, TypeOK
    <3> QED BY <1>0, <2>0, <2>2, <3>1, <3>2, ContributeStep, Zenon
  <2> QED BY <2>1, <2>2, Zenon
<1> QED BY <1>1, <1>2, Zenon


\* grpcbfunc: the host is done with an operation.
LEMMA HostStep ==
    ASSUME IInv, NEW op \in Ops, NEW s \in {"success", "error"}, HostCallback(op, s)
    PROVE  IInv'
<1> DEFINE new == [op |-> op, status |-> s]
<1>0. /\ op \in host /\ host' = host \ {op} /\ cbs' = cbs \cup {new}
      /\ UNCHANGED <<env, call, round, answers, grp, trk, gone, armed, wild>>
  BY Zenon DEF HostCallback
<1>1. new \in [op : Ops, status : {"success", "error"}] /\ new.op = op
  BY Zenon
<1> HIDE DEF new
<1>2. TypeOK' /\ Shapes'
  BY <1>0, <1>1, Zenon DEF IInv, TypeOK, Shapes
<1>3. Joined' /\ WaitersTracked' /\ Together' /\ Timing'
  BY <1>0, Zenon DEF IInv, Joined, WaitersTracked, Together, NextOp, MayRefuse, Timing, TimersOwned,
              CaddyReleasedOnce
<1>4. AllCalled'
  <2>0. SUFFICES ASSUME gone = {}
                 PROVE  /\ \A o \in Ops : Busy(o)' => trk[o] # None /\ trk[o].cbs = Members
                        /\ \A r \in cbs' : r.op \notin host'
                        /\ \A r, z \in cbs' : r.op = z.op => r = z
    BY <1>0, Zenon DEF AllCalled, IInv
  <2>1. \A o \in Ops : Busy(o)' => Busy(o)
    BY <1>0, <1>1, Zenon DEF Busy
  <2>2. \A r \in cbs : r.op \notin host
    BY <2>0, Zenon DEF IInv, AllCalled
  <2>3. \A r, z \in cbs' : r.op = z.op => r = z
    BY <2>0, <2>2, <1>0, <1>1, Zenon DEF IInv, AllCalled
  <2> QED BY <2>0, <2>1, <2>2, <2>3, <1>0, <1>1, Zenon DEF IInv, AllCalled
<1> QED BY <1>2, <1>3, <1>4, Zenon DEF IInv

\* _grpcbfunc: the callers on the tracker are answered.
LEMMA ResultStep ==
    ASSUME IInv, NEW r \in cbs, _grpcbfunc(r)
    PROVE  IInv'
<1> DEFINE op == r.op
           S == trk[op].cbs
<1>0. op \in Ops /\ r \in cbs /\ cbs' = cbs \ {r} /\ UNCHANGED <<env, host, gone>>
      /\ armed' = armed \ {op} /\ grp' = (grp /\ op = "construct")
  BY Zenon DEF IInv, Shapes, _grpcbfunc
<1>m. MayRefuse' = MayRefuse
  BY <1>0, Zenon DEF MayRefuse
<1>1. CASE trk[op] = None
  <2>1. wild' = wild \cup {"result"} /\ UNCHANGED <<call, round, answers, trk>>
    BY <1>1, Zenon DEF _grpcbfunc
  <2>2. TypeOK' /\ Shapes'
    BY <1>0, <2>1, Zenon DEF IInv, TypeOK, Shapes, Misuses
  <2>3. Joined' /\ WaitersTracked'
    BY <1>0, <1>m, <2>1, Zenon DEF IInv, Joined, WaitersTracked, NextOp
  <2>4. gone # {}
    BY <1>0, <1>1, Zenon DEF IInv, AllCalled, Busy
  <2>5. AllCalled' /\ Together'
    BY <1>0, <2>4, Zenon DEF AllCalled, Together
  <2>6. Timing'
    BY <1>0, <1>m, <2>1, Zenon DEF IInv, Timing, TimersOwned, CaddyReleasedOnce
  <2> QED BY <2>2, <2>3, <2>5, <2>6, Zenon DEF IInv
<1>2. CASE trk[op] # None
  <2>0. /\ Answer(S, r.status)
        /\ call' = [p \in Members |-> IF p \in S THEN "none" ELSE call[p]]
        /\ trk' = [trk EXCEPT ![op] = None]
        /\ grp' = (grp /\ op = "construct")
        /\ wild' = wild
    BY <1>0, <1>2, Zenon DEF _grpcbfunc
  <2>1. S \subseteq Members /\ \A q \in S : call[q] = op /\ call[q] = NextOp(q) /\ round[q] < 3
    BY <1>0, Zenon DEF IInv, Shapes, Joined, Ops
  <2>2. /\ trk' \in [Ops -> [nlocal : Int, cbs : SUBSET Members]]
        /\ trk'[op] = None
        /\ \A o \in Ops : o # op => trk'[o] = trk[o]
    BY <1>0, <2>0 DEF IInv, Shapes, None
  <2> HIDE DEF op, S
  <2>3. /\ round' \in [Members -> 0 .. 3]
        /\ \A q \in Members : round'[q] = IF q \in S THEN round[q] + 1 ELSE round[q]
    BY <2>0, <2>1 DEF IInv, TypeOK, Answer
  <2>4. TypeOK'
    BY <1>0, <2>0, <2>3, Zenon DEF IInv, TypeOK
  <2>5. Shapes'
    BY <1>0, <2>2, Zenon DEF IInv, Shapes
  <2>6. Joined'
    <3>1. ASSUME NEW q \in Members, call'[q] # "none"
          PROVE  call'[q] = NextOp(q)' /\ round'[q] < 3
      <4>1. q \notin S /\ call'[q] = call[q] /\ round'[q] = round[q]
        BY <2>0, <2>3, <3>1, Zenon
      <4> QED BY <3>1, <4>1, Zenon DEF IInv, Joined, NextOp
    <3>2. ASSUME NEW o \in Ops, NEW q \in trk'[o].cbs
          PROVE  q \in Members /\ call'[q] = o /\ q \notin gone'
      <4>1. o # op /\ q \in trk[o].cbs
        BY <2>2, <3>2 DEF None
      <4>2. q \in Members /\ call[q] = o /\ q \notin gone
        BY <4>1, Zenon DEF IInv, Joined
      <4>3. q \notin S
        BY <2>1, <4>1, <4>2, Zenon
      <4> QED BY <1>0, <2>0, <4>2, <4>3, Zenon
    <3> QED BY <3>1, <3>2, Zenon DEF Joined
  <2>7. WaitersTracked'
    <3>1. ASSUME NEW q \in Members, call'[q] # "none", ~MayRefuse
          PROVE  trk'[call'[q]] # None /\ q \in trk'[call'[q]].cbs
      <4>1. q \notin S /\ call'[q] = call[q]
        BY <2>0, <3>1, Zenon
      <4>2. trk[call[q]] # None /\ q \in trk[call[q]].cbs /\ call[q] \in Ops
        BY <3>1, <4>1, Zenon DEF IInv, WaitersTracked, TypeOK
      <4>3. call[q] # op
        BY <4>1, <4>2, Zenon DEF S
      <4> QED BY <2>2, <4>1, <4>2, <4>3, Zenon
    <3> QED BY <1>m, <3>1, Zenon DEF WaitersTracked
  <2>8. AllCalled'
    <3>0. SUFFICES ASSUME gone = {}
                   PROVE  /\ \A o \in Ops : trk'[o] # None => trk'[o].nlocal = Cardinality(Members)
                          /\ \A o \in Ops : Busy(o)' => trk'[o] # None /\ trk'[o].cbs = Members
      BY <1>0, <2>0, Zenon DEF AllCalled, IInv
    <3>1. ASSUME NEW o \in Ops, Busy(o)' PROVE Busy(o) /\ o # op
      BY <1>0, <3>0, <3>1, Zenon DEF Busy, IInv, AllCalled, op
    <3> QED BY <2>2, <3>0, <3>1, Zenon DEF IInv, AllCalled
  <2>9. Together'
    <3>0. SUFFICES ASSUME ~MayRefuse, gone = {}
                   PROVE  /\ \A q, z \in Members : round'[q] = round'[z] /\ answers'[q] = answers'[z]
                          /\ \A q \in Members : round'[q] % 2 = 1 \/ call'[q] = "construct" => grp'
      BY <1>0, <1>m, Zenon DEF Together
    <3>1. S = Members
      BY <1>0, <3>0, Zenon DEF IInv, AllCalled, Busy, op, S
    <3>2. \A q, z \in Members : round[q] = round[z] /\ answers[q] = answers[z]
      BY <3>0, Zenon DEF IInv, Together
    <3>3. \A q \in Members : answers'[q] = [answers[q] EXCEPT ![round[q] + 1] = r.status]
      BY <2>0, <3>1, Zenon DEF Answer
    <3>4. \A q, z \in Members : round'[q] = round'[z] /\ answers'[q] = answers'[z]
      <4>1. SUFFICES ASSUME NEW q \in Members, NEW z \in Members
                     PROVE  round'[q] = round'[z] /\ answers'[q] = answers'[z]
        BY Zenon
      <4>2. round'[q] = round[q] + 1 /\ round'[z] = round[z] + 1
        BY <2>3, <3>1
      <4>3. round[q] = round[z] /\ answers[q] = answers[z]
        BY <3>2, Zenon
      <4>4. /\ answers'[q] = [answers[q] EXCEPT ![round[q] + 1] = r.status]
            /\ answers'[z] = [answers[z] EXCEPT ![round[z] + 1] = r.status]
        BY <3>3, Zenon
      <4> QED BY <4>2, <4>3, <4>4, Zenon
    <3>5. ASSUME NEW q \in Members, round'[q] % 2 = 1 PROVE grp'
      <4>1. round[q] \in 0 .. 3 /\ round'[q] = round[q] + 1
        BY <2>3, <3>1, Zenon DEF IInv, TypeOK
      <4>2. round[q] % 2 = 0
        BY <3>5, <4>1
      <4>3. call[q] = "construct" /\ op = "construct"
        BY <2>1, <3>1, <4>2, Zenon DEF NextOp
      <4> QED BY <2>0, <3>0, <4>3, Zenon DEF IInv, Together
    <3>6. \A q \in Members : call'[q] = "none"
      BY <2>0, <3>1, Zenon
    <3> QED BY <3>4, <3>5, <3>6, Zenon
  <2>10. Timing'
    <3>1. \A o \in armed' : o \in armed /\ o \in Ops /\ trk'[o] = trk[o]
      BY <1>0, <2>2, Zenon DEF IInv, TypeOK, op
    <3> QED BY <1>0, <1>m, <2>0, <3>1, Zenon DEF IInv, Timing, TimersOwned, CaddyReleasedOnce
  <2> QED BY <2>4, <2>5, <2>6, <2>7, <2>8, <2>9, <2>10, Zenon DEF IInv
<1> QED BY <1>1, <1>2, Zenon

\* grp_timeout: nothing but the misuse is new.
LEMMA TimeoutStep ==
    ASSUME IInv, grp_timeout
    PROVE  IInv'
<1>0. /\ armed # {} \/ "stray" \in wild
      /\ wild' = wild \cup {"fired"}
      /\ UNCHANGED <<env, call, round, answers, grp, trk, host, cbs, gone, armed>>
  BY Zenon DEF grp_timeout
<1>1. TypeOK' /\ Shapes'
  BY <1>0, Zenon DEF IInv, TypeOK, Shapes, Misuses
<1>2. Joined' /\ WaitersTracked' /\ Together'
  BY <1>0, Zenon DEF IInv, Joined, WaitersTracked, Together, NextOp, MayRefuse
<1>3. \A w \in wild' : w \in wild \/ w = "fired"
  BY <1>0, Zenon
<1>4. AllCalled'
  BY <1>0, <1>3, Zenon DEF IInv, AllCalled, Busy
<1>5. env.timed # {}
  BY <1>0, Zenon DEF IInv, Timing, TimersOwned
<1>6. Timing'
  BY <1>0, <1>3, <1>5, Zenon DEF IInv, Timing, TimersOwned, CaddyReleasedOnce, MayRefuse
<1> QED BY <1>1, <1>2, <1>4, <1>6, Zenon DEF IInv

\* pmix_ptl_base_lost_connection.
LEMMA LostStep ==
    ASSUME IsFiniteSet(Members), IInv, NEW p \in Members, LostConnection(p)
    PROVE  IInv'
<1> DEFINE last == {op \in Ops : trk[op].cbs = {p}}
<1>0. /\ gone' = gone \cup {p} /\ call' = [call EXCEPT ![p] = "none"]
      /\ armed' = armed \ last
      /\ wild' = wild \cup (IF armed \cap last # {} THEN {"rearmed"} ELSE {})
      /\ UNCHANGED <<env, round, answers, grp, host, cbs>>
  BY Zenon DEF LostConnection
<1>1. call'[p] = "none" /\ \A q \in Members : q # p => call'[q] = call[q]
  BY <1>0, Zenon DEF IInv, TypeOK
<1>2. /\ trk' \in [Ops -> [nlocal : Int, cbs : SUBSET Members]]
      /\ \A o \in Ops : trk'[o].cbs = trk[o].cbs \ {p}
  BY DEF LostConnection, IInv, Shapes, None
<1>3. TypeOK' /\ Shapes'
  BY <1>0, <1>2, Zenon DEF IInv, TypeOK, Shapes, Misuses
<1>4. Joined'
  <2>1. \A q \in Members : NextOp(q)' = NextOp(q)
    BY <1>0, Zenon DEF NextOp
  <2> QED BY <1>0, <1>1, <1>2, <2>1 DEF IInv, Joined
<1>5. WaitersTracked'
  <2>1. ASSUME NEW q \in Members, call'[q] # "none", ~MayRefuse
        PROVE  trk'[call'[q]] # None /\ q \in trk'[call'[q]].cbs
    <3>1. q # p /\ call'[q] = call[q]
      BY <1>1, <2>1, Zenon
    <3>2. q \in trk[call[q]].cbs /\ call[q] \in Ops
      BY <2>1, <3>1, Zenon DEF IInv, WaitersTracked, TypeOK
    <3>3. q \in trk'[call[q]].cbs
      BY <1>2, <3>1, <3>2, Zenon
    <3> QED BY <3>1, <3>3 DEF None
  <2> QED BY <1>0, <2>1, Zenon DEF WaitersTracked, MayRefuse
<1>6. AllCalled' /\ Together'
  BY <1>0, Zenon DEF AllCalled, Together
<1>7. Timing'
  <2>1. \A o \in armed' : o \in armed /\ o \in Ops /\ trk[o].cbs # {p}
    BY <1>0, Zenon DEF IInv, TypeOK
  <2>2. ASSUME NEW o \in armed' PROVE trk'[o] # None
    <3>1. trk[o] # None
      BY <2>1, Zenon DEF IInv, Timing, TimersOwned
    <3>2. CASE p \notin trk[o].cbs
      BY <2>1, <3>1, <3>2, Zenon DEF LostConnection
    <3>3. CASE p \in trk[o].cbs
      <4>1. trk'[o].cbs # {}
        BY <1>2, <2>1, <3>3
      <4> QED BY <4>1 DEF None
    <3> QED BY <3>2, <3>3, Zenon
  <2>3. gone' # {}
    BY <1>0, Zenon
  <2>4. \A w \in wild' : w \in wild \/ w = "rearmed"
    BY <1>0, Zenon
  <2>5. /\ "stray" \in wild' => "stray" \in wild
        /\ "fired" \in wild' => "fired" \in wild
        /\ "caddy" \in wild' => "caddy" \in wild
    BY <2>4
  <2>6. TimersOwned' /\ CaddyReleasedOnce'
    BY <1>0, <2>2, <2>3, <2>5, Zenon DEF IInv, Timing, TimersOwned, CaddyReleasedOnce, MayRefuse
  <2> QED BY <1>0, <2>1, <2>3, <2>6, Zenon DEF IInv, Timing
<1> QED BY <1>3, <1>4, <1>5, <1>6, <1>7, Zenon DEF IInv

\* Every step keeps the invariant.
LEMMA GroupsNext ==
    ASSUME IsFiniteSet(Members), IInv, [Next]_vars
    PROVE  IInv'
<1>1. ASSUME NEW p \in Members, NEW v \in env.verdicts, GrpConstruct(p, v) \/ GrpDestruct(p, v)
      PROVE  IInv'
  BY <1>1, CallStep, Zenon
<1>2. ASSUME NEW p \in Members, LostConnection(p) PROVE IInv'
  BY <1>2, LostStep, Zenon
<1>3. ASSUME NEW op \in Ops, NEW s \in {"success", "error"}, HostCallback(op, s) PROVE IInv'
  BY <1>3, HostStep, Zenon
<1>4. ASSUME NEW r \in cbs, _grpcbfunc(r) PROVE IInv'
  BY <1>4, ResultStep, Zenon
<1>6. CASE grp_timeout
  BY <1>6, TimeoutStep, Zenon
<1>5. CASE UNCHANGED vars
  <2>0. UNCHANGED <<env, call, round, answers, grp, trk, host, cbs, gone, armed, wild>>
    BY <1>5, Zenon DEF vars
  <2>1. TypeOK' /\ Shapes' /\ Joined' /\ WaitersTracked'
    BY <2>0, Zenon DEF IInv, TypeOK, Shapes, Joined, WaitersTracked, NextOp, MayRefuse
  <2>2. AllCalled' /\ Together'
    BY <2>0, Zenon DEF IInv, AllCalled, Together, MayRefuse, Busy
  <2>3. Timing'
    BY <2>0, Zenon DEF IInv, Timing, TimersOwned, CaddyReleasedOnce, MayRefuse
  <2> QED BY <2>1, <2>2, <2>3, Zenon DEF IInv
<1> QED BY <1>1, <1>2, <1>3, <1>4, <1>5, <1>6, Zenon DEF Next

\* What the invariant is for.
LEMMA GroupsAgree ==
    ASSUME IInv
    PROVE  MembersAgree
<1>1. SameOutcome
  BY Zenon DEF IInv, Together, SameOutcome
<1>2. NobodyAhead
  BY Zenon DEF IInv, Together, NobodyAhead
<1>3. ResultTracked
  BY Zenon DEF IInv, Shapes, AllCalled, Busy, ResultTracked
<1> QED BY <1>1, <1>2, <1>3, Zenon DEF IInv, Timing, MembersAgree

\* Through any sequence of constructs and destructs, whatever the host answers
\* and whoever is lost (pmix_server_grpconstruct, pmix_server_grpdestruct,
\* _grpcbfunc, grp_timeout, lost_connection), who waits is on a tracker unless
\* the host refused; a timer runs only for a tracker on the list, and memory is
\* misused only in the cases TimersOwned and CaddyReleasedOnce name; and as long
\* as the host does not refuse and nobody is lost, the members are never apart
\* and are answered alike.
THEOREM GroupsTogether ==
    ASSUME IsFiniteSet(Members)
    PROVE  Spec => []MembersAgree
<1>1. Init => IInv
  BY GroupsInit, Zenon
<1>2. IInv /\ [Next]_vars => IInv'
  BY GroupsNext, Zenon
<1>3. IInv => MembersAgree
  BY GroupsAgree, Zenon
<1> QED BY <1>1, <1>2, <1>3, PTL DEF Spec

=============================================================================
