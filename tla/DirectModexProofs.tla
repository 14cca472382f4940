------------------------- MODULE DirectModexProofs -------------------------
(***************************************************************************)
(* Proofs about DirectModex, for every value of the constants: the types   *)
(* are kept, a waiting client's request can be found and listed trackers   *)
(* count their references, whatever fails; and where all nspaces are known *)
(* and nothing fails, no request is forgotten or answered twice.           *)
(***************************************************************************)
EXTENDS DirectModex, FiniteSetTheorems, TLAPS

-----------------------------------------------------------------------------
(* The inductive invariant of the requests.                                *)

LcdRecords == [proc : Targets \cup {NONE}, loc_reqs : SUBSET Requests, refs : Nat]

\* Types of what the requests depend on.
ReqTypes ==
    /\ clients \subseteq LocalProcs
    /\ local_reqs \subseteq Lcds
    /\ lcd \in [Lcds -> LcdRecords]
    /\ asked \in [Lcds -> Nat]
    /\ shifted \in Seq([lcd : Lcds, reply : HostReplies])
    /\ waiting \subseteq LocalProcs \X Targets

\* A process waits only while it is connected.
WaitersLive == \A w \in waiting : w[1] \in clients \ gone

\* An lcd with requests is allocated, an allocated lcd has a target.
Allocated ==
    \A l \in Lcds :
        /\ lcd[l].loc_reqs # {} => lcd[l].refs > 0
        /\ lcd[l].refs > 0 => lcd[l].proc \in Targets

\* Requests are of processes that are, or were, connected.
Requesters == \A l \in Lcds : \A r \in lcd[l].loc_reqs : r.proc \in clients \cup gone

\* The requests on an lcd are answered together; those on a listed one are not.
AnsweredTogether ==
    /\ \A l \in Lcds : \A r, s \in lcd[l].loc_reqs : (r.done <=> s.done)
    /\ \A l \in local_reqs : \A r \in lcd[l].loc_reqs : ~r.done

\* The request r on l is one of a connected process that was not answered.
Open(l, r) == r \in lcd[l].loc_reqs /\ ~r.done /\ r.proc \in clients \ gone

\* Whose request is open waits for the answer.
OpenWaits == \A l \in Lcds : \A r \in Requests : Open(l, r) => <<r.proc, lcd[l].proc>> \in waiting

\* A process has one open request for a target.
OpenOnce ==
    \A l, k \in Lcds : \A r, s \in Requests :
        Open(l, r) /\ Open(k, s) /\ r.proc = s.proc /\ lcd[l].proc = lcd[k].proc => l = k /\ r = s

\* A waiting process has an open request on a listed lcd, or its target is gone.
WaitsListed ==
    \A w \in waiting :
        \/ \E p \in gone : Involves(p, w[2])
        \/ \E l \in local_reqs : \E r \in lcd[l].loc_reqs : lcd[l].proc = w[2] /\ r.proc = w[1] /\ ~r.done

\* The references of a listed lcd.
RefsCounted ==
    \A l \in local_reqs :
        /\ IsFiniteSet(lcd[l].loc_reqs)
        /\ lcd[l].refs = 1 + Cardinality(lcd[l].loc_reqs)

ReqInv ==
    /\ ReqTypes /\ WaitersLive /\ Allocated /\ Requesters /\ AnsweredTogether
    /\ OpenWaits /\ OpenOnce /\ WaitsListed /\ RefsCounted

\* The first element of the queue of host answers, and the rest.
LEMMA HeadTail ==
    ASSUME NEW S, NEW s \in Seq(S), s # <<>>
    PROVE  /\ Head(s) \in S /\ Head(s) = s[1] /\ Tail(s) \in Seq(S)
           /\ Len(s) \in Nat \ {0} /\ DOMAIN s = 1 .. Len(s) /\ DOMAIN Tail(s) = 1 .. (Len(s) - 1)
           /\ \A i \in 1 .. (Len(s) - 1) : Tail(s)[i] = s[i + 1]
  OBVIOUS

\* Initially there are no requests.
LEMMA ReqInit == Init => ReqInv
<1> SUFFICES ASSUME Init PROVE ReqInv
  BY Zenon
<1>1. ReqTypes
  BY DEF Init, ReqTypes, LcdRecords, NoLcd
<1>2. \A l \in Lcds : lcd[l].loc_reqs = {} /\ lcd[l].refs = 0
  BY Zenon DEF Init, NoLcd
<1> QED
  BY <1>1, <1>2 DEF Init, ReqInv, WaitersLive, Allocated, Requesters, AnsweredTogether, Open, OpenWaits,
     OpenOnce, WaitsListed, RefsCounted

\* A step that leaves requests and processes alone.
LEMMA IdleStep ==
    ASSUME ReqInv, UNCHANGED <<clients, gone, local_reqs, lcd, waiting>>,
           asked' \in [Lcds -> Nat], shifted' \in Seq([lcd : Lcds, reply : HostReplies])
    PROVE  ReqInv'
  BY DEF ReqInv, ReqTypes, WaitersLive, Allocated, Requesters, AnsweredTogether, Open, OpenWaits, OpenOnce,
     WaitsListed, RefsCounted

\* One lcd is changed.
LEMMA OneLcd ==
    ASSUME lcd \in [Lcds -> LcdRecords], NEW l \in Lcds, NEW d \in LcdRecords, lcd' = [lcd EXCEPT ![l] = d]
    PROVE  /\ lcd' \in [Lcds -> LcdRecords]
           /\ lcd'[l] = d
           /\ \A k \in Lcds : k # l => lcd'[k] = lcd[k]
  BY Zenon

\* What a record of an lcd consists of.
LEMMA LcdFields ==
    ASSUME NEW d \in LcdRecords
    PROVE  /\ d.proc \in Targets \cup {NONE} /\ d.refs \in Nat
           /\ \A r \in d.loc_reqs : r \in Requests /\ r.proc \in LocalProcs /\ r.done \in BOOLEAN
           /\ d = [proc |-> d.proc, loc_reqs |-> d.loc_reqs, refs |-> d.refs]
  BY Zenon DEF LcdRecords, Requests

\* create_local_tracker: a request joins a listed lcd.
LEMMA JoinStep ==
    ASSUME ReqInv, UNCHANGED <<clients, gone>>,
           NEW p \in clients \ gone, NEW t \in Targets, NEW timed \in BOOLEAN, <<p, t>> \notin waiting,
           GetJoins(p, t, timed)
    PROVE  ReqInv'
<1> DEFINE new == Request(p, timed, FALSE)
<1>a. PICK l \in local_reqs : lcd[l].proc = t /\ lcd' = [lcd EXCEPT ![l] = Join(lcd[l], new)]
  BY Zenon DEF GetJoins
<1>0. waiting' = waiting \cup {<<p, t>>} /\ UNCHANGED <<local_reqs, asked, shifted>>
  BY Zenon DEF GetJoins
<1>1. l \in Lcds /\ lcd[l] \in LcdRecords /\ p \in LocalProcs
  BY Zenon DEF ReqInv, ReqTypes
<1>2. new \in Requests /\ new.proc = p /\ ~new.done
  BY <1>1, Zenon DEF Request, Requests
<1> HIDE DEF new
<1> DEFINE d == Join(lcd[l], new)
<1>3. d \in LcdRecords
  BY <1>1, <1>2 DEF LcdRecords, Join
<1>4. d.proc = t /\ d.loc_reqs = lcd[l].loc_reqs \cup {new} /\ d.refs = lcd[l].refs + 1
  BY <1>a, Zenon DEF Join
<1> HIDE DEF d
<1>5. lcd' \in [Lcds -> LcdRecords] /\ lcd'[l] = d /\ \A k \in Lcds : k # l => lcd'[k] = lcd[k]
  BY <1>a, <1>1, <1>3, OneLcd, Zenon DEF ReqInv, ReqTypes, d
<1>6. /\ lcd'[l].loc_reqs = lcd[l].loc_reqs \cup {new} /\ lcd'[l].refs = lcd[l].refs + 1
      /\ \A k \in Lcds : lcd'[k].proc = lcd[k].proc
  BY <1>a, <1>4, <1>5, Zenon
<1>7. \A k \in Lcds : \A r \in Requests : Open(k, r)' <=> Open(k, r) \/ (k = l /\ r = new)
  BY <1>2, <1>5, <1>6, Zenon DEF Open
<1>8. \A k \in Lcds : \A r \in Requests : Open(k, r) /\ lcd[k].proc = t => r.proc # p
  BY Zenon DEF ReqInv, OpenWaits
<1>9. new \notin lcd[l].loc_reqs
  BY <1>a, <1>1, <1>2, <1>8, Zenon DEF Open, ReqInv, AnsweredTogether
<1>10. ReqTypes'
  BY <1>0, <1>1, <1>5 DEF ReqInv, ReqTypes
<1>11. WaitersLive'
  BY <1>0 DEF ReqInv, WaitersLive
<1>12. Allocated'
  <2>1. lcd[l].refs + 1 > 0
    BY <1>1, LcdFields
  <2> QED
    BY <2>1, <1>a, <1>5, <1>6, Zenon DEF ReqInv, Allocated
<1>13. Requesters'
  BY <1>2, <1>5, <1>6, Zenon DEF ReqInv, Requesters
<1>14. AnsweredTogether'
  <2>1. \A r \in lcd'[l].loc_reqs : ~r.done
    BY <1>2, <1>6, Zenon DEF ReqInv, AnsweredTogether
  <2> QED
    BY <2>1, <1>0, <1>5, Zenon DEF ReqInv, ReqTypes, AnsweredTogether
<1>15. OpenWaits'
  BY <1>0, <1>a, <1>2, <1>6, <1>7 DEF ReqInv, OpenWaits
<1>16. OpenOnce'
  BY <1>a, <1>2, <1>6, <1>7, <1>8 DEF ReqInv, OpenOnce
<1>17. WaitsListed'
  <2> SUFFICES ASSUME NEW w \in waiting', \A q \in gone : ~Involves(q, w[2])
               PROVE  \E k \in local_reqs : \E r \in lcd'[k].loc_reqs :
                         lcd'[k].proc = w[2] /\ r.proc = w[1] /\ ~r.done
    BY <1>0, Zenon DEF WaitsListed
  <2>1. CASE w = <<p, t>>
    BY <2>1, <1>a, <1>1, <1>2, <1>6, Zenon
  <2>2. CASE w \in waiting
    BY <2>2, <1>1, <1>5, <1>6, Zenon DEF ReqInv, ReqTypes, WaitsListed
  <2> QED
    BY <2>1, <2>2, <1>0, Zenon
<1>18. RefsCounted'
  <2> SUFFICES ASSUME NEW k \in local_reqs
               PROVE  IsFiniteSet(lcd'[k].loc_reqs) /\ lcd'[k].refs = 1 + Cardinality(lcd'[k].loc_reqs)
    BY <1>0, Zenon DEF RefsCounted
  <2>1. CASE k = l
    <3>1. IsFiniteSet(lcd[l].loc_reqs) /\ lcd[l].refs = 1 + Cardinality(lcd[l].loc_reqs)
      BY Zenon DEF ReqInv, RefsCounted
    <3>2. /\ IsFiniteSet(lcd[l].loc_reqs \cup {new})
          /\ Cardinality(lcd[l].loc_reqs \cup {new}) = Cardinality(lcd[l].loc_reqs) + 1
      BY <3>1, <1>9, FS_AddElement, Zenon
    <3>3. Cardinality(lcd[l].loc_reqs) \in Nat
      BY <3>1, FS_CardinalityType, Zenon
    <3> QED
      BY <2>1, <3>1, <3>2, <3>3, <1>6
  <2>2. CASE k # l
    BY <2>2, <1>5, Zenon DEF ReqInv, ReqTypes, RefsCounted
  <2> QED
    BY <2>1, <2>2, Zenon
<1> QED
  BY <1>10, <1>11, <1>12, <1>13, <1>14, <1>15, <1>16, <1>17, <1>18, Zenon DEF ReqInv

\* create_local_tracker: an lcd is made for a request.
LEMMA TrackStep ==
    ASSUME ReqInv, UNCHANGED <<clients, gone>>,
           NEW p \in clients \ gone, NEW t \in Targets, NEW timed \in BOOLEAN, <<p, t>> \notin waiting,
           GetTracked(p, t, timed)
    PROVE  ReqInv'
<1> DEFINE new == Request(p, timed, FALSE)
           d == [proc |-> t, loc_reqs |-> {new}, refs |-> 2]
<1>a. PICK l \in Lcds : /\ Unused(l)
                        /\ local_reqs' = local_reqs \cup {l}
                        /\ lcd' = [lcd EXCEPT ![l] = d]
                        /\ asked' = [asked EXCEPT ![l] = IF AskHost(t) THEN 1 ELSE 0]
  BY Zenon DEF GetTracked
<1>0. waiting' = waiting \cup {<<p, t>>} /\ UNCHANGED shifted /\ l \notin local_reqs
  BY <1>a, Zenon DEF GetTracked, Unused
<1>1. p \in LocalProcs
  BY Zenon DEF ReqInv, ReqTypes
<1>2. new \in Requests /\ new.proc = p /\ ~new.done
  BY <1>1, Zenon DEF Request, Requests
<1> HIDE DEF new
<1>3. d \in LcdRecords /\ d.proc = t /\ d.loc_reqs = {new} /\ d.refs = 2
  BY <1>2, Zenon DEF LcdRecords
<1> HIDE DEF d
<1>5. lcd' \in [Lcds -> LcdRecords] /\ lcd'[l] = d /\ \A k \in Lcds : k # l => lcd'[k] = lcd[k]
  BY <1>a, <1>3, OneLcd, Zenon DEF ReqInv, ReqTypes
<1>7. \A k \in Lcds : \A r \in Requests :
         Open(k, r)' <=> (k # l /\ Open(k, r)) \/ (k = l /\ r = new)
  BY <1>2, <1>3, <1>5, Zenon DEF Open
<1>8. \A k \in Lcds : \A r \in Requests : Open(k, r) /\ lcd[k].proc = t => r.proc # p
  BY Zenon DEF ReqInv, OpenWaits
<1>9. \A k \in local_reqs : k # l /\ lcd'[k] = lcd[k]
  BY <1>0, <1>5, Zenon DEF ReqInv, ReqTypes
<1>10. ReqTypes'
  <2>1. asked' \in [Lcds -> Nat]
    BY <1>a, Zenon DEF ReqInv, ReqTypes
  <2>2. waiting' \subseteq LocalProcs \X Targets
    BY <1>0, <1>1 DEF ReqInv, ReqTypes
  <2> QED
    BY <2>1, <2>2, <1>0, <1>a, <1>5, Zenon DEF ReqInv, ReqTypes
<1>11. WaitersLive'
  BY <1>0 DEF ReqInv, WaitersLive
<1>12. Allocated'
  BY <1>3, <1>5 DEF ReqInv, Allocated
<1>13. Requesters'
  BY <1>2, <1>3, <1>5, Zenon DEF ReqInv, Requesters
<1>14. AnsweredTogether'
  BY <1>a, <1>2, <1>3, <1>5, <1>9, Zenon DEF ReqInv, AnsweredTogether
<1>15. OpenWaits'
  BY <1>0, <1>2, <1>3, <1>5, <1>7, Zenon DEF ReqInv, OpenWaits
<1>16. OpenOnce'
  BY <1>2, <1>3, <1>5, <1>7, <1>8 DEF ReqInv, OpenOnce
<1>17. WaitsListed'
  <2> SUFFICES ASSUME NEW w \in waiting', \A q \in gone : ~Involves(q, w[2])
               PROVE  \E k \in local_reqs' : \E r \in lcd'[k].loc_reqs :
                         lcd'[k].proc = w[2] /\ r.proc = w[1] /\ ~r.done
    BY Zenon DEF WaitsListed
  <2>1. CASE w = <<p, t>>
    BY <2>1, <1>a, <1>2, <1>3, <1>5, Zenon
  <2>2. CASE w \in waiting
    BY <2>2, <1>a, <1>9, Zenon DEF ReqInv, WaitsListed
  <2> QED
    BY <2>1, <2>2, <1>0, Zenon
<1>18. RefsCounted'
  <2>1. IsFiniteSet({new}) /\ Cardinality({new}) = 1
    BY FS_Singleton, Zenon
  <2>2. IsFiniteSet(lcd'[l].loc_reqs) /\ lcd'[l].refs = 1 + Cardinality(lcd'[l].loc_reqs)
    BY <2>1, <1>3, <1>5
  <2> QED
    BY <2>2, <1>a, <1>9, Zenon DEF ReqInv, RefsCounted
<1> QED
  BY <1>10, <1>11, <1>12, <1>13, <1>14, <1>15, <1>16, <1>17, <1>18, Zenon DEF ReqInv

\* pmix_server_get: the host does not take the request.
LEMMA RefuseStep ==
    ASSUME ReqInv, UNCHANGED <<clients, gone>>,
           NEW p \in clients \ gone, NEW t \in Targets, NEW timed \in BOOLEAN,
           GetRefused(p, t, timed)
    PROVE  ReqInv'
<1> DEFINE new == Request(p, timed /\ t.ns \in nspaces, TRUE)
           d == [proc |-> t, refs |-> 1, loc_reqs |-> {new}]
<1>a. PICK l \in Lcds : Unused(l) /\ lcd' = [lcd EXCEPT ![l] = d]
  BY Zenon DEF GetRefused
<1>0. UNCHANGED <<local_reqs, asked, shifted, waiting>> /\ l \notin local_reqs
  BY <1>a, Zenon DEF GetRefused, Unused
<1>2. new \in Requests /\ new.proc = p /\ new.done
  BY Zenon DEF Request, Requests, ReqInv, ReqTypes
<1> HIDE DEF new
<1>3. d \in LcdRecords /\ d.proc = t /\ d.loc_reqs = {new} /\ d.refs = 1
  BY <1>2, Zenon DEF LcdRecords
<1> HIDE DEF d
<1>5. lcd' \in [Lcds -> LcdRecords] /\ lcd'[l] = d /\ \A k \in Lcds : k # l => lcd'[k] = lcd[k]
  BY <1>a, <1>3, OneLcd, Zenon DEF ReqInv, ReqTypes
<1>7. \A k \in Lcds : \A r \in Requests : Open(k, r)' <=> (k # l /\ Open(k, r))
  BY <1>2, <1>3, <1>5, Zenon DEF Open
<1>9. \A k \in local_reqs : k # l /\ lcd'[k] = lcd[k]
  BY <1>0, <1>5, Zenon DEF ReqInv, ReqTypes
<1>10. ReqTypes' /\ WaitersLive'
  BY <1>0, <1>5, Zenon DEF ReqInv, ReqTypes, WaitersLive
<1>12. Allocated'
  BY <1>3, <1>5 DEF ReqInv, Allocated
<1>13. Requesters'
  BY <1>2, <1>3, <1>5, Zenon DEF ReqInv, Requesters
<1>14. AnsweredTogether'
  BY <1>0, <1>3, <1>5, <1>9 DEF ReqInv, AnsweredTogether
<1>15. OpenWaits'
  BY <1>0, <1>5, <1>7, Zenon DEF ReqInv, OpenWaits
<1>16. OpenOnce'
  BY <1>5, <1>7, Zenon DEF ReqInv, OpenOnce
<1>17. WaitsListed' /\ RefsCounted'
  BY <1>0, <1>9, Zenon DEF ReqInv, WaitsListed, RefsCounted
<1> QED
  BY <1>10, <1>12, <1>13, <1>14, <1>15, <1>16, <1>17, Zenon DEF ReqInv

\* Requests are answered: C[l] are those of l that are.
LEMMA CloseStep ==
    ASSUME ReqInv, UNCHANGED <<clients, gone>>, NEW C \in [Lcds -> SUBSET Requests],
           \A k \in Lcds : \A r \in Requests :
              Open(k, r)' => Open(k, r) /\ r \notin C[k] /\ lcd'[k].proc = lcd[k].proc,
           waiting' \subseteq waiting,
           \A w \in waiting \ waiting' : \E l \in Lcds : \E r \in C[l] :
              Open(l, r) /\ w = <<r.proc, lcd[l].proc>>,
           \A l \in Lcds : \A r \in C[l] : Open(l, r) => <<r.proc, lcd[l].proc>> \notin waiting',
           \A k \in local_reqs : \A r \in lcd[k].loc_reqs :
              r \notin C[k] => k \in local_reqs' /\ r \in lcd'[k].loc_reqs /\ lcd'[k].proc = lcd[k].proc
    PROVE  WaitersLive' /\ OpenWaits' /\ OpenOnce' /\ WaitsListed'
<1>1. WaitersLive'
  BY Zenon DEF ReqInv, WaitersLive
<1>2. OpenWaits'
  <2> SUFFICES ASSUME NEW k \in Lcds, NEW r \in Requests, Open(k, r)', <<r.proc, lcd[k].proc>> \notin waiting'
               PROVE  FALSE
    BY Zenon DEF OpenWaits
  <2>1. Open(k, r) /\ r \notin C[k] /\ <<r.proc, lcd[k].proc>> \in waiting
    BY Zenon DEF ReqInv, OpenWaits
  <2>2. PICK l \in Lcds : \E s \in C[l] : Open(l, s) /\ <<r.proc, lcd[k].proc>> = <<s.proc, lcd[l].proc>>
    BY <2>1, Zenon
  <2>3. PICK s \in C[l] : Open(l, s) /\ r.proc = s.proc /\ lcd[k].proc = lcd[l].proc
    BY <2>2, Zenon
  <2>4. s \in Requests
    BY Zenon
  <2> QED
    BY <2>1, <2>3, <2>4 DEF ReqInv, OpenOnce
<1>3. OpenOnce'
  BY DEF ReqInv, OpenOnce
<1>4. WaitsListed'
  <2> SUFFICES ASSUME NEW w \in waiting', \A q \in gone : ~Involves(q, w[2])
               PROVE  \E k \in local_reqs' : \E r \in lcd'[k].loc_reqs :
                         lcd'[k].proc = w[2] /\ r.proc = w[1] /\ ~r.done
    BY Zenon DEF WaitsListed
  <2>1. PICK k \in local_reqs : \E r \in lcd[k].loc_reqs : lcd[k].proc = w[2] /\ r.proc = w[1] /\ ~r.done
    BY Zenon DEF ReqInv, WaitsListed
  <2>2. PICK r \in lcd[k].loc_reqs : lcd[k].proc = w[2] /\ r.proc = w[1] /\ ~r.done
    BY <2>1, Zenon
  <2>3. k \in Lcds /\ w \in LocalProcs \X Targets
    BY Zenon DEF ReqInv, ReqTypes
  <2>4. w = <<r.proc, lcd[k].proc>>
    BY <2>2, <2>3
  <2>5. Open(k, r)
    BY <2>2, Zenon DEF ReqInv, WaitersLive, Open
  <2>6. r \notin C[k]
    BY <2>3, <2>4, <2>5, Zenon
  <2> QED
    BY <2>2, <2>6, Zenon
<1> QED
  BY <1>1, <1>2, <1>3, <1>4, Zenon

\* What the release of an lcd leaves.
LEMMA ReleaseFacts ==
    ASSUME NEW d \in LcdRecords, d.refs > 0
    PROVE  /\ Release(d) \in LcdRecords
           /\ \/ d.refs = 1 /\ Release(d).loc_reqs = {} /\ Release(d).refs = 0
              \/ /\ d.refs > 1 /\ Release(d).refs = d.refs - 1
                 /\ Release(d).loc_reqs = d.loc_reqs /\ Release(d).proc = d.proc
  BY DEF LcdRecords, Release, NoLcd

\* An lcd with other requests.
LEMMA WithReqsFacts ==
    ASSUME NEW d \in LcdRecords, NEW reqs \in SUBSET Requests
    PROVE  /\ WithReqs(d, reqs) \in LcdRecords
           /\ WithReqs(d, reqs).proc = d.proc /\ WithReqs(d, reqs).refs = d.refs
           /\ WithReqs(d, reqs).loc_reqs = reqs
  BY Zenon DEF LcdRecords, WithReqs

\* Who is answered by AnswersTo no longer waits.
LEMMA AnsweredWait ==
    ASSUME NEW l \in Lcds, NEW status, NEW sent, sent \subseteq AnswersTo(l, status),
           waiting' = StillWaiting(sent)
    PROVE  /\ waiting' \subseteq waiting
           /\ \A w \in waiting \ waiting' : \E a \in sent : \E s \in lcd[l].loc_reqs :
                 Open(l, s) /\ a.proc = s.proc /\ w = <<s.proc, lcd[l].proc>>
           /\ \A s \in lcd[l].loc_reqs :
                 Open(l, s) /\ Answer(s.proc, lcd[l].proc, status, s.done) \in sent =>
                   <<s.proc, lcd[l].proc>> \notin waiting'
<1>1. \A a \in AnswersTo(l, status) : \E s \in lcd[l].loc_reqs :
         s.proc \in clients \ gone /\ a.proc = s.proc /\ a.target = lcd[l].proc /\ (a.stale <=> s.done)
  BY DEF AnswersTo, Answer
<1>2. \A s : Answer(s.proc, lcd[l].proc, status, s.done).proc = s.proc
              /\ Answer(s.proc, lcd[l].proc, status, s.done).target = lcd[l].proc
              /\ (Answer(s.proc, lcd[l].proc, status, s.done).stale <=> s.done)
  BY Zenon DEF Answer
<1> QED
  BY <1>1, <1>2 DEF StillWaiting, Open

\* get_timeout.
LEMMA TimeoutStep ==
    ASSUME ReqInv, NEW l \in Lcds, NEW r \in lcd[l].loc_reqs, get_timeout(l, r)
    PROVE  ReqInv'
<1> DEFINE d == WithReqs(lcd[l], lcd[l].loc_reqs \ {r})
           C == [k \in Lcds |-> IF k = l THEN {r} ELSE {}]
<1>0. UNCHANGED <<clients, gone, local_reqs, asked, shifted>>
  BY Zenon DEF get_timeout, nsvars
<1>1. /\ lcd[l] \in LcdRecords /\ r \in Requests
      /\ lcd[l].refs \in Nat /\ lcd[l].refs > 0 /\ lcd[l].proc \in Targets
  BY LcdFields, Zenon DEF ReqInv, ReqTypes, Allocated
<1>2. lcd' = [lcd EXCEPT ![l] = Release(d)]
  BY Zenon DEF get_timeout
<1>3. d \in LcdRecords /\ d.refs = lcd[l].refs /\ d.loc_reqs = lcd[l].loc_reqs \ {r} /\ d.proc = lcd[l].proc
  BY <1>1, WithReqsFacts, Zenon DEF LcdRecords
<1> HIDE DEF d
<1>4. /\ Release(d) \in LcdRecords
      /\ \/ lcd[l].refs = 1 /\ Release(d).loc_reqs = {} /\ Release(d).refs = 0
         \/ /\ lcd[l].refs > 1 /\ Release(d).refs = lcd[l].refs - 1
            /\ Release(d).loc_reqs = lcd[l].loc_reqs \ {r} /\ Release(d).proc = lcd[l].proc
  BY <1>1, <1>3, ReleaseFacts, Zenon
<1>5. lcd' \in [Lcds -> LcdRecords] /\ lcd'[l] = Release(d) /\ \A k \in Lcds : k # l => lcd'[k] = lcd[k]
  BY <1>2, <1>4, OneLcd, Zenon DEF ReqInv, ReqTypes
<1>6. waiting' \subseteq waiting /\ \A w \in waiting :
         w \notin waiting' <=> \E s \in lcd[l].loc_reqs : Open(l, s) /\ s.proc = r.proc /\ w = <<s.proc, lcd[l].proc>>
  <2> DEFINE sent == {a \in AnswersTo(l, "TIMEOUT") : a.proc = r.proc}
  <2>1. waiting' = StillWaiting(sent)
    BY Zenon DEF get_timeout, StillWaiting
  <2>2. \A s \in lcd[l].loc_reqs :
           Open(l, s) /\ s.proc = r.proc => Answer(s.proc, lcd[l].proc, "TIMEOUT", s.done) \in sent
    BY Zenon DEF AnswersTo, Answer, Open
  <2>3. sent \subseteq AnswersTo(l, "TIMEOUT") /\ \A a \in sent : a.proc = r.proc
    BY Zenon
  <2> HIDE DEF sent
  <2>4. /\ waiting' \subseteq waiting
        /\ \A w \in waiting \ waiting' : \E a \in sent : \E s \in lcd[l].loc_reqs :
              Open(l, s) /\ a.proc = s.proc /\ w = <<s.proc, lcd[l].proc>>
        /\ \A s \in lcd[l].loc_reqs :
              Open(l, s) /\ Answer(s.proc, lcd[l].proc, "TIMEOUT", s.done) \in sent =>
                   <<s.proc, lcd[l].proc>> \notin waiting'
    BY <2>1, <2>3, AnsweredWait, Zenon
  <2> QED
    BY <2>2, <2>3, <2>4, Zenon
<1>7. \A s \in lcd[l].loc_reqs : s \in Requests /\ (Open(l, s) /\ s.proc = r.proc => s = r)
  <2>1. \A s \in lcd[l].loc_reqs : s \in Requests
    BY <1>1, LcdFields, Zenon
  <2> QED
    BY <2>1, <1>1, Zenon DEF Open, ReqInv, AnsweredTogether, OpenOnce
<1>8. l \in local_reqs =>
         /\ IsFiniteSet(lcd[l].loc_reqs \ {r}) /\ lcd[l].refs > 1
         /\ lcd[l].refs - 1 = 1 + Cardinality(lcd[l].loc_reqs \ {r})
  <2> SUFFICES ASSUME l \in local_reqs
               PROVE  /\ IsFiniteSet(lcd[l].loc_reqs \ {r}) /\ lcd[l].refs > 1
                      /\ lcd[l].refs - 1 = 1 + Cardinality(lcd[l].loc_reqs \ {r})
    BY Zenon
  <2>1. IsFiniteSet(lcd[l].loc_reqs) /\ lcd[l].refs = 1 + Cardinality(lcd[l].loc_reqs)
    BY Zenon DEF ReqInv, RefsCounted
  <2>2. IsFiniteSet(lcd[l].loc_reqs \ {r}) /\ Cardinality(lcd[l].loc_reqs \ {r}) = Cardinality(lcd[l].loc_reqs) - 1
    BY <2>1, FS_RemoveElement, Zenon
  <2>3. Cardinality(lcd[l].loc_reqs) \in Nat /\ Cardinality(lcd[l].loc_reqs \ {r}) \in Nat
    BY <2>1, <2>2, FS_CardinalityType, Zenon
  <2> QED
    BY <2>1, <2>2, <2>3
<1>9. C \in [Lcds -> SUBSET Requests] /\ C[l] = {r} /\ \A k \in Lcds : k # l => C[k] = {}
  BY <1>1, Zenon
<1> HIDE DEF C
<1>10. ReqTypes'
  BY <1>0, <1>5, <1>6, Zenon DEF ReqInv, ReqTypes
<1>11. WaitersLive' /\ OpenWaits' /\ OpenOnce' /\ WaitsListed'
  <2>1. \A k \in Lcds : \A s \in Requests :
           Open(k, s)' => Open(k, s) /\ s \notin C[k] /\ lcd'[k].proc = lcd[k].proc
    BY <1>0, <1>4, <1>5, <1>9, Zenon DEF Open
  <2>2. \A w \in waiting \ waiting' : \E k \in Lcds : \E s \in C[k] : Open(k, s) /\ w = <<s.proc, lcd[k].proc>>
    BY <1>6, <1>7, <1>9, Zenon
  <2>3. \A k \in Lcds : \A s \in C[k] : Open(k, s) => <<s.proc, lcd[k].proc>> \notin waiting'
    BY <1>6, <1>9, Zenon
  <2>4. \A k \in local_reqs : \A s \in lcd[k].loc_reqs :
           s \notin C[k] => k \in local_reqs' /\ s \in lcd'[k].loc_reqs /\ lcd'[k].proc = lcd[k].proc
    BY <1>0, <1>4, <1>5, <1>8, <1>9 DEF ReqInv, ReqTypes
  <2> QED
    BY <2>1, <2>2, <2>3, <2>4, <1>0, <1>6, <1>9, CloseStep, Zenon
<1>12. Allocated'
  BY <1>1, <1>4, <1>5 DEF ReqInv, Allocated
<1>13. Requesters'
  BY <1>0, <1>4, <1>5, Zenon DEF ReqInv, Requesters
<1>14. AnsweredTogether'
  BY <1>0, <1>4, <1>5, Zenon DEF ReqInv, ReqTypes, AnsweredTogether
<1>15. RefsCounted'
  <2>1. l \in local_reqs =>
          IsFiniteSet(lcd'[l].loc_reqs) /\ lcd'[l].refs = 1 + Cardinality(lcd'[l].loc_reqs)
    BY <1>4, <1>5, <1>8
  <2> QED
    BY <2>1, <1>0, <1>5, Zenon DEF ReqInv, ReqTypes, RefsCounted
<1> QED
  BY <1>10, <1>11, <1>12, <1>13, <1>14, <1>15, Zenon DEF ReqInv

\* pmix_pending_resolve, of an allocated lcd.
LEMMA ResolveStep ==
    ASSUME ReqInv, UNCHANGED <<clients, gone>>,
           asked' \in [Lcds -> Nat], shifted' \in Seq([lcd : Lcds, reply : HostReplies]),
           NEW l \in Lcds, NEW status, lcd[l].refs > 0, pmix_pending_resolve(l, status)
    PROVE  ReqInv'
<1> DEFINE reqs == {Request(r.proc, r.timer, TRUE) : r \in lcd[l].loc_reqs}
           d == WithReqs(lcd[l], reqs)
           C == [k \in Lcds |-> IF k = l THEN Requests ELSE {}]
<1>0. local_reqs' = local_reqs \ {l}
  BY Zenon DEF pmix_pending_resolve
<1>1. lcd[l] \in LcdRecords /\ lcd[l].refs \in Nat /\ lcd[l].proc \in Targets
  BY LcdFields, Zenon DEF ReqInv, ReqTypes, Allocated
<1>2. lcd' = [lcd EXCEPT ![l] = Release(d)]
  BY Zenon DEF pmix_pending_resolve
<1>3. /\ reqs \subseteq Requests /\ \A r \in reqs : r.done
      /\ \A r \in reqs : \E s \in lcd[l].loc_reqs : r.proc = s.proc
  <2>1. ASSUME NEW r \in reqs
        PROVE  r \in Requests /\ r.done /\ \E s \in lcd[l].loc_reqs : r.proc = s.proc
    <3>1. PICK s \in lcd[l].loc_reqs : r = Request(s.proc, s.timer, TRUE)
      BY Zenon
    <3>2. s \in Requests
      BY <1>1, LcdFields, Zenon
    <3> QED
      BY <3>1, <3>2, Zenon DEF Request, Requests
  <2> QED
    BY <2>1, Zenon
<1> HIDE DEF reqs
<1>a. d \in LcdRecords /\ d.refs = lcd[l].refs /\ d.loc_reqs = reqs /\ d.proc = lcd[l].proc
  BY <1>1, <1>3, WithReqsFacts, Zenon
<1> HIDE DEF d
<1>4. /\ Release(d) \in LcdRecords
      /\ \/ lcd[l].refs = 1 /\ Release(d).loc_reqs = {} /\ Release(d).refs = 0
         \/ /\ lcd[l].refs > 1 /\ Release(d).refs = lcd[l].refs - 1
            /\ Release(d).loc_reqs = reqs /\ Release(d).proc = lcd[l].proc
  BY <1>a, ReleaseFacts, Zenon
<1>5. lcd' \in [Lcds -> LcdRecords] /\ lcd'[l] = Release(d) /\ \A k \in Lcds : k # l => lcd'[k] = lcd[k]
  BY <1>2, <1>4, OneLcd, Zenon DEF ReqInv, ReqTypes
<1>b. \A r \in lcd'[l].loc_reqs : r \in reqs
  BY <1>4, <1>5, Zenon
<1>6. waiting' \subseteq waiting /\ \A w \in waiting :
         w \notin waiting' <=> \E s \in lcd[l].loc_reqs : Open(l, s) /\ w = <<s.proc, lcd[l].proc>>
  <2>1. PICK st : answers' = AnswersTo(l, st)
    BY Zenon DEF pmix_pending_resolve
  <2> DEFINE sent == AnswersTo(l, st)
  <2>2. waiting' = StillWaiting(sent)
    BY <2>1, Zenon DEF pmix_pending_resolve, StillWaiting
  <2>3. \A s \in lcd[l].loc_reqs : Open(l, s) => Answer(s.proc, lcd[l].proc, st, s.done) \in sent
    BY Zenon DEF AnswersTo, Open
  <2> HIDE DEF sent
  <2>4. /\ waiting' \subseteq waiting
        /\ \A w \in waiting \ waiting' : \E a \in sent : \E s \in lcd[l].loc_reqs :
              Open(l, s) /\ a.proc = s.proc /\ w = <<s.proc, lcd[l].proc>>
        /\ \A s \in lcd[l].loc_reqs :
              Open(l, s) /\ Answer(s.proc, lcd[l].proc, st, s.done) \in sent =>
                   <<s.proc, lcd[l].proc>> \notin waiting'
    BY <2>2, AnsweredWait, Zenon DEF sent
  <2> QED
    BY <2>3, <2>4, Zenon
<1>7. \A s \in lcd[l].loc_reqs : s \in Requests
  BY <1>1, LcdFields, Zenon
<1>9. C \in [Lcds -> SUBSET Requests] /\ C[l] = Requests /\ \A k \in Lcds : k # l => C[k] = {}
  BY Zenon
<1> HIDE DEF C
<1>10. ReqTypes'
  BY <1>0, <1>5, <1>6, Zenon DEF ReqInv, ReqTypes
<1>11. WaitersLive' /\ OpenWaits' /\ OpenOnce' /\ WaitsListed'
  <2>1. \A k \in Lcds : \A s \in Requests :
           Open(k, s)' => Open(k, s) /\ s \notin C[k] /\ lcd'[k].proc = lcd[k].proc
    BY <1>3, <1>b, <1>5, <1>9, Zenon DEF Open
  <2>2. \A w \in waiting \ waiting' : \E k \in Lcds : \E s \in C[k] : Open(k, s) /\ w = <<s.proc, lcd[k].proc>>
    BY <1>6, <1>7, <1>9, Zenon
  <2>3. \A k \in Lcds : \A s \in C[k] : Open(k, s) => <<s.proc, lcd[k].proc>> \notin waiting'
    BY <1>6, <1>9, Zenon DEF Open
  <2>4. \A k \in local_reqs : \A s \in lcd[k].loc_reqs :
           s \notin C[k] => k \in local_reqs' /\ s \in lcd'[k].loc_reqs /\ lcd'[k].proc = lcd[k].proc
    BY <1>0, <1>5, <1>7, <1>9, Zenon DEF ReqInv, ReqTypes
  <2> QED
    BY <2>1, <2>2, <2>3, <2>4, <1>6, <1>9, CloseStep, Zenon
<1>12. Allocated'
  BY <1>1, <1>4, <1>5 DEF ReqInv, Allocated
<1>13. Requesters'
  BY <1>3, <1>b, <1>5, Zenon DEF ReqInv, Requesters
<1>14. AnsweredTogether'
  BY <1>0, <1>3, <1>b, <1>5, Zenon DEF ReqInv, ReqTypes, AnsweredTogether
<1>15. RefsCounted'
  BY <1>0, <1>5, Zenon DEF ReqInv, ReqTypes, RefsCounted
<1> QED
  BY <1>10, <1>11, <1>12, <1>13, <1>14, <1>15, Zenon DEF ReqInv

\* pmix_pending_nspace_requests.
LEMMA NspaceStep ==
    ASSUME ReqInv, UNCHANGED <<clients, gone, shifted>>, NEW n, NEW registered,
           pmix_pending_nspace_requests(n, registered)
    PROVE  ReqInv'
<1> DEFINE away == {l \in local_reqs : lcd[l].proc.ns = n /\ lcd[l].proc \notin registered}
<1>a. PICK refused \in SUBSET away :
        /\ asked' = [l \in Lcds |-> IF l \in away \ refused THEN asked[l] + 1 ELSE asked[l]]
        /\ answers' = UNION {AnswersTo(l, "NOT_FOUND") : l \in refused}
        /\ waiting' = StillWaiting(answers')
        /\ lcd' = [l \in Lcds |-> IF l \in refused THEN NoLcd ELSE lcd[l]]
        /\ local_reqs' = local_reqs \ refused
  BY Zenon DEF pmix_pending_nspace_requests
<1> DEFINE C == [k \in Lcds |-> IF k \in refused THEN Requests ELSE {}]
<1>1. /\ NoLcd \in LcdRecords /\ NoLcd.loc_reqs = {} /\ NoLcd.refs = 0
  BY Zenon DEF NoLcd, LcdRecords
<1>2. /\ lcd' \in [Lcds -> LcdRecords]
      /\ \A k \in Lcds : k \in refused => lcd'[k] = NoLcd
      /\ \A k \in Lcds : k \notin refused => lcd'[k] = lcd[k]
  BY <1>a, <1>1, Zenon DEF ReqInv, ReqTypes
<1>3. refused \subseteq local_reqs /\ refused \subseteq Lcds
  BY Zenon DEF ReqInv, ReqTypes
<1>4. asked' \in [Lcds -> Nat]
  <2>1. \A l \in Lcds : asked[l] \in Nat /\ asked[l] + 1 \in Nat
    BY DEF ReqInv, ReqTypes
  <2> QED
    BY <2>1, <1>a, Zenon
<1> HIDE DEF away
<1>5. \A k \in Lcds : \A s \in lcd[k].loc_reqs : s \in Requests
  BY LcdFields, Zenon DEF ReqInv, ReqTypes
<1>6. /\ waiting' \subseteq waiting
      /\ \A w \in waiting \ waiting' : \E l \in refused : \E s \in lcd[l].loc_reqs :
            Open(l, s) /\ w = <<s.proc, lcd[l].proc>>
      /\ \A l \in refused : \A s \in lcd[l].loc_reqs : Open(l, s) => <<s.proc, lcd[l].proc>> \notin waiting'
  <2> DEFINE sent == UNION {AnswersTo(l, "NOT_FOUND") : l \in refused}
  <2>1. waiting' = StillWaiting(sent)
    BY <1>a, Zenon DEF StillWaiting
  <2>2. \A a \in sent : \E l \in refused : \E s \in lcd[l].loc_reqs :
           s.proc \in clients \ gone /\ a.proc = s.proc /\ a.target = lcd[l].proc /\ (a.stale <=> s.done)
    BY DEF AnswersTo, Answer
  <2>3. \A l \in refused : \A s \in lcd[l].loc_reqs :
           s.proc \in clients \ gone => Answer(s.proc, lcd[l].proc, "NOT_FOUND", s.done) \in sent
    BY DEF AnswersTo
  <2> HIDE DEF sent
  <2>4. waiting' = {w \in waiting : \A a \in sent : a.stale \/ w # <<a.proc, a.target>>}
    BY <2>1, Zenon DEF StillWaiting
  <2>5. \A w \in waiting \ waiting' : \E l \in refused : \E s \in lcd[l].loc_reqs :
            Open(l, s) /\ w = <<s.proc, lcd[l].proc>>
    BY <2>2, <2>4 DEF Open
  <2>6. ASSUME NEW l \in refused, NEW s \in lcd[l].loc_reqs, Open(l, s)
        PROVE  <<s.proc, lcd[l].proc>> \notin waiting'
    <3> DEFINE a == Answer(s.proc, lcd[l].proc, "NOT_FOUND", s.done)
    <3>1. a \in sent
      BY <2>3, <2>6, Zenon DEF Open
    <3>2. a.proc = s.proc /\ a.target = lcd[l].proc /\ (a.stale <=> s.done)
      BY Zenon DEF Answer
    <3>3. ~s.done
      BY <2>6, Zenon DEF Open
    <3> HIDE DEF a
    <3> QED
      BY <3>1, <3>2, <3>3, <2>4, Zenon
  <2> QED
    BY <2>4, <2>5, <2>6, Zenon
<1>9. /\ C \in [Lcds -> SUBSET Requests] /\ \A k \in refused : C[k] = Requests
      /\ \A k \in Lcds : k \notin refused => C[k] = {}
  BY <1>3, Zenon
<1> HIDE DEF C
<1>10. ReqTypes'
  BY <1>a, <1>2, <1>4, <1>6, Zenon DEF ReqInv, ReqTypes
<1>11. WaitersLive' /\ OpenWaits' /\ OpenOnce' /\ WaitsListed'
  <2>1. \A k \in Lcds : \A s \in Requests :
           Open(k, s)' => Open(k, s) /\ s \notin C[k] /\ lcd'[k].proc = lcd[k].proc
    BY <1>1, <1>2, <1>9, Zenon DEF Open
  <2>2. \A w \in waiting \ waiting' : \E k \in Lcds : \E s \in C[k] : Open(k, s) /\ w = <<s.proc, lcd[k].proc>>
    BY <1>3, <1>5, <1>6, <1>9, Zenon
  <2>3. \A k \in Lcds : \A s \in C[k] : Open(k, s) => <<s.proc, lcd[k].proc>> \notin waiting'
    BY <1>6, <1>9, Zenon DEF Open
  <2>4. \A k \in local_reqs : \A s \in lcd[k].loc_reqs :
           s \notin C[k] => k \in local_reqs' /\ s \in lcd'[k].loc_reqs /\ lcd'[k].proc = lcd[k].proc
    BY <1>a, <1>2, <1>5, <1>9, Zenon DEF ReqInv, ReqTypes
  <2> QED
    BY <2>1, <2>2, <2>3, <2>4, <1>6, <1>9, CloseStep, Zenon
<1>12. Allocated'
  BY <1>1, <1>2 DEF ReqInv, Allocated
<1>13. Requesters'
  BY <1>1, <1>2, Zenon DEF ReqInv, Requesters
<1>14. AnsweredTogether'
  BY <1>a, <1>1, <1>2, Zenon DEF ReqInv, ReqTypes, AnsweredTogether
<1>15. RefsCounted'
  BY <1>a, <1>2, Zenon DEF ReqInv, ReqTypes, RefsCounted
<1> QED
  BY <1>10, <1>11, <1>12, <1>13, <1>14, <1>15, Zenon DEF ReqInv

\* A client connects.
LEMMA ConnectStep ==
    ASSUME ReqInv, NEW p \in LocalProcs, p \notin clients \cup gone, clients' = clients \cup {p},
           UNCHANGED <<gone, local_reqs, lcd, asked, shifted, waiting>>
    PROVE  ReqInv'
<1>1. \A k \in Lcds : \A r \in Requests : Open(k, r)' <=> Open(k, r)
  BY Zenon DEF ReqInv, Requesters, Open
<1>2. ReqTypes' /\ WaitersLive' /\ Allocated' /\ Requesters' /\ AnsweredTogether' /\ WaitsListed' /\ RefsCounted'
  BY Zenon DEF ReqInv, ReqTypes, WaitersLive, Allocated, Requesters, AnsweredTogether, WaitsListed, RefsCounted
<1>3. OpenWaits' /\ OpenOnce'
  BY <1>1, Zenon DEF ReqInv, OpenWaits, OpenOnce
<1> QED
  BY <1>2, <1>3, Zenon DEF ReqInv

\* A process finalizes or is lost.
LEMMA PurgeStep ==
    ASSUME ReqInv, NEW p \in LocalProcs, pmix_server_purge_events(p), gone' = gone \cup {p},
           clients' \subseteq clients, clients \subseteq clients' \cup {p},
           waiting' = {w \in waiting : w[1] # p}, UNCHANGED <<asked, shifted>>
    PROVE  ReqInv'
<1> DEFINE purged == {l \in local_reqs : Involves(p, lcd[l].proc)}
<1>1. /\ local_reqs' = local_reqs \ purged
      /\ lcd' = [l \in Lcds |-> IF l \in purged THEN Release(lcd[l]) ELSE lcd[l]]
  BY Zenon DEF pmix_server_purge_events
<1>2. \A l \in Lcds : lcd[l] \in LcdRecords /\ lcd[l].refs \in Nat
  BY LcdFields, Zenon DEF ReqInv, ReqTypes
<1>3. \A l \in purged : lcd[l].refs > 0
  <2>1. \A l \in local_reqs : Cardinality(lcd[l].loc_reqs) \in Nat
    BY FS_CardinalityType, Zenon DEF ReqInv, RefsCounted
  <2> QED
    BY <2>1 DEF ReqInv, RefsCounted
<1>4. \A l \in purged : /\ Release(lcd[l]) \in LcdRecords
                        /\ \/ Release(lcd[l]).loc_reqs = {} /\ Release(lcd[l]).refs = 0
                           \/ /\ Release(lcd[l]).refs > 0 /\ Release(lcd[l]).proc = lcd[l].proc
                              /\ Release(lcd[l]).loc_reqs = lcd[l].loc_reqs
  <2> TAKE l \in purged
  <2>1. l \in Lcds
    BY Zenon DEF ReqInv, ReqTypes
  <2> QED
    BY <2>1, <1>2, <1>3, ReleaseFacts
<1>5. /\ lcd' \in [Lcds -> LcdRecords]
      /\ \A l \in Lcds : l \in purged => lcd'[l] = Release(lcd[l])
      /\ \A l \in Lcds : l \notin purged => lcd'[l] = lcd[l]
  BY <1>1, <1>2, <1>4, Zenon
<1>6. purged \subseteq local_reqs /\ \A l \in local_reqs : l \in Lcds /\ (l \in purged <=> Involves(p, lcd[l].proc))
  BY Zenon DEF ReqInv, ReqTypes
<1> HIDE DEF purged
<1>7. \A k \in Lcds : /\ \A r \in lcd'[k].loc_reqs : r \in lcd[k].loc_reqs /\ lcd'[k].proc = lcd[k].proc
                      /\ lcd'[k].loc_reqs # {} => lcd'[k].refs > 0
                      /\ lcd'[k].refs > 0 => lcd'[k].proc \in Targets
  BY <1>2, <1>3, <1>4, <1>5 DEF ReqInv, Allocated
<1>8. \A k \in Lcds : \A r \in Requests :
         Open(k, r)' => Open(k, r) /\ r.proc # p /\ lcd'[k].proc = lcd[k].proc
  BY <1>7, Zenon DEF Open
<1>9. \A k \in local_reqs' : k \in local_reqs /\ k \in Lcds /\ lcd'[k] = lcd[k]
  BY <1>1, <1>5, <1>6, Zenon
<1>10. ReqTypes'
  BY <1>1, <1>5, Zenon DEF ReqInv, ReqTypes
<1>11. WaitersLive'
  BY Zenon DEF ReqInv, WaitersLive
<1>12. Allocated'
  BY <1>7, Zenon DEF Allocated
<1>13. Requesters'
  BY <1>7, Zenon DEF ReqInv, Requesters
<1>14. AnsweredTogether'
  BY <1>7, <1>9, Zenon DEF ReqInv, AnsweredTogether
<1>15. OpenWaits'
  BY <1>8, Zenon DEF ReqInv, OpenWaits
<1>16. OpenOnce'
  BY <1>8, Zenon DEF ReqInv, OpenOnce
<1>17. WaitsListed'
  <2> SUFFICES ASSUME NEW w \in waiting', \A q \in gone \cup {p} : ~Involves(q, w[2])
               PROVE  \E k \in local_reqs' : \E r \in lcd'[k].loc_reqs :
                         lcd'[k].proc = w[2] /\ r.proc = w[1] /\ ~r.done
    BY Zenon DEF WaitsListed
  <2>1. PICK k \in local_reqs : \E r \in lcd[k].loc_reqs : lcd[k].proc = w[2] /\ r.proc = w[1] /\ ~r.done
    BY Zenon DEF ReqInv, WaitsListed
  <2>2. ~Involves(p, lcd[k].proc)
    BY <2>1, Zenon
  <2>3. k \in local_reqs' /\ lcd'[k] = lcd[k]
    BY <2>2, <1>1, <1>5, <1>6, Zenon
  <2> QED
    BY <2>1, <2>3, Zenon
<1>18. RefsCounted'
  BY <1>9, Zenon DEF ReqInv, RefsCounted
<1> QED
  BY <1>10, <1>11, <1>12, <1>13, <1>14, <1>15, <1>16, <1>17, <1>18, Zenon DEF ReqInv

\* Every step keeps the invariant of the requests.
LEMMA ReqNext == ReqInv /\ [Next]_vars => ReqInv'
<1> SUFFICES ASSUME ReqInv, [Next]_vars PROVE ReqInv'
  BY Zenon
<1>a. asked \in [Lcds -> Nat] /\ shifted \in Seq([lcd : Lcds, reply : HostReplies])
  BY Zenon DEF ReqInv, ReqTypes
<1>1. ASSUME NEW p \in LocalProcs, NEW t \in Targets, NEW i \in Immediate, NEW m \in Timed,
             pmix_server_get(p, t, i, m)
      PROVE  ReqInv'
  <2>1. UNCHANGED <<clients, gone>> /\ p \in clients \ gone /\ <<p, t>> \notin waiting /\ m \in BOOLEAN
    BY <1>1, DirectModexAssumption, Zenon DEF pmix_server_get, nsvars
  <2>2. CASE GetNow(p, t, i)
    BY <2>1, <2>2, <1>a, IdleStep, Zenon DEF GetNow, reqvars
  <2>3. CASE GetJoins(p, t, m)
    BY <2>1, <2>3, JoinStep, Zenon
  <2>4. CASE GetTracked(p, t, m)
    BY <2>1, <2>4, TrackStep, Zenon
  <2>5. CASE GetRefused(p, t, m)
    BY <2>1, <2>5, RefuseStep, Zenon
  <2> QED
    BY <1>1, <2>2, <2>3, <2>4, <2>5, Zenon DEF pmix_server_get
<1>2. ASSUME NEW p \in LocalProcs, NEW s \in Scopes, pmix_server_commit(p, s) PROVE ReqInv'
  <2>1. UNCHANGED <<clients, gone, asked, shifted>>
    BY <1>2, Zenon DEF pmix_server_commit, nsvars
  <2>2. ASSUME NEW l \in local_reqs, pmix_pending_resolve(l, "SUCCESS") PROVE ReqInv'
    <3>1. l \in Lcds
      BY Zenon DEF ReqInv, ReqTypes
    <3>2. lcd[l].refs > 0
      BY FS_CardinalityType DEF ReqInv, RefsCounted
    <3> QED
      BY <2>1, <2>2, <3>1, <3>2, <1>a, ResolveStep, Zenon
  <2>3. CASE UNCHANGED <<local_reqs, lcd, waiting>>
    BY <2>1, <2>3, <1>a, IdleStep, Zenon
  <2> QED
    BY <1>2, <2>2, <2>3, Zenon DEF pmix_server_commit
<1>3. ASSUME NEW l \in Lcds, NEW r \in lcd[l].loc_reqs, get_timeout(l, r) PROVE ReqInv'
  BY <1>3, TimeoutStep, Zenon
<1>4. ASSUME NEW l \in Lcds, NEW h \in HostReplies, dmdx_cbfunc(l, h) PROVE ReqInv'
  <2>1. asked' \in [Lcds -> Nat]
    <3>1. asked[l] \in Nat /\ asked[l] > 0 /\ asked' = [asked EXCEPT ![l] = asked[l] - 1]
      BY <1>a, <1>4, Zenon DEF dmdx_cbfunc
    <3> QED
      BY <3>1, <1>a
  <2>2. shifted' \in Seq([lcd : Lcds, reply : HostReplies])
    BY <1>a, <1>4 DEF dmdx_cbfunc
  <2> QED
    BY <1>4, <2>1, <2>2, IdleStep, Zenon DEF dmdx_cbfunc, nsvars
<1>5. CASE _process_dmdx_reply
  <2> DEFINE l == Head(shifted).lcd
  <2>1. PICK status : pmix_pending_resolve(l, status)
    BY <1>5, Zenon DEF _process_dmdx_reply
  <2>2. UNCHANGED <<clients, gone, asked>> /\ lcd[l].refs > 0 /\ shifted # <<>> /\ shifted' = Tail(shifted)
    BY <1>5, Zenon DEF _process_dmdx_reply
  <2>3. l \in Lcds /\ shifted' \in Seq([lcd : Lcds, reply : HostReplies])
    <3>1. /\ Head(shifted) \in [lcd : Lcds, reply : HostReplies]
          /\ Tail(shifted) \in Seq([lcd : Lcds, reply : HostReplies])
      BY <2>2, <1>a, HeadTail, Zenon
    <3> QED
      BY <3>1, <2>2, Zenon
  <2> HIDE DEF l
  <2> QED
    BY <2>1, <2>2, <2>3, <1>a, ResolveStep, Zenon
<1>6. ASSUME NEW t \in HostTargets, _dmodex_req(t) PROVE ReqInv'
  BY <1>6, <1>a, IdleStep, Zenon DEF _dmodex_req, nsvars, reqvars
<1>7. ASSUME NEW n \in Nspaces, _register_nspace(n) PROVE ReqInv'
  BY <1>7, <1>a, IdleStep, Zenon DEF _register_nspace, reqvars
<1>8. ASSUME NEW p \in LocalProcs, _register_client(p) PROVE ReqInv'
  <2>1. UNCHANGED <<clients, gone, shifted>>
    BY <1>8, Zenon DEF _register_client
  <2>2. CASE pmix_pending_nspace_requests(p.ns, ranks \cup {p})
    BY <2>1, <2>2, NspaceStep, Zenon
  <2>3. CASE UNCHANGED <<local_reqs, lcd, asked, waiting>>
    BY <2>1, <2>3, <1>a, IdleStep, Zenon
  <2> QED
    BY <1>8, <2>2, <2>3, Zenon DEF _register_client
<1>9. ASSUME NEW p \in LocalProcs, Connect(p) PROVE ReqInv'
  BY <1>9, ConnectStep, Zenon DEF Connect, reqvars
<1>10. ASSUME NEW p \in LocalProcs, Finalize(p) PROVE ReqInv'
  BY <1>10, PurgeStep, Zenon DEF Finalize
<1>11. ASSUME NEW p \in LocalProcs, pmix_ptl_base_lost_connection(p) PROVE ReqInv'
  BY <1>11, PurgeStep, Zenon DEF pmix_ptl_base_lost_connection
<1>12. CASE UNCHANGED vars
  BY <1>12, <1>a, IdleStep, Zenon DEF vars
<1> QED
  BY <1>1, <1>2, <1>3, <1>4, <1>5, <1>6, <1>7, <1>8, <1>9, <1>10, <1>11, <1>12, Zenon DEF Next

\* Always: a process whose get was not answered has its request on an lcd that
\* whoever resolves it finds, or waits for data of a process that left; and a
\* listed lcd counts its references (pmix_server_get, get_timeout,
\* pmix_pending_resolve, pmix_server_purge_events), whatever times out, leaves,
\* is lost or refused.
THEOREM ModexCounted == Spec => []RequestsCounted
<1>1. ReqInv => RequestsCounted
  <2> SUFFICES ASSUME ReqInv PROVE RequestersTracked /\ ReferencesCounted
    BY Zenon DEF RequestsCounted
  <2>1. RequestersTracked
    BY Zenon DEF ReqInv, ReqTypes, WaitsListed, RequestersTracked
  <2>2. ReferencesCounted
    BY Zenon DEF ReqInv, RefsCounted, ReferencesCounted
  <2> QED
    BY <2>1, <2>2, Zenon
<1> QED
  BY <1>1, ReqInit, ReqNext, PTL DEF Spec

-----------------------------------------------------------------------------
(* The rest of the types.                                                  *)

\* Local processes of n that have not left it.
Present(n) == {p \in LocalOf(n) : p \in ranks \/ p \notin gone}

\* An nspace with registered processes counts at least those that have not left:
\* this keeps the count of pmix_ptl_base_lost_connection from going below zero.
LocalsCounted ==
    \A n \in Nspaces :
        \/ nlocalprocs[n] >= Cardinality(Present(n))
        \/ nlocalprocs[n] = 0 /\ \A p \in ranks : p.ns # n

NsTypes ==
    /\ nspaces \subseteq Nspaces
    /\ nlocalprocs \in [Nspaces -> Nat]
    /\ all_registered \in [Nspaces -> BOOLEAN]
    /\ ranks \subseteq LocalProcs /\ clients \subseteq ranks /\ gone \subseteq LocalProcs

StoreTypes ==
    /\ committed \subseteq clients /\ local \subseteq LocalProcs
    /\ remote \subseteq LocalProcs \cup Targets
    /\ job_info \in [Nspaces -> Nspaces \cup {NONE}]
    /\ remote_pnd \in [HostTargets -> 0 .. MaxPending]

AnswerTypes == \A a \in answers : a.proc \in LocalProcs \cup {HOST} /\ a.target \in Targets \cup HostTargets

\* The local processes of an nspace are finitely many, and local processes have one.
LEMMA LocalFinite ==
    /\ \A n \in Nspaces : IsFiniteSet(LocalOf(n)) /\ Cardinality(LocalOf(n)) \in Nat
    /\ \A p \in LocalProcs : p.ns \in Nspaces /\ p \in LocalOf(p.ns)
<1>1. \A n \in Nspaces : IsFiniteSet(LocalOf(n))
  BY DirectModexAssumption, FS_Subset, Zenon DEF LocalOf
<1>2. \A n \in Nspaces : Cardinality(LocalOf(n)) \in Nat
  BY <1>1, FS_CardinalityType, Zenon
<1>3. \A p \in LocalProcs : p.ns \in Nspaces
  BY DirectModexAssumption, Zenon
<1> QED
  BY <1>1, <1>2, <1>3, Zenon DEF LocalOf

\* So are those present.
LEMMA PresentFinite ==
    ASSUME NEW n \in Nspaces
    PROVE  /\ IsFiniteSet(Present(n)) /\ Cardinality(Present(n)) \in Nat
           /\ Cardinality(Present(n)) <= Cardinality(LocalOf(n))
<1>1. IsFiniteSet(LocalOf(n)) /\ Present(n) \subseteq LocalOf(n)
  BY LocalFinite, Zenon DEF Present
<1> QED
  BY <1>1, FS_Subset, FS_CardinalityType, Zenon

\* Initially no process of an nspace is counted.
LEMMA NsInit == Init => NsTypes /\ LocalsCounted
<1> SUFFICES ASSUME Init PROVE NsTypes /\ LocalsCounted
  BY Zenon
<1>1. NsTypes
  BY LocalFinite, DirectModexAssumption, Zenon DEF Init, NsTypes
<1>2. ASSUME NEW n \in Nspaces, n \in Known0 PROVE nlocalprocs[n] >= Cardinality(Present(n))
  <2>1. nlocalprocs[n] = Cardinality(LocalOf(n))
    BY <1>2, Zenon DEF Init
  <2> QED
    BY <2>1, PresentFinite, LocalFinite, Zenon
<1>3. ASSUME NEW n \in Nspaces, n \notin Known0 PROVE nlocalprocs[n] = 0 /\ \A p \in ranks : p.ns # n
  BY <1>3, DirectModexAssumption, Zenon DEF Init
<1> QED
  BY <1>1, <1>2, <1>3, Zenon DEF LocalsCounted

\* Steps that leave the processes alone.
LEMMA NsIdle ==
    ASSUME NsTypes, LocalsCounted, UNCHANGED <<nlocalprocs, all_registered, ranks, clients, gone>>,
           nspaces' \subseteq Nspaces
    PROVE  NsTypes' /\ LocalsCounted'
<1>1. \A n \in Nspaces : Present(n)' = Present(n)
  BY Zenon DEF Present
<1> QED
  BY <1>1, Zenon DEF NsTypes, LocalsCounted

\* Every step keeps the count of local processes.
LEMMA NsNext == NsTypes /\ LocalsCounted /\ ReqInv /\ [Next]_vars => NsTypes' /\ LocalsCounted'
<1> SUFFICES ASSUME NsTypes, LocalsCounted, ReqInv, [Next]_vars PROVE NsTypes' /\ LocalsCounted'
  BY Zenon
<1>a. nspaces \subseteq Nspaces
  BY Zenon DEF NsTypes
<1>1. CASE UNCHANGED nsvars
  BY <1>1, <1>a, NsIdle, Zenon DEF nsvars
<1>2. CASE _process_dmdx_reply
  <2> DEFINE l == Head(shifted).lcd
  <2>1. /\ nspaces' = nspaces \cup {lcd[l].proc.ns} /\ lcd[l].refs > 0 /\ shifted # <<>>
        /\ UNCHANGED <<nlocalprocs, all_registered, ranks, clients, gone>>
    BY <1>2, Zenon DEF _process_dmdx_reply
  <2>2. l \in Lcds
    <3>1. Head(shifted) \in [lcd : Lcds, reply : HostReplies]
      BY <2>1, HeadTail, Zenon DEF ReqInv, ReqTypes
    <3> QED
      BY <3>1, Zenon
  <2> HIDE DEF l
  <2>3. lcd[l].proc.ns \in Nspaces
    BY <2>1, <2>2, DirectModexAssumption, Zenon DEF ReqInv, Allocated
  <2> QED
    BY <2>1, <2>3, <1>a, NsIdle, Zenon
<1>3. ASSUME NEW n \in Nspaces, _register_nspace(n) PROVE NsTypes' /\ LocalsCounted'
  <2>1. /\ nspaces' = nspaces \cup {n} /\ UNCHANGED <<ranks, clients, gone>>
        /\ nlocalprocs' = [nlocalprocs EXCEPT ![n] = Cardinality(LocalOf(n))]
        /\ all_registered' = [all_registered EXCEPT ![n] = (LocalOf(n) = {})]
    BY <1>3, Zenon DEF _register_nspace
  <2>2. \A k \in Nspaces : Present(k)' = Present(k)
    BY <2>1, Zenon DEF Present
  <2>3. NsTypes'
    BY <2>1, LocalFinite, Zenon DEF NsTypes
  <2>4. nlocalprocs'[n] >= Cardinality(Present(n))
    <3>1. nlocalprocs'[n] = Cardinality(LocalOf(n))
      BY <2>1, Zenon DEF NsTypes
    <3> QED
      BY <3>1, PresentFinite, LocalFinite, Zenon
  <2>5. \A k \in Nspaces : k # n => nlocalprocs'[k] = nlocalprocs[k]
    BY <2>1, Zenon DEF NsTypes
  <2> QED
    BY <2>1, <2>2, <2>3, <2>4, <2>5, Zenon DEF LocalsCounted
<1>4. ASSUME NEW p \in LocalProcs, _register_client(p) PROVE NsTypes' /\ LocalsCounted'
  <2>1. /\ ranks' = ranks \cup {p} /\ p \notin gone /\ nlocalprocs[p.ns] > 0
        /\ UNCHANGED <<nspaces, nlocalprocs, clients, gone>>
        /\ \/ all_registered' = [all_registered EXCEPT ![p.ns] = TRUE]
           \/ UNCHANGED all_registered
    BY <1>4, Zenon DEF _register_client
  <2>2. \A k \in Nspaces : Present(k)' = Present(k)
    BY <2>1, Zenon DEF Present
  <2>3. NsTypes'
    BY <2>1, LocalFinite, Zenon DEF NsTypes
  <2> QED
    BY <2>1, <2>2, <2>3 DEF LocalsCounted
<1>5. ASSUME NEW p \in LocalProcs, Connect(p) PROVE NsTypes' /\ LocalsCounted'
  <2>1. /\ clients' = clients \cup {p} /\ p \in ranks
        /\ UNCHANGED <<nspaces, nlocalprocs, all_registered, ranks, gone>>
    BY <1>5, Zenon DEF Connect
  <2>2. \A k \in Nspaces : Present(k)' = Present(k)
    BY <2>1, Zenon DEF Present
  <2> QED
    BY <2>1, <2>2, Zenon DEF NsTypes, LocalsCounted
<1>6. ASSUME NEW p \in LocalProcs, Finalize(p) PROVE NsTypes' /\ LocalsCounted'
  <2>1. /\ gone' = gone \cup {p} /\ p \in ranks
        /\ UNCHANGED <<nspaces, nlocalprocs, all_registered, ranks, clients>>
    BY <1>6, Zenon DEF Finalize, NsTypes
  <2>2. \A k \in Nspaces : Present(k)' = Present(k)
    BY <2>1, Zenon DEF Present
  <2> QED
    BY <2>1, <2>2, Zenon DEF NsTypes, LocalsCounted
<1>7. ASSUME NEW p \in LocalProcs, pmix_ptl_base_lost_connection(p) PROVE NsTypes' /\ LocalsCounted'
  <2> DEFINE n == p.ns
  <2>1. /\ gone' = gone \cup {p} /\ ranks' = ranks \ {p} /\ clients' = clients \ {p} /\ p \in ranks
        /\ nlocalprocs' = [nlocalprocs EXCEPT ![n] = nlocalprocs[n] - 1]
        /\ UNCHANGED <<nspaces, all_registered>>
    BY <1>7, Zenon DEF pmix_ptl_base_lost_connection, NsTypes
  <2>2. n \in Nspaces /\ p \in LocalOf(n) /\ \A k \in Nspaces : p \in LocalOf(k) => k = n
    BY LocalFinite, Zenon DEF LocalOf
  <2> HIDE DEF n
  <2>3. p \in Present(n) /\ Present(n)' = Present(n) \ {p} /\ \A k \in Nspaces : k # n => Present(k)' = Present(k)
    BY <2>1, <2>2, Zenon DEF Present
  <2>4. /\ IsFiniteSet(Present(n)) /\ Cardinality(Present(n)) \in Nat
        /\ Cardinality(Present(n) \ {p}) = Cardinality(Present(n)) - 1 /\ Cardinality(Present(n) \ {p}) \in Nat
    BY <2>2, <2>3, PresentFinite, FS_RemoveElement, FS_CardinalityType, Zenon
  <2>5. nlocalprocs[n] \in Nat /\ nlocalprocs[n] >= Cardinality(Present(n))
    BY <2>1, <2>2, Zenon DEF NsTypes, LocalsCounted, n
  <2>6. /\ nlocalprocs[n] - 1 \in Nat /\ nlocalprocs[n] - 1 >= Cardinality(Present(n) \ {p})
    BY <2>4, <2>5
  <2>7. NsTypes'
    BY <2>1, <2>2, <2>6, Zenon DEF NsTypes
  <2>8. nlocalprocs'[n] = nlocalprocs[n] - 1 /\ \A k \in Nspaces : k # n => nlocalprocs'[k] = nlocalprocs[k]
    BY <2>1, <2>2, Zenon DEF NsTypes
  <2>9. \A k \in Nspaces : \/ nlocalprocs'[k] >= Cardinality(Present(k)')
                           \/ nlocalprocs'[k] = 0 /\ \A q \in ranks' : q.ns # k
    <3>1. nlocalprocs'[n] >= Cardinality(Present(n)')
      BY <2>3, <2>6, <2>8, Zenon
    <3>2. ASSUME NEW k \in Nspaces, k # n
          PROVE  \/ nlocalprocs'[k] >= Cardinality(Present(k)')
                 \/ nlocalprocs'[k] = 0 /\ \A q \in ranks' : q.ns # k
      BY <3>2, <2>1, <2>3, <2>8, Zenon DEF LocalsCounted
    <3> QED
      BY <3>1, <3>2, Zenon
  <2> QED
    BY <2>7, <2>9, Zenon DEF LocalsCounted
<1>8. CASE UNCHANGED vars
  BY <1>8, <1>a, NsIdle, Zenon DEF vars
<1>9. ASSUME NEW p \in LocalProcs, NEW t \in Targets, NEW i \in Immediate, NEW m \in Timed,
             pmix_server_get(p, t, i, m)
      PROVE  UNCHANGED nsvars
  BY <1>9, Zenon DEF pmix_server_get
<1>10. ASSUME NEW p \in LocalProcs, NEW s \in Scopes, pmix_server_commit(p, s) PROVE UNCHANGED nsvars
  BY <1>10, Zenon DEF pmix_server_commit
<1>11. ASSUME NEW l \in Lcds, NEW r \in lcd[l].loc_reqs, get_timeout(l, r) PROVE UNCHANGED nsvars
  BY <1>11, Zenon DEF get_timeout
<1>12. ASSUME NEW l \in Lcds, NEW h \in HostReplies, dmdx_cbfunc(l, h) PROVE UNCHANGED nsvars
  BY <1>12, Zenon DEF dmdx_cbfunc
<1>13. ASSUME NEW t \in HostTargets, _dmodex_req(t) PROVE UNCHANGED nsvars
  BY <1>13, Zenon DEF _dmodex_req
<1> QED
  BY <1>1, <1>2, <1>3, <1>4, <1>5, <1>6, <1>7, <1>8, <1>9, <1>10, <1>11, <1>12, <1>13, Zenon DEF Next

\* Initially nothing is stored or answered.
LEMMA StoreInit == Init => StoreTypes /\ AnswerTypes
  BY DirectModexAssumption DEF Init, StoreTypes, AnswerTypes

\* The answers to the requests of an lcd.
LEMMA AnswersTyped ==
    ASSUME ReqInv, NEW l \in Lcds, NEW status
    PROVE  \A a \in AnswersTo(l, status) : a.proc \in LocalProcs /\ a.target \in Targets
<1>1. \A r \in lcd[l].loc_reqs : r.proc \in LocalProcs /\ lcd[l].proc \in Targets
  BY LcdFields, Zenon DEF ReqInv, ReqTypes, Allocated
<1> QED
  BY <1>1 DEF AnswersTo, Answer

\* Every step answers processes with what they may be told.
LEMMA AnswerNext == AnswerTypes /\ ReqInv /\ [Next]_vars => AnswerTypes'
<1> SUFFICES ASSUME AnswerTypes, ReqInv, [Next]_vars PROVE AnswerTypes'
  BY Zenon
<1>a. CASE answers' = {}
  BY <1>a, Zenon DEF AnswerTypes
<1>b. ASSUME NEW p \in LocalProcs \cup {HOST}, NEW t \in Targets \cup HostTargets, NEW status, NEW stale,
             answers' = {Answer(p, t, status, stale)}
      PROVE  AnswerTypes'
  BY <1>b DEF AnswerTypes, Answer
<1>c. ASSUME NEW l \in Lcds, NEW status, answers' \subseteq AnswersTo(l, status) PROVE AnswerTypes'
  BY <1>c, AnswersTyped, Zenon DEF AnswerTypes
<1>d. ASSUME NEW l \in Lcds, NEW status, pmix_pending_resolve(l, status) PROVE AnswerTypes'
  <2>1. PICK st : answers' = AnswersTo(l, st)
    BY <1>d, Zenon DEF pmix_pending_resolve
  <2> QED
    BY <2>1, <1>c, Zenon
<1>1. ASSUME NEW p \in LocalProcs, NEW t \in Targets, NEW i \in Immediate, NEW m \in Timed,
             pmix_server_get(p, t, i, m)
      PROVE  AnswerTypes'
  <2>1. CASE GetNow(p, t, i)
    BY <2>1, <1>b, Zenon DEF GetNow
  <2>2. CASE GetJoins(p, t, m) \/ GetTracked(p, t, m)
    BY <2>2, <1>a, Zenon DEF GetJoins, GetTracked
  <2>3. CASE GetRefused(p, t, m)
    BY <2>3, <1>b, Zenon DEF GetRefused
  <2> QED
    BY <1>1, <2>1, <2>2, <2>3, Zenon DEF pmix_server_get
<1>2. ASSUME NEW p \in LocalProcs, NEW s \in Scopes, pmix_server_commit(p, s) PROVE AnswerTypes'
  <2>1. local_reqs \subseteq Lcds
    BY Zenon DEF ReqInv, ReqTypes
  <2> QED
    BY <1>2, <2>1, <1>a, <1>d, Zenon DEF pmix_server_commit
<1>3. ASSUME NEW l \in Lcds, NEW r \in lcd[l].loc_reqs, get_timeout(l, r) PROVE AnswerTypes'
  BY <1>3, <1>c, Zenon DEF get_timeout
<1>4. ASSUME NEW l \in Lcds, NEW h \in HostReplies, dmdx_cbfunc(l, h) PROVE AnswerTypes'
  BY <1>4, <1>a, Zenon DEF dmdx_cbfunc
<1>5. CASE _process_dmdx_reply
  <2> DEFINE l == Head(shifted).lcd
  <2>1. PICK status : pmix_pending_resolve(l, status) /\ shifted # <<>>
    BY <1>5, Zenon DEF _process_dmdx_reply
  <2>2. l \in Lcds
    <3>1. Head(shifted) \in [lcd : Lcds, reply : HostReplies]
      BY <2>1, HeadTail, Zenon DEF ReqInv, ReqTypes
    <3> QED
      BY <3>1, Zenon
  <2> HIDE DEF l
  <2> QED
    BY <2>1, <2>2, <1>d, Zenon
<1>6. ASSUME NEW t \in HostTargets, _dmodex_req(t) PROVE AnswerTypes'
  BY <1>6, <1>a, <1>b, Zenon DEF _dmodex_req
<1>7. ASSUME NEW n \in Nspaces, _register_nspace(n) PROVE AnswerTypes'
  BY <1>7, <1>a, Zenon DEF _register_nspace
<1>8. ASSUME NEW p \in LocalProcs, _register_client(p) PROVE AnswerTypes'
  <2>1. CASE answers' = {}
    BY <2>1, <1>a, Zenon
  <2>2. CASE pmix_pending_nspace_requests(p.ns, ranks \cup {p})
    <3>1. PICK refused \in SUBSET local_reqs : answers' = UNION {AnswersTo(l, "NOT_FOUND") : l \in refused}
      BY <2>2, Zenon DEF pmix_pending_nspace_requests
    <3>2. refused \subseteq Lcds
      BY Zenon DEF ReqInv, ReqTypes
    <3> QED
      BY <3>1, <3>2, AnswersTyped DEF AnswerTypes
  <2> QED
    BY <1>8, <2>1, <2>2, Zenon DEF _register_client
<1>9. ASSUME NEW p \in LocalProcs, Connect(p) \/ Finalize(p) \/ pmix_ptl_base_lost_connection(p)
      PROVE  AnswerTypes'
  BY <1>9, <1>a, Zenon DEF Connect, Finalize, pmix_ptl_base_lost_connection
<1>10. CASE UNCHANGED vars
  BY <1>10, Zenon DEF vars, AnswerTypes
<1> QED
  BY <1>1, <1>2, <1>3, <1>4, <1>5, <1>6, <1>7, <1>8, <1>9, <1>10, Zenon DEF Next

\* Every step keeps the types of the store.
LEMMA StoreNext == StoreTypes /\ NsTypes /\ ReqInv /\ [Next]_vars => StoreTypes'
<1> SUFFICES ASSUME StoreTypes, NsTypes, ReqInv, [Next]_vars PROVE StoreTypes'
  BY Zenon
<1>a. CASE UNCHANGED <<clients, store, remote_pnd>>
  BY <1>a, Zenon DEF StoreTypes, store
<1>1. ASSUME NEW p \in LocalProcs, NEW t \in Targets, NEW i \in Immediate, NEW m \in Timed,
             pmix_server_get(p, t, i, m)
      PROVE  StoreTypes'
  BY <1>1, <1>a, Zenon DEF pmix_server_get, nsvars
<1>2. ASSUME NEW p \in LocalProcs, NEW s \in Scopes, pmix_server_commit(p, s) PROVE StoreTypes'
  <2>1. /\ p \in clients /\ UNCHANGED <<clients, job_info>>
        /\ committed' = committed \cup {p} /\ local' \subseteq local \cup {p} /\ remote' \subseteq remote \cup {p}
    BY <1>2, Zenon DEF pmix_server_commit, nsvars
  <2>2. remote_pnd' \in [HostTargets -> 0 .. MaxPending]
    <3>1. \A t \in HostTargets : remote_pnd[t] \in 0 .. MaxPending
      BY Zenon DEF StoreTypes
    <3>2. 0 \in 0 .. MaxPending
      BY DirectModexAssumption
    <3>3. remote_pnd' = [t \in HostTargets |-> IF t = p THEN 0 ELSE remote_pnd[t]]
      BY <1>2, Zenon DEF pmix_server_commit
    <3> QED
      BY <3>1, <3>2, <3>3, Zenon
  <2> QED
    BY <2>1, <2>2, Zenon DEF StoreTypes
<1>3. ASSUME NEW l \in Lcds, NEW r \in lcd[l].loc_reqs, get_timeout(l, r) PROVE StoreTypes'
  BY <1>3, <1>a, Zenon DEF get_timeout, nsvars
<1>4. ASSUME NEW l \in Lcds, NEW h \in HostReplies, dmdx_cbfunc(l, h) PROVE StoreTypes'
  BY <1>4, <1>a, Zenon DEF dmdx_cbfunc, nsvars
<1>5. CASE _process_dmdx_reply
  <2> DEFINE l == Head(shifted).lcd
             t == lcd[l].proc
  <2>1. shifted # <<>> /\ lcd[l].refs > 0 /\ UNCHANGED <<clients, committed, local, remote_pnd>>
    BY <1>5, Zenon DEF _process_dmdx_reply
  <2>2. l \in Lcds
    <3>1. Head(shifted) \in [lcd : Lcds, reply : HostReplies]
      BY <2>1, HeadTail, Zenon DEF ReqInv, ReqTypes
    <3> QED
      BY <3>1, Zenon
  <2>3. t \in Targets /\ t.ns \in Nspaces
    BY <2>1, <2>2, DirectModexAssumption, Zenon DEF ReqInv, Allocated
  <2>4. remote' \subseteq remote \cup {t}
    BY <1>5, Zenon DEF _process_dmdx_reply
  <2>5. \/ job_info' = [job_info EXCEPT ![t.ns] = t.ns]
        \/ \E n \in Transferred(l) : job_info' = [job_info EXCEPT ![t.ns] = job_info[n]]
        \/ UNCHANGED job_info
    BY <1>5, Zenon DEF _process_dmdx_reply
  <2>6. Transferred(l) \subseteq Nspaces
    BY <2>2, LcdFields, LocalFinite, Zenon DEF Transferred, ReqInv, ReqTypes
  <2> HIDE DEF l, t
  <2>7. job_info' \in [Nspaces -> Nspaces \cup {NONE}]
    BY <2>3, <2>5, <2>6, Zenon DEF StoreTypes
  <2> QED
    BY <2>1, <2>3, <2>4, <2>7, Zenon DEF StoreTypes
<1>6. ASSUME NEW t \in HostTargets, _dmodex_req(t) PROVE StoreTypes'
  <2>1. UNCHANGED <<clients, store>>
    BY <1>6, Zenon DEF _dmodex_req, nsvars
  <2>2. CASE remote_pnd[t] < MaxPending /\ remote_pnd' = [remote_pnd EXCEPT ![t] = remote_pnd[t] + 1]
    <3>1. remote_pnd[t] + 1 \in 0 .. MaxPending
      BY <2>2, DirectModexAssumption DEF StoreTypes
    <3>2. remote_pnd' \in [HostTargets -> 0 .. MaxPending]
      BY <2>2, <3>1, Zenon DEF StoreTypes
    <3> QED
      BY <2>1, <3>2, Zenon DEF StoreTypes, store
  <2>3. CASE UNCHANGED remote_pnd
    BY <2>1, <2>3, <1>a, Zenon
  <2> QED
    BY <1>6, <2>2, <2>3, Zenon DEF _dmodex_req
<1>7. ASSUME NEW n \in Nspaces, _register_nspace(n) PROVE StoreTypes'
  BY <1>7, Zenon DEF _register_nspace, StoreTypes
<1>8. ASSUME NEW p \in LocalProcs, _register_client(p) PROVE StoreTypes'
  BY <1>8, <1>a, Zenon DEF _register_client
<1>9. ASSUME NEW p \in LocalProcs, Connect(p) PROVE StoreTypes'
  BY <1>9, Zenon DEF Connect, StoreTypes, store
<1>10. ASSUME NEW p \in LocalProcs, Finalize(p) PROVE StoreTypes'
  BY <1>10, <1>a, Zenon DEF Finalize
<1>11. ASSUME NEW p \in LocalProcs, pmix_ptl_base_lost_connection(p) PROVE StoreTypes'
  BY <1>11, Zenon DEF pmix_ptl_base_lost_connection, StoreTypes
<1>12. CASE UNCHANGED vars
  BY <1>12, <1>a, Zenon DEF vars, store
<1> QED
  BY <1>1, <1>2, <1>3, <1>4, <1>5, <1>6, <1>7, <1>8, <1>9, <1>10, <1>11, <1>12, Zenon DEF Next

\* All of it.
TypeInv == ReqInv /\ NsTypes /\ LocalsCounted /\ StoreTypes /\ AnswerTypes

\* The types hold initially.
LEMMA TypeInvInit == Init => TypeInv
  BY ReqInit, NsInit, StoreInit, Zenon DEF TypeInv

\* Every step keeps the types.
LEMMA TypeInvNext == TypeInv /\ [Next]_vars => TypeInv'
  BY ReqNext, NsNext, StoreNext, AnswerNext, Zenon DEF TypeInv

\* The inductive types give those that TLC checks.
LEMMA TypeInvTypes == TypeInv => TypeOK
  BY Zenon DEF TypeInv, TypeOK, ReqInv, ReqTypes, LcdRecords, NsTypes, StoreTypes, AnswerTypes

\* The types are kept; above all, the number of local processes of an nspace,
\* which pmix_ptl_base_lost_connection decrements, does not fall below zero.
THEOREM ModexTypes == Spec => []TypeOK
  BY TypeInvInit, TypeInvNext, TypeInvTypes, PTL DEF Spec

-----------------------------------------------------------------------------
(* Where all nspaces are known and nothing fails.                          *)

QuietTypes ==
    /\ nspaces = Nspaces /\ gone = {}
    /\ \A n \in Nspaces : nlocalprocs[n] = Cardinality(LocalOf(n))
    /\ \A n \in Nspaces : all_registered[n] <=> LocalOf(n) \subseteq ranks
    /\ Registered0 \subseteq ranks
    /\ \A l \in Lcds : \A r \in lcd[l].loc_reqs : ~r.timer
    /\ committed \subseteq local

\* The host holds each lcd once, listed, for a process of another node.
HeldOnce ==
    /\ \A l \in Lcds :
          asked[l] > 0 \/ Queued(l) =>
            /\ l \in local_reqs
            /\ lcd[l].proc \notin LocalProcs
            /\ all_registered[lcd[l].proc.ns]
    /\ \A l \in Lcds : asked[l] \in {0, 1} /\ (asked[l] = 1 => ~Queued(l))
    /\ \A i, j \in DOMAIN shifted : shifted[i].lcd = shifted[j].lcd => i = j

\* One listed lcd for a target, which is a process.
ListedOnce ==
    /\ \A l, k \in local_reqs : lcd[l].proc = lcd[k].proc => l = k
    /\ \A l \in local_reqs : lcd[l].proc.rank # WILDCARD

QuietInv == QuietTypes /\ HeldOnce /\ ListedOnce /\ RequestsDriven /\ DeferredNeeded /\ NoStaleAnswer

\* Initially nothing is asked and nothing deferred.
LEMMA QuietInit == ASSUME Quiet PROVE Init => QuietInv
<1> SUFFICES ASSUME Init PROVE QuietInv
  BY Zenon
<1>1. QuietTypes
  <2>1. \A l \in Lcds : lcd[l].loc_reqs = {}
    BY Zenon DEF Init, NoLcd
  <2> QED
    BY <2>1, Zenon DEF Quiet, Init, QuietTypes
<1>2. HeldOnce
  BY DEF Init, HeldOnce, Queued
<1> QED
  BY <1>1, <1>2 DEF Init, QuietInv, ListedOnce, RequestsDriven, DeferredNeeded, NoStaleAnswer

\* The host's answer is queued.
LEMMA AppendQueued ==
    ASSUME NEW S, shifted \in Seq(S), NEW e \in S, shifted' = Append(shifted, e)
    PROVE  /\ \A k : Queued(k)' <=> Queued(k) \/ k = e.lcd
           /\ (\A i, j \in DOMAIN shifted : shifted[i].lcd = shifted[j].lcd => i = j) /\ ~Queued(e.lcd) =>
                 \A i, j \in DOMAIN shifted' : shifted'[i].lcd = shifted'[j].lcd => i = j
<1> DEFINE n == Len(shifted)
<1>1. n \in Nat /\ DOMAIN shifted = 1 .. n /\ DOMAIN shifted' = 1 .. (n + 1)
  OBVIOUS
<1>2. shifted'[n + 1] = e /\ \A i \in 1 .. n : shifted'[i] = shifted[i]
  OBVIOUS
<1> HIDE DEF n
<1>3. \A i \in DOMAIN shifted' : i \in DOMAIN shifted \/ i = n + 1
  BY <1>1
<1>4. \A i \in DOMAIN shifted : i \in DOMAIN shifted' /\ shifted'[i] = shifted[i]
  BY <1>1, <1>2
<1>5. n + 1 \in DOMAIN shifted'
  BY <1>1
<1> QED
  BY <1>2, <1>3, <1>4, <1>5 DEF Queued

\* The first queued answer is taken.
LEMMA TailQueued ==
    ASSUME NEW S, shifted \in Seq(S), shifted # <<>>, shifted' = Tail(shifted)
    PROVE  /\ Queued(Head(shifted).lcd)
           /\ \A k : Queued(k)' => Queued(k)
           /\ \A k : Queued(k) /\ k # Head(shifted).lcd => Queued(k)'
           /\ (\A i, j \in DOMAIN shifted : shifted[i].lcd = shifted[j].lcd => i = j) =>
                 /\ \A k : k = Head(shifted).lcd => ~Queued(k)'
                 /\ \A i, j \in DOMAIN shifted' : shifted'[i].lcd = shifted'[j].lcd => i = j
<1> DEFINE n == Len(shifted)
<1>1. n \in Nat /\ n > 0 /\ DOMAIN shifted = 1 .. n
  BY HeadTail
<1>2. DOMAIN shifted' = 1 .. (n - 1) /\ \A i \in 1 .. (n - 1) : shifted'[i] = shifted[i + 1]
  BY HeadTail, Zenon
<1>3. Head(shifted) = shifted[1]
  BY HeadTail, Zenon
<1> HIDE DEF n
<1>4. 1 \in DOMAIN shifted
  BY <1>1
<1>5. \A i \in DOMAIN shifted' : i + 1 \in DOMAIN shifted /\ i + 1 # 1 /\ shifted'[i] = shifted[i + 1]
  BY <1>1, <1>2
<1>6. \A i \in DOMAIN shifted : i # 1 => i - 1 \in DOMAIN shifted' /\ shifted'[i - 1] = shifted[i]
  BY <1>1, <1>2
<1>7. \A i, j \in DOMAIN shifted' : i + 1 = j + 1 => i = j
  BY <1>1, <1>2
<1>8. Queued(Head(shifted).lcd) /\ \A k : Queued(k)' => Queued(k)
  BY <1>3, <1>4, <1>5, Zenon DEF Queued
<1>9. \A k : Queued(k) /\ k # Head(shifted).lcd => Queued(k)'
  BY <1>3, <1>6, Zenon DEF Queued
<1>10. ASSUME \A i, j \in DOMAIN shifted : shifted[i].lcd = shifted[j].lcd => i = j
       PROVE  /\ \A k : k = Head(shifted).lcd => ~Queued(k)'
              /\ \A i, j \in DOMAIN shifted' : shifted'[i].lcd = shifted'[j].lcd => i = j
  BY <1>10, <1>3, <1>4, <1>5, <1>7 DEF Queued
<1> QED
  BY <1>8, <1>9, <1>10, Zenon

\* What does not happen in this setting, and what the host is asked for.
LEMMA QuietFacts ==
    ASSUME Quiet, TypeInv, QuietInv
    PROVE  /\ \A l \in Lcds : Timers(l) = {}
           /\ \A n \in Nspaces : ~_register_nspace(n)
           /\ \A p \in LocalProcs : ~Finalize(p) /\ ~pmix_ptl_base_lost_connection(p)
           /\ \A p, t, m : ~GetRefused(p, t, m)
           /\ \A t \in Targets : AskHost(t) => all_registered[t.ns] /\ t \notin LocalProcs
           /\ \A t \in Targets : t.ns \in Nspaces
           /\ \A l \in local_reqs : l \in Lcds /\ lcd[l].refs > 0 /\ lcd[l].proc \in Targets
           /\ \A l \in local_reqs : \A r \in lcd[l].loc_reqs : ~r.done
<1>1. \A l \in Lcds : Timers(l) = {}
  BY Zenon DEF QuietInv, QuietTypes, Timers
<1>2. ASSUME NEW n \in Nspaces, _register_nspace(n) PROVE FALSE
  <2>1. ~all_registered[n] /\ Cardinality(LocalOf(n)) = 0
    BY <1>2, Zenon DEF _register_nspace, QuietInv, QuietTypes
  <2>2. LocalOf(n) = {}
    BY <2>1, LocalFinite, FS_EmptySet, Zenon
  <2> QED
    BY <2>1, <2>2, Zenon DEF QuietInv, QuietTypes
<1>3. \A p \in LocalProcs : ~Finalize(p) /\ ~pmix_ptl_base_lost_connection(p)
  BY Zenon DEF Finalize, pmix_ptl_base_lost_connection, Quiet, QuietInv, QuietTypes
<1>4. \A p, t, m : ~GetRefused(p, t, m)
  BY Zenon DEF GetRefused, Quiet
<1>5. \A t \in Targets : t.ns \in Nspaces
  BY DirectModexAssumption, Zenon
<1>6. ASSUME NEW t \in Targets, AskHost(t) PROVE all_registered[t.ns] /\ t \notin LocalProcs
  <2>1. all_registered[t.ns] /\ LocalOf(t.ns) \subseteq ranks /\ ~Here(t)
    BY <1>5, <1>6, Zenon DEF AskHost, QuietInv, QuietTypes
  <2>2. ASSUME t \in LocalProcs PROVE FALSE
    <3>1. t \in LocalOf(t.ns) /\ t \in ranks
      BY <2>1, <2>2, Zenon DEF LocalOf
    <3>2. Cardinality(LocalOf(t.ns)) > 0
      BY <3>1, <1>5, LocalFinite, FS_EmptySet
    <3> QED
      BY <2>1, <3>1, <3>2, <1>5, Zenon DEF Here, QuietInv, QuietTypes
  <2> QED
    BY <2>1, <2>2, Zenon
<1>7. ASSUME NEW l \in local_reqs PROVE l \in Lcds /\ lcd[l].refs > 0 /\ lcd[l].proc \in Targets
  <2>1. l \in Lcds
    BY Zenon DEF TypeInv, ReqInv, ReqTypes
  <2>2. lcd[l].refs > 0
    BY FS_CardinalityType DEF TypeInv, ReqInv, RefsCounted
  <2> QED
    BY <2>1, <2>2, Zenon DEF TypeInv, ReqInv, Allocated
<1>8. \A l \in local_reqs : \A r \in lcd[l].loc_reqs : ~r.done
  BY Zenon DEF TypeInv, ReqInv, AnsweredTogether
<1> QED
  BY <1>1, <1>2, <1>3, <1>4, <1>5, <1>6, <1>7, <1>8, Zenon

\* A step that changes neither the requests nor what drives them.
LEMMA QuietIdle ==
    ASSUME QuietInv, UNCHANGED <<nsvars, store, reqvars>>, NoStaleAnswer',
           \A t \in HostTargets : remote_pnd'[t] > 0 => remote_pnd[t] > 0 \/ Deferred(t)
    PROVE  QuietInv'
<1>1. \A l : Queued(l)' <=> Queued(l)
  BY Zenon DEF reqvars, Queued
<1>2. \A t : Deferred(t)' <=> Deferred(t)
  BY Zenon DEF nsvars, store, Deferred
<1>3. QuietTypes' /\ HeldOnce' /\ ListedOnce'
  BY <1>1, Zenon DEF nsvars, store, reqvars, QuietInv, QuietTypes, HeldOnce, ListedOnce
<1>4. RequestsDriven'
  BY <1>1, Zenon DEF nsvars, store, reqvars, QuietInv, RequestsDriven
<1>5. DeferredNeeded'
  BY <1>2, Zenon DEF QuietInv, DeferredNeeded
<1> QED
  BY <1>3, <1>4, <1>5, Zenon DEF QuietInv

\* A request joins a listed lcd.
LEMMA QuietJoin ==
    ASSUME Quiet, TypeInv, QuietInv, UNCHANGED <<nsvars, store, remote_pnd>>, NEW p, NEW t, GetJoins(p, t, FALSE)
    PROVE  QuietInv'
<1>1. PICK l \in local_reqs : lcd[l].proc = t /\ lcd' = [lcd EXCEPT ![l] = Join(lcd[l], Request(p, FALSE, FALSE))]
  BY Zenon DEF GetJoins
<1>2. UNCHANGED <<local_reqs, asked, shifted>> /\ answers' = {}
  BY Zenon DEF GetJoins
<1>3. l \in Lcds /\ lcd \in [Lcds -> LcdRecords] /\ local_reqs \subseteq Lcds
  BY Zenon DEF TypeInv, ReqInv, ReqTypes
<1>4. /\ \A k \in Lcds : lcd'[k].proc = lcd[k].proc
      /\ lcd'[l].loc_reqs = lcd[l].loc_reqs \cup {Request(p, FALSE, FALSE)}
      /\ \A k \in Lcds : k # l => lcd'[k].loc_reqs = lcd[k].loc_reqs
  BY <1>1, <1>3, Zenon DEF Join
<1>5. ~Request(p, FALSE, FALSE).timer
  BY Zenon DEF Request
<1>6. \A k : Queued(k)' <=> Queued(k)
  BY <1>2, Zenon DEF Queued
<1>7. QuietTypes'
  BY <1>4, <1>5, Zenon DEF nsvars, store, QuietInv, QuietTypes
<1>8. HeldOnce'
  BY <1>2, <1>4, <1>6, Zenon DEF nsvars, QuietInv, HeldOnce
<1>9. ListedOnce'
  BY <1>2, <1>3, <1>4 DEF QuietInv, ListedOnce
<1>10. RequestsDriven'
  BY <1>2, <1>3, <1>4, <1>6, Zenon DEF nsvars, store, QuietInv, RequestsDriven
<1>11. DeferredNeeded' /\ NoStaleAnswer'
  BY <1>2, Zenon DEF nsvars, store, QuietInv, DeferredNeeded, Deferred, NoStaleAnswer
<1> QED
  BY <1>7, <1>8, <1>9, <1>10, <1>11, Zenon DEF QuietInv

\* An lcd is made for a request.
LEMMA QuietTrack ==
    ASSUME Quiet, TypeInv, QuietInv, UNCHANGED <<nsvars, store, remote_pnd>>, NEW p, NEW t \in Targets,
           ~(Decidable(t) /\ (t.rank = WILDCARD \/ CanSatisfy(t))), GetTracked(p, t, FALSE)
    PROVE  QuietInv'
<1> DEFINE d == [proc |-> t, loc_reqs |-> {Request(p, FALSE, FALSE)}, refs |-> 2]
<1>1. PICK l \in Lcds : /\ Unused(l)
                        /\ local_reqs' = local_reqs \cup {l}
                        /\ lcd' = [lcd EXCEPT ![l] = d]
                        /\ asked' = [asked EXCEPT ![l] = IF AskHost(t) THEN 1 ELSE 0]
  BY Zenon DEF GetTracked
<1>2. /\ l \notin local_reqs /\ ~Queued(l) /\ UNCHANGED shifted /\ answers' = {}
      /\ \A k \in local_reqs : lcd[k].proc # t
  BY <1>1, Zenon DEF GetTracked, Unused
<1>3. lcd \in [Lcds -> LcdRecords] /\ local_reqs \subseteq Lcds /\ asked \in [Lcds -> Nat]
  BY Zenon DEF TypeInv, ReqInv, ReqTypes
<1>4. lcd'[l] = d /\ \A k \in Lcds : k # l => lcd'[k] = lcd[k]
  BY <1>1, <1>3, Zenon
<1>5. d.proc = t /\ \A r \in d.loc_reqs : ~r.timer
  BY DEF Request
<1> HIDE DEF d
<1>6. asked'[l] = (IF AskHost(t) THEN 1 ELSE 0) /\ \A k \in Lcds : k # l => asked'[k] = asked[k]
  BY <1>1, <1>3, Zenon
<1>7. \A k : Queued(k)' <=> Queued(k)
  BY <1>2, Zenon DEF Queued
<1>8. t.ns \in Nspaces /\ t.rank # WILDCARD /\ (all_registered[t.ns] => ~CanSatisfy(t))
  BY QuietFacts, Zenon DEF Decidable, QuietInv, QuietTypes
<1>9. AskHost(t) => all_registered[t.ns] /\ t \notin LocalProcs
  BY QuietFacts, Zenon
<1>10. QuietTypes'
  BY <1>4, <1>5, Zenon DEF nsvars, store, QuietInv, QuietTypes
<1>11. HeldOnce'
  <2>1. asked'[l] > 0 \/ Queued(l)' => t \notin LocalProcs /\ all_registered[t.ns]
    BY <1>2, <1>6, <1>7, <1>9
  <2>2. \A k \in Lcds : asked'[k] > 0 \/ Queued(k)' =>
           k \in local_reqs' /\ lcd'[k].proc \notin LocalProcs /\ all_registered'[lcd'[k].proc.ns]
    BY <2>1, <1>1, <1>4, <1>5, <1>6, <1>7, Zenon DEF nsvars, QuietInv, HeldOnce
  <2>3. \A k \in Lcds : asked'[k] \in {0, 1} /\ (asked'[k] = 1 => ~Queued(k)')
    BY <1>2, <1>6, <1>7, Zenon DEF QuietInv, HeldOnce
  <2> QED
    BY <2>2, <2>3, <1>2, Zenon DEF QuietInv, HeldOnce
<1>12. ListedOnce'
  <2>1. \A k \in local_reqs : k \in Lcds /\ k # l /\ lcd'[k] = lcd[k]
    BY <1>2, <1>3, <1>4, Zenon
  <2>2. \A k \in local_reqs : lcd'[k].proc # t /\ lcd'[k].proc.rank # WILDCARD
    BY <1>2, <2>1, Zenon DEF QuietInv, ListedOnce
  <2>3. \A j, k \in local_reqs : lcd'[j].proc = lcd'[k].proc => j = k
    BY <2>1, Zenon DEF QuietInv, ListedOnce
  <2>4. lcd'[l].proc = t /\ \A k \in local_reqs' : k \in local_reqs \/ k = l
    BY <1>1, <1>4, <1>5, Zenon
  <2> QED BY <1>8, <2>2, <2>3, <2>4, Zenon DEF ListedOnce
<1>13. RequestsDriven'
  <2>1. \/ asked'[l] > 0
        \/ t \in ranks \ committed
        \/ ~all_registered[t.ns] /\ ~(LocalOf(t.ns) \subseteq ranks \cup gone)
    <3>1. CASE ~all_registered[t.ns]
      BY <3>1, <1>8, Zenon DEF QuietInv, QuietTypes
    <3>2. CASE all_registered[t.ns] /\ Here(t)
      <4>1. t \in ranks /\ ~(t \in clients \cap committed \cap local)
        BY <3>2, <1>8, Zenon DEF CanSatisfy, Here
      <4>2. committed \subseteq clients /\ committed \subseteq local
        BY Zenon DEF TypeInv, StoreTypes, QuietInv, QuietTypes
      <4> QED
        BY <4>1, <4>2, Zenon
    <3>3. CASE all_registered[t.ns] /\ ~Here(t)
      BY <3>3, <1>6 DEF AskHost
    <3> QED
      BY <3>1, <3>2, <3>3, Zenon
  <2>2. ASSUME NEW k \in local_reqs
        PROVE  k \in Lcds /\ k # l /\ lcd'[k] = lcd[k] /\ asked'[k] = asked[k]
    BY <1>2, <1>3, <1>4, <1>6, Zenon
  <2> QED
    BY <2>1, <2>2, <1>1, <1>4, <1>5, <1>7, Zenon DEF nsvars, store, QuietInv, RequestsDriven
<1>14. DeferredNeeded' /\ NoStaleAnswer'
  BY <1>2, Zenon DEF nsvars, store, QuietInv, DeferredNeeded, Deferred, NoStaleAnswer
<1> QED
  BY <1>10, <1>11, <1>12, <1>13, <1>14, Zenon DEF QuietInv

\* What resolving a listed lcd does.
LEMMA QuietResolve ==
    ASSUME Quiet, TypeInv, QuietInv, NEW l \in local_reqs, NEW status, pmix_pending_resolve(l, status)
    PROVE  /\ local_reqs' = local_reqs \ {l} /\ NoStaleAnswer'
           /\ \A k \in Lcds : k # l => lcd'[k] = lcd[k]
           /\ \A k \in Lcds : \A r \in lcd'[k].loc_reqs : ~r.timer
<1> DEFINE reqs == {Request(r.proc, r.timer, TRUE) : r \in lcd[l].loc_reqs}
           d == WithReqs(lcd[l], reqs)
<1>1. local_reqs' = local_reqs \ {l} /\ lcd' = [lcd EXCEPT ![l] = Release(d)]
  BY Zenon DEF pmix_pending_resolve
<1>2. lcd \in [Lcds -> LcdRecords] /\ l \in Lcds /\ lcd[l] \in LcdRecords /\ lcd[l].refs > 0
  BY QuietFacts, Zenon DEF TypeInv, ReqInv, ReqTypes
<1>3. reqs \in SUBSET Requests /\ \A r \in reqs : ~r.timer
  <2>1. \A r \in lcd[l].loc_reqs : r \in Requests /\ ~r.timer
    BY <1>2, LcdFields, Zenon DEF QuietInv, QuietTypes
  <2>2. ASSUME NEW q \in reqs PROVE q \in Requests /\ ~q.timer
    <3>1. PICK r \in lcd[l].loc_reqs : q = Request(r.proc, r.timer, TRUE)
      BY Zenon
    <3>2. r \in Requests /\ ~r.timer
      BY <2>1, Zenon
    <3> QED
      BY <3>1, <3>2, Zenon DEF Request, Requests
  <2> QED
    BY <2>2, Zenon
<1> HIDE DEF reqs
<1>4. d \in LcdRecords /\ d.refs > 0 /\ d.loc_reqs = reqs
  BY <1>2, <1>3, WithReqsFacts, Zenon
<1> HIDE DEF d
<1>5. Release(d).loc_reqs \subseteq reqs
  BY <1>4, ReleaseFacts, Zenon
<1>6. lcd'[l] = Release(d) /\ \A k \in Lcds : k # l => lcd'[k] = lcd[k]
  BY <1>1, <1>2, Zenon
<1>7. \A k \in Lcds : \A r \in lcd'[k].loc_reqs : ~r.timer
  BY <1>3, <1>5, <1>6, Zenon DEF QuietInv, QuietTypes
<1>8. NoStaleAnswer'
  <2>1. PICK st : answers' = AnswersTo(l, st)
    BY Zenon DEF pmix_pending_resolve
  <2>2. \A r \in lcd[l].loc_reqs : ~r.done
    BY QuietFacts, Zenon
  <2> QED
    BY <2>1, <2>2 DEF NoStaleAnswer, AnswersTo, Answer
<1> QED
  BY <1>1, <1>6, <1>7, <1>8, Zenon

\* A process commits.
LEMMA QuietCommit ==
    ASSUME Quiet, TypeInv, QuietInv, NEW p \in LocalProcs, NEW s \in Scopes, pmix_server_commit(p, s)
    PROVE  QuietInv'
<1>1. /\ UNCHANGED <<nsvars, job_info, asked, shifted>> /\ p \in clients
      /\ committed' = committed \cup {p} /\ local \subseteq local' /\ p \in local'
      /\ remote_pnd' = [t \in HostTargets |-> IF t = p THEN 0 ELSE remote_pnd[t]]
  BY Zenon DEF pmix_server_commit, Quiet
<1>2. \A k : Queued(k)' <=> Queued(k)
  BY <1>1, Zenon DEF Queued
<1> DEFINE Effect == /\ local_reqs' \subseteq local_reqs /\ NoStaleAnswer'
                     /\ \A k \in local_reqs : lcd[k].proc # p => k \in local_reqs'
                     /\ \A k \in local_reqs' : k \in Lcds /\ lcd'[k] = lcd[k] /\ lcd[k].proc # p
                     /\ \A k \in Lcds : \A r \in lcd'[k].loc_reqs : ~r.timer
<1>3. Effect
  <2>1. ASSUME NEW l \in local_reqs, lcd[l].proc = p, pmix_pending_resolve(l, "SUCCESS") PROVE Effect
    <3>1. /\ local_reqs' = local_reqs \ {l} /\ NoStaleAnswer'
          /\ \A k \in Lcds : k # l => lcd'[k] = lcd[k]
          /\ \A k \in Lcds : \A r \in lcd'[k].loc_reqs : ~r.timer
      BY <2>1, QuietResolve, Zenon
    <3>2. local_reqs \subseteq Lcds /\ \A k \in local_reqs : lcd[k].proc = p => k = l
      BY <2>1, Zenon DEF QuietInv, ListedOnce, TypeInv, ReqInv, ReqTypes
    <3> QED
      BY <3>1, <3>2, <2>1, Zenon
  <2>2. ASSUME \A l \in local_reqs : lcd[l].proc # p, answers' = {}, UNCHANGED <<local_reqs, lcd, waiting>>
        PROVE  Effect
    BY <2>2, Zenon DEF QuietInv, QuietTypes, NoStaleAnswer, TypeInv, ReqInv, ReqTypes
  <2> HIDE DEF Effect
  <2> QED
    BY <2>1, <2>2, Zenon DEF pmix_server_commit
<1>4. QuietTypes'
  BY <1>1, <1>3, Zenon DEF nsvars, QuietInv, QuietTypes
<1>5. HeldOnce'
  <2>1. ASSUME NEW k \in Lcds, asked[k] > 0 \/ Queued(k)
        PROVE  k \in local_reqs' /\ lcd'[k].proc \notin LocalProcs /\ all_registered[lcd'[k].proc.ns]
    BY <2>1, <1>3, Zenon DEF QuietInv, HeldOnce
  <2> QED
    BY <2>1, <1>1, <1>2, Zenon DEF nsvars, QuietInv, HeldOnce
<1>6. ListedOnce'
  BY <1>3, Zenon DEF QuietInv, ListedOnce
<1>7. RequestsDriven'
  BY <1>1, <1>2, <1>3, Zenon DEF nsvars, QuietInv, RequestsDriven
<1>8. DeferredNeeded'
  BY <1>1 DEF nsvars, QuietInv, DeferredNeeded, Deferred
<1> QED
  BY <1>3, <1>4, <1>5, <1>6, <1>7, <1>8, Zenon DEF QuietInv

\* The host answers.
LEMMA QuietAnswer ==
    ASSUME Quiet, TypeInv, QuietInv, NEW l \in Lcds, NEW h \in HostReplies, dmdx_cbfunc(l, h)
    PROVE  QuietInv'
<1> DEFINE e == [lcd |-> l, reply |-> h]
<1>1. /\ asked[l] > 0 /\ asked' = [asked EXCEPT ![l] = asked[l] - 1] /\ shifted' = Append(shifted, e)
      /\ answers' = {} /\ UNCHANGED <<nsvars, store, local_reqs, lcd, remote_pnd>>
  BY Zenon DEF dmdx_cbfunc
<1>2. asked \in [Lcds -> Nat] /\ shifted \in Seq([lcd : Lcds, reply : HostReplies]) /\ local_reqs \subseteq Lcds
  BY Zenon DEF TypeInv, ReqInv, ReqTypes
<1>3. asked[l] = 1 /\ ~Queued(l) /\ l \in local_reqs
  BY <1>1, <1>2 DEF QuietInv, HeldOnce
<1>4. asked'[l] = 0 /\ \A k \in Lcds : k # l => asked'[k] = asked[k]
  BY <1>1, <1>2, <1>3
<1>5. e \in [lcd : Lcds, reply : HostReplies] /\ e.lcd = l
  BY Zenon
<1> HIDE DEF e
<1>6. /\ \A k : Queued(k)' <=> Queued(k) \/ k = l
      /\ \A i, j \in DOMAIN shifted' : shifted'[i].lcd = shifted'[j].lcd => i = j
  BY <1>1, <1>2, <1>3, <1>5, AppendQueued, Zenon DEF QuietInv, HeldOnce
<1>7. HeldOnce'
  BY <1>1, <1>3, <1>4, <1>6 DEF nsvars, QuietInv, HeldOnce
<1>8. RequestsDriven'
  BY <1>1, <1>2, <1>4, <1>6, Zenon DEF nsvars, store, QuietInv, RequestsDriven
<1>9. QuietTypes' /\ ListedOnce' /\ DeferredNeeded' /\ NoStaleAnswer'
  BY <1>1, Zenon DEF nsvars, store, QuietInv, QuietTypes, ListedOnce, DeferredNeeded, Deferred, NoStaleAnswer
<1> QED
  BY <1>7, <1>8, <1>9, Zenon DEF QuietInv

\* The host's answer is processed.
LEMMA QuietReply ==
    ASSUME Quiet, TypeInv, QuietInv, _process_dmdx_reply
    PROVE  QuietInv'
<1> DEFINE l == Head(shifted).lcd
<1>1. /\ shifted # <<>> /\ shifted' = Tail(shifted) /\ UNCHANGED <<asked, remote_pnd>>
      /\ UNCHANGED <<nlocalprocs, all_registered, ranks, clients, gone, committed, local>>
      /\ nspaces' = nspaces \cup {lcd[l].proc.ns}
      /\ \E status : pmix_pending_resolve(l, status)
  BY Zenon DEF _process_dmdx_reply
<1>2. shifted \in Seq([lcd : Lcds, reply : HostReplies]) /\ local_reqs \subseteq Lcds
  BY Zenon DEF TypeInv, ReqInv, ReqTypes
<1>3. /\ Queued(l)
      /\ \A k : Queued(k)' => Queued(k)
      /\ \A k : Queued(k) /\ k # l => Queued(k)'
      /\ \A k : k = l => ~Queued(k)'
      /\ \A i, j \in DOMAIN shifted' : shifted'[i].lcd = shifted'[j].lcd => i = j
  BY <1>1, <1>2, TailQueued, Zenon DEF QuietInv, HeldOnce
<1>4. l \in Lcds
  <2>1. Head(shifted) \in [lcd : Lcds, reply : HostReplies]
    BY <1>1, <1>2, HeadTail, Zenon
  <2> QED
    BY <2>1, Zenon
<1>5. PICK h \in Lcds : h = l
  BY <1>4, Zenon
<1> HIDE DEF l
<1>6. h \in local_reqs /\ asked[h] = 0
  BY <1>3, <1>5, Zenon DEF QuietInv, HeldOnce
<1>7. /\ local_reqs' = local_reqs \ {h} /\ NoStaleAnswer'
      /\ \A k \in Lcds : k # h => lcd'[k] = lcd[k]
      /\ \A k \in Lcds : \A r \in lcd'[k].loc_reqs : ~r.timer
  BY <1>1, <1>5, <1>6, QuietResolve, Zenon
<1>8. nspaces' = nspaces
  BY <1>1, <1>5, <1>6, QuietFacts, Zenon DEF QuietInv, QuietTypes
<1>9. QuietTypes'
  BY <1>1, <1>7, <1>8, Zenon DEF QuietInv, QuietTypes
<1>10. HeldOnce'
  <2>1. ASSUME NEW k \in Lcds, asked[k] > 0 \/ Queued(k)'
        PROVE  k \in local_reqs' /\ lcd'[k].proc \notin LocalProcs /\ all_registered[lcd'[k].proc.ns]
    <3>1. k # h /\ (asked[k] > 0 \/ Queued(k))
      BY <2>1, <1>3, <1>5, <1>6
    <3> QED
      BY <3>1, <1>7, Zenon DEF QuietInv, HeldOnce
  <2> QED
    BY <2>1, <1>1, <1>3, Zenon DEF QuietInv, HeldOnce
<1>11. ListedOnce'
  BY <1>2, <1>7 DEF QuietInv, ListedOnce
<1>12. RequestsDriven'
  <2>1. ASSUME NEW k \in local_reqs'
        PROVE  k \in local_reqs /\ lcd'[k] = lcd[k] /\ (Queued(k) => Queued(k)')
    BY <1>2, <1>3, <1>5, <1>7, Zenon
  <2> QED
    BY <2>1, <1>1, Zenon DEF QuietInv, RequestsDriven
<1>13. DeferredNeeded'
  BY <1>1, <1>8, Zenon DEF QuietInv, DeferredNeeded, Deferred
<1> QED
  BY <1>7, <1>9, <1>10, <1>11, <1>12, <1>13, Zenon DEF QuietInv

\* A client is registered.
LEMMA QuietRegister ==
    ASSUME Quiet, TypeInv, QuietInv, NEW p \in LocalProcs, _register_client(p)
    PROVE  QuietInv'
<1> DEFINE n == p.ns
           away == {l \in local_reqs : lcd[l].proc.ns = n /\ lcd[l].proc \notin ranks \cup {p}}
           Everyone == nlocalprocs[n] = Cardinality({q \in ranks \cup {p} : q.ns = n})
<1>1. /\ p \notin ranks /\ ranks' = ranks \cup {p}
      /\ UNCHANGED <<nspaces, nlocalprocs, clients, gone, store, shifted, remote_pnd>>
  BY Zenon DEF _register_client
<1>2. \/ /\ Everyone /\ all_registered' = [all_registered EXCEPT ![n] = TRUE]
         /\ pmix_pending_nspace_requests(n, ranks \cup {p})
      \/ ~Everyone /\ answers' = {} /\ UNCHANGED <<all_registered, local_reqs, lcd, asked, waiting>>
  BY Zenon DEF _register_client
<1>3. n \in Nspaces /\ p \in LocalOf(n) /\ \A k \in Nspaces : p \in LocalOf(k) => k = n
  BY LocalFinite, Zenon DEF LocalOf
<1>4. Everyone <=> LocalOf(n) \subseteq ranks \cup {p}
  <2> DEFINE T == {q \in ranks \cup {p} : q.ns = n}
  <2>1. T \in SUBSET LocalOf(n) /\ (T = LocalOf(n) <=> LocalOf(n) \subseteq ranks \cup {p})
    BY <1>3, Zenon DEF LocalOf, TypeInv, NsTypes
  <2>2. Cardinality(LocalOf(n)) = Cardinality(T) <=> T = LocalOf(n)
    <3> HIDE DEF T
    <3> QED
      BY <2>1, <1>3, LocalFinite, FS_Subset, Zenon
  <2>3. nlocalprocs[n] = Cardinality(LocalOf(n))
    BY <1>3, Zenon DEF QuietInv, QuietTypes
  <2> QED
    BY <2>1, <2>2, <2>3, Zenon
<1>5. ~all_registered[n] /\ all_registered \in [Nspaces -> BOOLEAN]
  BY <1>1, <1>3, Zenon DEF QuietInv, QuietTypes, TypeInv, NsTypes
<1>6. local_reqs \subseteq Lcds /\ asked \in [Lcds -> Nat] /\ lcd \in [Lcds -> LcdRecords] /\ \A k : Queued(k)' <=> Queued(k)
  BY <1>1, Zenon DEF TypeInv, ReqInv, ReqTypes, Queued
<1>7. /\ UNCHANGED <<local_reqs, lcd>> /\ NoStaleAnswer'
      /\ \A l \in Lcds : asked'[l] = IF Everyone /\ l \in away THEN asked[l] + 1 ELSE asked[l]
  <2>1. CASE Everyone /\ pmix_pending_nspace_requests(n, ranks \cup {p})
    <3>1. PICK refused \in SUBSET away :
             /\ refused # {} => "refuse" \in Events
             /\ asked' = [l \in Lcds |-> IF l \in away \ refused THEN asked[l] + 1 ELSE asked[l]]
             /\ answers' = UNION {AnswersTo(l, "NOT_FOUND") : l \in refused}
             /\ lcd' = [l \in Lcds |-> IF l \in refused THEN NoLcd ELSE lcd[l]]
             /\ local_reqs' = local_reqs \ refused
      BY <2>1, Zenon DEF pmix_pending_nspace_requests
    <3>2. refused = {}
      BY <3>1, Zenon DEF Quiet
    <3> HIDE DEF away, Everyone
    <3>3. lcd' = lcd /\ local_reqs' = local_reqs /\ answers' = {}
      BY <3>1, <3>2, <1>6, Zenon
    <3> QED
      BY <2>1, <3>1, <3>2, <3>3, Zenon DEF NoStaleAnswer
  <2>2. CASE ~Everyone /\ answers' = {} /\ UNCHANGED <<all_registered, local_reqs, lcd, asked, waiting>>
    BY <2>2, Zenon DEF NoStaleAnswer
  <2> HIDE DEF Everyone, away
  <2> QED
    BY <2>1, <2>2, <1>2, Zenon
<1>8. \A k \in Nspaces : all_registered'[k] <=> IF k = n THEN Everyone ELSE all_registered[k]
  <2> HIDE DEF Everyone
  <2> QED
    BY <1>2, <1>3, <1>5, Zenon
<1>9. \A l \in away : l \in local_reqs /\ l \in Lcds /\ lcd[l].proc.ns = n /\ lcd[l].proc \notin ranks \cup {p}
  BY <1>6, Zenon
<1>10. \A l \in local_reqs : l \notin away => lcd[l].proc.ns # n \/ lcd[l].proc \in ranks \cup {p}
  BY Zenon
<1> HIDE DEF Everyone, away, n
<1>11. \A l \in Lcds : lcd[l].proc.ns = n => asked[l] = 0 /\ ~Queued(l)
  BY <1>5, <1>6 DEF QuietInv, HeldOnce
<1>12. QuietTypes'
  <2>1. \A k \in Nspaces : all_registered'[k] <=> LocalOf(k) \subseteq ranks'
    BY <1>1, <1>3, <1>4, <1>8, Zenon DEF QuietInv, QuietTypes
  <2> QED
    BY <2>1, <1>1, <1>7, Zenon DEF store, QuietInv, QuietTypes
<1>13. HeldOnce'
  <2>1. ASSUME NEW l \in Lcds, asked'[l] > 0 \/ Queued(l)
        PROVE  l \in local_reqs /\ lcd[l].proc \notin LocalProcs /\ all_registered'[lcd[l].proc.ns]
    <3>1. CASE asked[l] > 0 \/ Queued(l)
      <4>1. l \in local_reqs /\ lcd[l].proc \notin LocalProcs /\ all_registered[lcd[l].proc.ns]
        BY <3>1, Zenon DEF QuietInv, HeldOnce
      <4>2. lcd[l].proc.ns \in Nspaces /\ lcd[l].proc.ns # n
        BY <4>1, <1>5, QuietFacts, Zenon
      <4> QED
        BY <4>1, <4>2, <1>8, Zenon
    <3>2. CASE Everyone /\ l \in away
      <4>1. lcd[l].proc \notin LocalProcs
        BY <3>2, <1>4, <1>9, Zenon DEF LocalOf
      <4> QED
        BY <3>2, <4>1, <1>3, <1>8, <1>9, Zenon
    <3> QED
      BY <2>1, <3>1, <3>2, <1>7, Zenon
  <2>2. \A l \in Lcds : asked'[l] \in {0, 1} /\ (asked'[l] = 1 => ~Queued(l))
    BY <1>7, <1>9, <1>11 DEF QuietInv, HeldOnce
  <2> QED
    BY <2>1, <2>2, <1>1, <1>6, <1>7, Zenon DEF QuietInv, HeldOnce
<1>14. ListedOnce'
  BY <1>7, Zenon DEF QuietInv, ListedOnce
<1>15. RequestsDriven'
  <2> SUFFICES ASSUME NEW l \in local_reqs
               PROVE  LET t == lcd[l].proc IN
                      \/ asked'[l] > 0 \/ Queued(l)
                      \/ t \in ranks' \ committed
                      \/ ~all_registered'[t.ns] /\ ~(LocalOf(t.ns) \subseteq ranks' \cup gone)
    BY <1>1, <1>6, <1>7, Zenon DEF store, RequestsDriven
  <2> DEFINE t == lcd[l].proc
  <2>0. l \in Lcds /\ t.ns \in Nspaces /\ gone = {}
    BY QuietFacts, Zenon DEF QuietInv, QuietTypes
  <2>1. CASE asked[l] > 0 \/ Queued(l)
    BY <2>0, <2>1, <1>6, <1>7
  <2>2. CASE t \in ranks \ committed
    BY <2>2, <1>1, Zenon
  <2>3. CASE t.ns # n /\ ~all_registered[t.ns] /\ ~(LocalOf(t.ns) \subseteq ranks \cup gone)
    BY <2>0, <2>3, <1>1, <1>3, <1>8, Zenon
  <2>4. CASE t.ns = n /\ ~Everyone
    BY <2>0, <2>4, <1>1, <1>4, <1>8, Zenon
  <2>5. CASE t.ns = n /\ Everyone /\ l \in away
    BY <2>0, <2>5, <1>6, <1>7
  <2>6. CASE t.ns = n /\ t \in ranks \cup {p} /\ t \notin ranks \ committed
    <3>1. committed \subseteq ranks /\ ranks \subseteq LocalProcs
      BY Zenon DEF TypeInv, NsTypes, StoreTypes
    <3>2. ASSUME t # p PROVE FALSE
      BY <2>6, <3>1, <3>2, <1>1, Zenon DEF Quiet, QuietInv, QuietTypes, n
    <3> QED
      BY <3>1, <3>2, <1>1, Zenon
  <2>7. \/ asked[l] > 0 \/ Queued(l)
        \/ t \in ranks \ committed
        \/ ~all_registered[t.ns] /\ ~(LocalOf(t.ns) \subseteq ranks \cup gone)
    BY Zenon DEF QuietInv, RequestsDriven
  <2> QED
    BY <2>1, <2>2, <2>3, <2>4, <2>5, <2>6, <2>7, <1>10, Zenon
<1>16. DeferredNeeded'
  <2>1. committed \subseteq ranks
    BY Zenon DEF TypeInv, NsTypes, StoreTypes
  <2> QED
    BY <2>1, <1>1, Zenon DEF store, QuietInv, DeferredNeeded, Deferred
<1> QED
  BY <1>7, <1>12, <1>13, <1>14, <1>15, <1>16, Zenon DEF QuietInv

\* Where nothing fails every step keeps QuietInv.
LEMMA QuietNext == ASSUME Quiet PROVE TypeInv /\ QuietInv /\ [Next]_vars => QuietInv'
<1> SUFFICES ASSUME TypeInv, QuietInv, [Next]_vars PROVE QuietInv'
  BY Zenon
<1>1. ASSUME NEW p \in LocalProcs, NEW t \in Targets, NEW i \in Immediate, NEW m \in Timed,
             pmix_server_get(p, t, i, m)
      PROVE  QuietInv'
  <2>1. UNCHANGED <<nsvars, store, remote_pnd>> /\ m = FALSE
    BY <1>1, Zenon DEF pmix_server_get, Quiet
  <2>2. CASE GetNow(p, t, i)
    <3>1. NoStaleAnswer' /\ UNCHANGED reqvars
      BY <2>2 DEF GetNow, NoStaleAnswer, Answer
    <3> QED
      BY <2>1, <3>1, QuietIdle, Zenon
  <2>3. CASE GetJoins(p, t, m)
    BY <2>1, <2>3, QuietJoin, Zenon
  <2>4. CASE GetTracked(p, t, m) /\ ~(Decidable(t) /\ (t.rank = WILDCARD \/ CanSatisfy(t)))
    BY <2>1, <2>4, QuietTrack, Zenon
  <2>5. ~GetRefused(p, t, m)
    BY QuietFacts, Zenon
  <2> QED
    BY <1>1, <2>2, <2>3, <2>4, <2>5, Zenon DEF pmix_server_get
<1>2. ASSUME NEW p \in LocalProcs, NEW s \in Scopes, pmix_server_commit(p, s) PROVE QuietInv'
  BY <1>2, QuietCommit, Zenon
<1>3. ASSUME NEW l \in Lcds, NEW r \in lcd[l].loc_reqs, get_timeout(l, r) PROVE FALSE
  BY <1>3, QuietFacts, Zenon DEF get_timeout
<1>4. ASSUME NEW l \in Lcds, NEW h \in HostReplies, dmdx_cbfunc(l, h) PROVE QuietInv'
  BY <1>4, QuietAnswer, Zenon
<1>5. CASE _process_dmdx_reply
  BY <1>5, QuietReply, Zenon
<1>6. ASSUME NEW t \in HostTargets, _dmodex_req(t) PROVE QuietInv'
  <2>1. UNCHANGED <<nsvars, store, reqvars>> /\ NoStaleAnswer'
    BY <1>6 DEF _dmodex_req, NoStaleAnswer, Answer
  <2>2. \A u \in HostTargets : remote_pnd'[u] > 0 => remote_pnd[u] > 0 \/ Deferred(u)
    BY <1>6, Zenon DEF _dmodex_req, TypeInv, StoreTypes
  <2> QED
    BY <2>1, <2>2, QuietIdle, Zenon
<1>7. ASSUME NEW n \in Nspaces, _register_nspace(n) PROVE FALSE
  BY <1>7, QuietFacts, Zenon
<1>8. ASSUME NEW p \in LocalProcs, _register_client(p) PROVE QuietInv'
  BY <1>8, QuietRegister, Zenon
<1>9. ASSUME NEW p \in LocalProcs, Connect(p) PROVE QuietInv'
  <2>1. /\ UNCHANGED <<nspaces, nlocalprocs, all_registered, ranks, gone, store, reqvars, remote_pnd>>
        /\ answers' = {}
    BY <1>9, Zenon DEF Connect
  <2>2. \A l : Queued(l)' <=> Queued(l)
    BY <2>1, Zenon DEF reqvars, Queued
  <2> QED
    BY <2>1, <2>2, Zenon DEF store, reqvars, QuietInv, QuietTypes, HeldOnce, ListedOnce, RequestsDriven, DeferredNeeded,
       Deferred, NoStaleAnswer
<1>10. ASSUME NEW p \in LocalProcs, Finalize(p) \/ pmix_ptl_base_lost_connection(p) PROVE FALSE
  BY <1>10, QuietFacts, Zenon
<1>11. CASE UNCHANGED vars
  <2>1. UNCHANGED <<nsvars, store, reqvars, remote_pnd>> /\ NoStaleAnswer'
    BY <1>11, Zenon DEF vars, nsvars, store, reqvars, QuietInv, NoStaleAnswer
  <2> QED
    BY <2>1, QuietIdle, Zenon
<1> QED
  BY <1>1, <1>2, <1>3, <1>4, <1>5, <1>6, <1>7, <1>8, <1>9, <1>10, <1>11, Zenon DEF Next

\* The references of what the host holds.
LEMMA QuietHeld == ASSUME TypeInv, QuietInv, Quiet PROVE HeldListed
<1> SUFFICES ASSUME NEW l \in Lcds
             PROVE  /\ asked[l] > 0 \/ Queued(l) => l \in local_reqs /\ lcd[l].refs > 0
                    /\ asked[l] + Cardinality({i \in DOMAIN shifted : shifted[i].lcd = l}) <= 1
  BY Zenon DEF HeldListed
<1>1. asked[l] > 0 \/ Queued(l) => l \in local_reqs /\ lcd[l].refs > 0
  BY QuietFacts, Zenon DEF QuietInv, HeldOnce
<1> DEFINE I == {i \in DOMAIN shifted : shifted[i].lcd = l}
<1>2. CASE I = {}
  <2>1. Cardinality(I) = 0 /\ asked[l] \in {0, 1}
    BY <1>2, FS_EmptySet, Zenon DEF QuietInv, HeldOnce
  <2> QED
    BY <1>1, <2>1
<1>3. CASE I # {}
  <2>1. PICK i : I = {i}
    BY <1>3 DEF QuietInv, HeldOnce
  <2>2. Cardinality(I) = 1
    BY <2>1, FS_Singleton, Zenon
  <2>3. asked[l] = 0
    BY <1>3, Zenon DEF QuietInv, HeldOnce, Queued
  <2> QED
    BY <1>1, <2>2, <2>3
<1> QED
  BY <1>2, <1>3, Zenon

\* Where all nspaces are known and nothing fails, no request is forgotten: it is
\* on the one listed lcd of its target, which the host, the target's commit or
\* the registration of its job will resolve, the host holds no freed lcd, and
\* requests of other nodes are deferred no longer than needed.
THEOREM ModexSound == ASSUME Quiet PROVE Spec => []RequestsSound
<1>1. TypeInv /\ QuietInv => RequestsSound
  <2> SUFFICES ASSUME TypeInv, QuietInv PROVE RequestsSound
    BY Zenon
  <2>1. RequestersTracked
    BY Zenon DEF TypeInv, ReqInv, ReqTypes, WaitsListed, RequestersTracked
  <2> QED
    BY <2>1, TypeInvTypes, QuietHeld, Zenon DEF RequestsSound, QuietInv
<1> QED
  BY <1>1, TypeInvInit, TypeInvNext, QuietInit, QuietNext, PTL DEF Spec

\* And no process is answered through the caddy of a request that get_cbfunc freed.
THEOREM ModexFresh == ASSUME Quiet PROVE Spec => []NoStaleAnswer
<1>1. QuietInv => NoStaleAnswer
  BY Zenon DEF QuietInv
<1> QED
  BY <1>1, TypeInvInit, TypeInvNext, QuietInit, QuietNext, PTL DEF Spec
=============================================================================
