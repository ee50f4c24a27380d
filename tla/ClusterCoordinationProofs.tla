--------------------- MODULE ClusterCoordinationProofs ---------------------
(***************************************************************************)
(* Proofs about ClusterCoordination for any peers, any number of tasks that *)
(* call each coordinator at once, any terms, announcements, delays and     *)
(* restarts.  A call under way keeps what it was made with, however the    *)
(* calls of other tasks come between its steps; a promotion's term was new *)
(* when it was taken and stays so until a store sets the peer back.        *)
(***************************************************************************)
EXTENDS ClusterCoordination, TLAPS

\* Fresh coordinators are well typed.
LEMMA TypeInit == Init => TypeOK
  BY BoundsAssumption DEF Init, TypeOK, Terms

\* What the calls of p are after a step of its task k, and that no other
\* peer's changed.
LEMMA ContinueCalls ==
  ASSUME TypeOK, NEW p \in Peers, NEW k \in Tasks[p],
         NEW c \in Call \cup {None}, Continue(p, k, c)
  PROVE  /\ calls' = [q \in Peers |-> calls'[q]]
         /\ \A q \in Peers : calls'[q] \in [Tasks[q] -> Call \cup {None}]
         /\ calls'[p][k] = c
         /\ \A j \in Tasks[p] : j # k => calls'[p][j] = calls[p][j]
         /\ \A q \in Peers : q # p => calls'[q] = calls[q]
<1>1. calls' = [calls EXCEPT ![p][k] = c]
  BY DEF Continue
<1>2. calls[p] \in [Tasks[p] -> Call \cup {None}]
  BY DEF TypeOK
<1>3. calls'[p] = [calls[p] EXCEPT ![k] = c]
  BY <1>1 DEF TypeOK
<1>4. \A q \in Peers : q # p => calls'[q] = calls[q]
  BY <1>1 DEF TypeOK
<1>5. calls' = [q \in Peers |-> calls'[q]]
  BY <1>1 DEF TypeOK
<1>6. QED
  BY <1>2, <1>3, <1>4, <1>5 DEF TypeOK

\* A call goes on as a call.
LEMMA NextStepIsCall ==
  ASSUME TypeOK, NEW p \in Peers, NEW k \in Tasks[p], calls[p][k] # None,
         NEW s \in {"takeRole", "nameSelf", "store", "follow", "resign"}
  PROVE  /\ calls[p][k] \in Call
         /\ calls[p][k].leader \in Peers /\ calls[p][k].term \in Terms
         /\ [calls[p][k] EXCEPT !.step = s] \in Call
         /\ [calls[p][k] EXCEPT !.step = s].step = s
         /\ [calls[p][k] EXCEPT !.step = s].leader = calls[p][k].leader
         /\ [calls[p][k] EXCEPT !.step = s].term = calls[p][k].term
<1>1. calls[p][k] \in Call
  BY DEF TypeOK
<1>2. QED
  BY <1>1 DEF Call

\* The next step of a call that a task is about to take, as ContinueCalls
\* gives it.
LEMMA GoesOn ==
  ASSUME TypeOK, NEW p \in Peers, NEW k \in Tasks[p], calls[p][k] # None,
         NEW s \in {"takeRole", "nameSelf", "store", "follow", "resign"},
         Continue(p, k, [calls[p][k] EXCEPT !.step = s])
  PROVE  /\ calls' = [q \in Peers |-> calls'[q]]
         /\ \A q \in Peers : calls'[q] \in [Tasks[q] -> Call \cup {None}]
         /\ calls'[p][k] # None /\ calls'[p][k].step = s
         /\ calls'[p][k].leader = calls[p][k].leader
         /\ calls'[p][k].term = calls[p][k].term
         /\ \A j \in Tasks[p] : j # k => calls'[p][j] = calls[p][j]
         /\ \A q \in Peers : q # p => calls'[q] = calls[q]
<1> DEFINE c == [calls[p][k] EXCEPT !.step = s]
<1>1. /\ c \in Call /\ c # None /\ c.step = s
      /\ c.leader = calls[p][k].leader /\ c.term = calls[p][k].term
  <2>1. /\ c \in Call /\ c.step = s
        /\ c.leader = calls[p][k].leader /\ c.term = calls[p][k].term
    <3>1. calls[p][k] \in Call
      BY DEF TypeOK
    <3>2. QED
      BY <3>1 DEF Call
  <2>2. QED
    BY <2>1, CallAssumption
<1>2. c \in Call \cup {None}
  BY <1>1
<1> HIDE DEF c
<1>3. Continue(p, k, c)
  BY DEF c
<1>4. QED
  BY <1>1, <1>2, <1>3, ContinueCalls

\* Every step keeps the coordinators well typed.
LEMMA TypeStep == TypeOK /\ [Next]_vars => TypeOK'
<1> SUFFICES ASSUME TypeOK, [Next]_vars PROVE TypeOK'
  OBVIOUS
<1>1. ASSUME NEW p \in Peers, NEW k \in Tasks[p], Promote(p, k) PROVE TypeOK'
  <2>1. NewTerm(p) \in Terms
    BY <1>1, BoundsAssumption DEF Promote, NewTerm, TypeOK, Terms
  <2>2. [step |-> "takeRole", leader |-> p, term |-> NewTerm(p)] \in Call
    BY <2>1 DEF Call
  <2>3. QED
    BY <1>1, <2>1, <2>2, ContinueCalls DEF Promote, TypeOK
<1>2. ASSUME NEW p \in Peers, NEW k \in Tasks[p], TakeRole(p, k) PROVE TypeOK'
  BY <1>2, GoesOn DEF TakeRole, At, TypeOK
<1>3. ASSUME NEW p \in Peers, NEW k \in Tasks[p], NameSelf(p, k) PROVE TypeOK'
  <2>1. calls[p][k].term \in Terms
    BY <1>3, NextStepIsCall DEF NameSelf, At
  <2>2. announced' \in SUBSET (Peers \X Terms)
    BY <1>3, <2>1 DEF NameSelf, TypeOK
  <2>3. QED
    BY <1>3, <2>2, ContinueCalls DEF NameSelf, Done, TypeOK
<1>4. ASSUME NEW p \in Peers, NEW k \in Tasks[p], NEW a \in announced,
             Heartbeat(p, k, a[1], a[2])
      PROVE  TypeOK'
  <2>1. [step |-> "store", leader |-> a[1], term |-> a[2]] \in Call
    BY DEF TypeOK, Call
  <2>2. QED
    BY <1>4, <2>1, ContinueCalls DEF Heartbeat, TypeOK
<1>5. ASSUME NEW p \in Peers, NEW k \in Tasks[p], StoreTerm(p, k) PROVE TypeOK'
  <2>1. calls[p][k].term \in Terms
    BY <1>5, NextStepIsCall DEF StoreTerm, At
  <2>2. QED
    BY <1>5, <2>1, GoesOn DEF StoreTerm, At, TypeOK
<1>6. ASSUME NEW p \in Peers, NEW k \in Tasks[p], Follow(p, k) PROVE TypeOK'
  BY <1>6, NextStepIsCall, ContinueCalls DEF Follow, Done, At, TypeOK
<1>7. ASSUME NEW p \in Peers, NEW k \in Tasks[p], Resign(p, k) PROVE TypeOK'
  BY <1>7, ContinueCalls DEF Resign, Done, At, TypeOK
<1>8. ASSUME NEW p \in Peers, Restart(p) PROVE TypeOK'
  BY <1>8, BoundsAssumption DEF Restart, TypeOK, Terms
<1>9. CASE UNCHANGED vars
  BY <1>9 DEF vars, TypeOK
<1>10. QED
  BY <1>1, <1>2, <1>3, <1>4, <1>5, <1>6, <1>7, <1>8, <1>9
  DEF Next, CallStep

\* The coordinators are always well typed, however many tasks call them.
THEOREM TypeCorrect == Spec => []TypeOK
<1>1. Init => TypeOK
  BY TypeInit
<1>2. TypeOK /\ [Next]_vars => TypeOK'
  BY TypeStep
<1>3. QED
  BY <1>1, <1>2, PTL DEF Spec

---------------------------------------------------------------------------
\* What IInv says of one peer.
Fine(p) ==
  /\ Recognises(p) /\ TermKnown(p) /\ TermsAreNew(p)
  /\ \A k \in Tasks[p] : CallConsistent(p, k)

\* The invariant is that of each peer.
LEMMA IInvIsFine == IInv <=> TypeOK /\ \A p \in Peers : Fine(p)
  BY DEF IInv, Fine, LeaderIsRecognised

\* A peer between calls needs nothing of them but that its term is known.
LEMMA IdleIsKnown ==
  ASSUME NEW p \in Peers, TermKnown(p), Idle(p)
  PROVE  term[p] = 0 \/ Announced(term[p])
  BY DEF TermKnown, Idle, Promoting, At

\* The invariant holds of fresh coordinators.
LEMMA IInvInit == Init => IInv
  BY TypeInit
  DEF Init, IInv, LeaderIsRecognised, Recognises, CallConsistent, TermKnown,
      TermsAreNew, Promoting, At

\* A step of one peer that announces at most itself keeps the invariant if it
\* keeps what the invariant says of that peer.
LEMMA LocalSteps ==
  ASSUME IInv, TypeOK', NEW p \in Peers,
         \A q \in Peers : q # p =>
           /\ term'[q] = term[q] /\ leader'[q] = leader[q]
           /\ role'[q] = role[q] /\ calls'[q] = calls[q]
           /\ epoch'[q] = epoch[q] /\ (q \in setBack' <=> q \in setBack),
         announced \subseteq announced',
         announced' \subseteq announced \cup ({p} \X Terms),
         Fine(p)'
  PROVE  IInv'
<1>1. ASSUME NEW q \in Peers, q # p PROVE Fine(q)'
  <2>1. Fine(q)
    BY IInvIsFine
  <2>2. \A t : <<q, t>> \in announced' <=> <<q, t>> \in announced
    BY <1>1
  <2>3. \A k \in Tasks[q] : \A s : At(q, k, s)' <=> At(q, k, s)
    BY <1>1 DEF At
  <2>4. \A k \in Tasks[q] : Promoting(q, k)' <=> Promoting(q, k)
    BY <2>3 DEF Promoting
  <2>5. Idle(q)' <=> Idle(q)
    BY <1>1 DEF Idle
  <2>6. \A t : Announced(t) => Announced(t)'
    BY DEF Announced
  <2>7. TermKnown(q)'
    BY <1>1, <2>1, <2>4, <2>6 DEF Fine, TermKnown
  <2>8. TermsAreNew(q)'
    BY <1>1, <2>1, <2>2, <2>4 DEF Fine, TermsAreNew
  <2>9. \A k \in Tasks[q] : CallConsistent(q, k)'
    BY <1>1, <2>1, <2>4 DEF Fine, CallConsistent
  <2>10. Recognises(q)'
    BY <1>1, <2>1, <2>3, <2>5, <2>6 DEF Fine, Recognises
  <2>11. QED
    BY <2>7, <2>8, <2>9, <2>10 DEF Fine
<1>2. QED
  <2>1. \A q \in Peers : Fine(q)'
    BY <1>1
  <2>2. QED
    BY <2>1 DEF IInv, Fine, LeaderIsRecognised

\* A step of task k of p leaves p's other tasks where they are.
LEMMA OthersStay ==
  ASSUME NEW p \in Peers, NEW k \in Tasks[p],
         \A j \in Tasks[p] : j # k => calls'[p][j] = calls[p][j]
  PROVE  \A j \in Tasks[p] : j # k =>
           /\ \A s : At(p, j, s)' <=> At(p, j, s)
           /\ Promoting(p, j)' <=> Promoting(p, j)
           /\ CallConsistent(p, j) /\ announced \subseteq announced' =>
                CallConsistent(p, j)'
  BY DEF At, Promoting, CallConsistent

\* A promotion takes a new term: a running peer that was not set back has
\* announced nothing higher than its term, and is about to announce nothing
\* higher.
LEMMA PromoteKeeps ==
  ASSUME IInv, TypeOK', NEW p \in Peers, NEW k \in Tasks[p], Promote(p, k)
  PROVE  IInv'
<1> DEFINE c == [step |-> "takeRole", leader |-> p, term |-> NewTerm(p)]
<1>1. TypeOK /\ Fine(p)
  BY IInvIsFine
<1>2. c \in Call
  BY <1>1, BoundsAssumption DEF Promote, NewTerm, TypeOK, Terms, Call
<1>3. /\ calls'[p][k] = c /\ c # None
      /\ \A j \in Tasks[p] : j # k => calls'[p][j] = calls[p][j]
      /\ \A q \in Peers : q # p => calls'[q] = calls[q]
  BY <1>1, <1>2, ContinueCalls, CallAssumption DEF Promote
<1>4. /\ term'[p] = term[p] + 1 /\ term[p] \in Int
      /\ calls'[p][k].term = term[p] + 1
      /\ \A q \in Peers : q # p => term'[q] = term[q]
      /\ UNCHANGED <<leader, role, announced, epoch, setBack>>
  BY <1>1, <1>3 DEF Promote, NewTerm, TypeOK, Terms
<1>5. Promoting(p, k)' /\ calls'[p][k].leader = p
  BY <1>3 DEF Promoting, At
<1>6. ~At(p, k, "nameSelf") /\ ~At(p, k, "resign") /\ ~Promoting(p, k)
  BY DEF At, Promote, Promoting
<1>7. Recognises(p)'
  BY <1>1, <1>3, <1>4, <1>6, OthersStay DEF Fine, Recognises, Idle, Announced
<1>8. TermKnown(p)'
  BY <1>4, <1>5 DEF TermKnown
<1>9. TermsAreNew(p)'
  <2> SUFFICES ASSUME epoch[p] = 0, p \notin setBack
               PROVE  TermsAreNew(p)'
    BY <1>4 DEF TermsAreNew
  <2>1. /\ \A t \in Terms : <<p, t>> \in announced => t <= term[p]
        /\ \A j \in Tasks[p] : Promoting(p, j) =>
             /\ calls[p][j].term <= term[p]
             /\ <<p, calls[p][j].term>> \notin announced
             /\ \A i \in Tasks[p] \ {j} :
                  Promoting(p, i) => calls[p][i].term # calls[p][j].term
    BY <1>1 DEF Fine, TermsAreNew
  <2>2. \A t \in Terms : <<p, t>> \in announced => t <= term[p] + 1
    BY <1>4, <2>1 DEF Terms
  <2>3. <<p, term[p] + 1>> \notin announced
    BY <1>1, <1>4, <2>1 DEF TypeOK, Terms
  <2>4. \A j \in Tasks[p] : j # k /\ Promoting(p, j) =>
          /\ calls[p][j].term <= term[p] + 1
          /\ calls[p][j].term # term[p] + 1
    <3> SUFFICES ASSUME NEW j \in Tasks[p], j # k, Promoting(p, j)
                 PROVE  /\ calls[p][j].term <= term[p] + 1
                        /\ calls[p][j].term # term[p] + 1
      OBVIOUS
    <3>1. calls[p][j].term \in Int
      <4>1. calls[p][j] # None
        BY DEF Promoting, At
      <4>2. calls[p][j].term \in Terms
        BY <1>1, <4>1, NextStepIsCall
      <4>3. QED
        BY <4>2 DEF Terms
    <3>2. calls[p][j].term <= term[p]
      BY <2>1
    <3>3. term[p] \in Int
      BY <1>4
    <3>4. QED
      BY <3>1, <3>2, <3>3
  <2>5. \A j \in Tasks[p] : j # k =>
          /\ Promoting(p, j)' <=> Promoting(p, j)
          /\ calls'[p][j].term = calls[p][j].term
    BY <1>3, OthersStay
  <2>6. term[p] + 1 <= term[p] + 1
    BY <1>4
  <2>7. ASSUME NEW j \in Tasks[p], Promoting(p, j)'
        PROVE  /\ calls'[p][j].term <= term[p] + 1
               /\ <<p, calls'[p][j].term>> \notin announced
               /\ \A i \in Tasks[p] \ {j} :
                    Promoting(p, i)' => calls'[p][i].term # calls'[p][j].term
    BY <1>4, <2>1, <2>3, <2>4, <2>5, <2>6, <2>7
  <2>8. QED
    BY <1>4, <2>2, <2>7 DEF TermsAreNew
<1>10. \A j \in Tasks[p] : CallConsistent(p, j)'
  BY <1>1, <1>3, <1>4, <1>5, OthersStay DEF Fine, CallConsistent
<1>11. QED
  BY <1>4, <1>3, <1>7, <1>8, <1>9, <1>10, LocalSteps DEF Fine

\* A step of a call that changes neither the term nor what is announced, and
\* is in a promotion after it exactly if it was before, keeps the invariant
\* if the locks still tell one story.
LEMMA QuietSteps ==
  ASSUME IInv, TypeOK', NEW p \in Peers, NEW k \in Tasks[p],
         UNCHANGED <<term, announced, epoch, setBack>>,
         \A q \in Peers : q # p =>
           /\ leader'[q] = leader[q] /\ role'[q] = role[q]
           /\ calls'[q] = calls[q],
         \A j \in Tasks[p] : j # k => calls'[p][j] = calls[p][j],
         Promoting(p, k)' <=> Promoting(p, k),
         Promoting(p, k) => calls'[p][k].leader = calls[p][k].leader
                            /\ calls'[p][k].term = calls[p][k].term,
         CallConsistent(p, k)', Recognises(p)'
  PROVE  IInv'
<1>1. Fine(p)
  BY IInvIsFine
<1>2. \A j \in Tasks[p] :
        /\ Promoting(p, j)' <=> Promoting(p, j)
        /\ Promoting(p, j) => calls'[p][j].term = calls[p][j].term
  BY OthersStay
<1>3. \A j \in Tasks[p] : CallConsistent(p, j)'
  BY <1>1, OthersStay DEF Fine
<1>4. TermKnown(p)'
  BY <1>1, <1>2 DEF Fine, TermKnown, Announced
<1>5. TermsAreNew(p)'
  BY <1>1, <1>2 DEF Fine, TermsAreNew
<1>6. QED
  BY <1>3, <1>4, <1>5, LocalSteps DEF Fine

\* A promotion that is about to name its peer is what lets the role lead.
LEMMA TakeRoleKeeps ==
  ASSUME IInv, TypeOK', NEW p \in Peers, NEW k \in Tasks[p], TakeRole(p, k)
  PROVE  IInv'
<1>1. TypeOK /\ Fine(p)
  BY IInvIsFine
<1>2. /\ calls[p][k] # None /\ calls'[p][k] # None
      /\ calls[p][k].step = "takeRole" /\ calls'[p][k].step = "nameSelf"
      /\ calls'[p][k].leader = calls[p][k].leader
      /\ calls'[p][k].term = calls[p][k].term
      /\ \A j \in Tasks[p] : j # k => calls'[p][j] = calls[p][j]
      /\ \A q \in Peers : q # p => calls'[q] = calls[q]
  BY <1>1, GoesOn DEF TakeRole, At
<1>3. Promoting(p, k) /\ Promoting(p, k)' /\ At(p, k, "nameSelf")'
  BY <1>2 DEF Promoting, At
<1>4. CallConsistent(p, k)'
  BY <1>1, <1>2, <1>3 DEF Fine, CallConsistent
<1>5. Recognises(p)'
  BY <1>1, <1>2, <1>3 DEF Fine, Recognises, TakeRole, Idle
<1>6. \A q \in Peers : q # p => role'[q] = role[q]
  BY <1>1 DEF TakeRole, TypeOK
<1>7. QED
  BY <1>2, <1>3, <1>4, <1>5, <1>6, QuietSteps DEF TakeRole

\* A promotion that returns names its peer and announces a term that no
\* other promotion is about to.
LEMMA NameSelfKeeps ==
  ASSUME IInv, TypeOK', NEW p \in Peers, NEW k \in Tasks[p], NameSelf(p, k)
  PROVE  IInv'
<1> DEFINE t == calls[p][k].term
<1>1. TypeOK /\ Fine(p)
  BY IInvIsFine
<1>2. Promoting(p, k) /\ t \in Terms
  BY <1>1, NextStepIsCall DEF NameSelf, At, Promoting
<1>3. /\ calls'[p][k] = None
      /\ \A j \in Tasks[p] : j # k => calls'[p][j] = calls[p][j]
      /\ \A q \in Peers : q # p => calls'[q] = calls[q]
  BY <1>1, ContinueCalls DEF NameSelf, Done
<1>4. ~Promoting(p, k)'
  BY <1>3 DEF Promoting, At
<1>5. /\ leader'[p] = p /\ announced' = announced \cup {<<p, t>>}
      /\ \A q \in Peers : q # p => leader'[q] = leader[q]
      /\ UNCHANGED <<term, role, epoch, setBack>>
  BY <1>1 DEF NameSelf, TypeOK
<1>6. TermKnown(p)'
  <2>1. CASE \E j \in Tasks[p] : j # k /\ Promoting(p, j)
                                 /\ calls[p][j].term = term[p]
    BY <1>3, <1>5, <2>1, OthersStay DEF TermKnown
  <2>2. CASE t = term[p]
    BY <1>5, <2>2 DEF TermKnown, Announced
  <2>3. CASE term[p] = 0 \/ Announced(term[p])
    BY <1>5, <2>3 DEF TermKnown, Announced
  <2>4. QED
    BY <1>1, <2>1, <2>2, <2>3 DEF Fine, TermKnown
<1>7. Recognises(p)'
  <2>1. Idle(p)' => (term[p] = 0 \/ Announced(term[p]))'
    BY <1>6, IdleIsKnown DEF TermKnown, Idle, Promoting, At
  <2>2. \E u \in Terms : <<p, u>> \in announced'
    BY <1>2, <1>5
  <2>3. QED
    BY <1>5, <2>1, <2>2 DEF Recognises
<1>8. TermsAreNew(p)'
  <2> SUFFICES ASSUME epoch[p] = 0, p \notin setBack
               PROVE  TermsAreNew(p)'
    BY <1>5 DEF TermsAreNew
  <2>1. \A u \in Terms : <<p, u>> \in announced' => u <= term[p]
    BY <1>1, <1>2, <1>5 DEF Fine, TermsAreNew
  <2>2. \A j \in Tasks[p] :
          Promoting(p, j)' => j # k /\ Promoting(p, j)
                              /\ calls'[p][j].term = calls[p][j].term
    BY <1>3, <1>4, OthersStay
  <2>3. ASSUME NEW j \in Tasks[p], Promoting(p, j)'
        PROVE  /\ calls'[p][j].term <= term[p]
               /\ <<p, calls'[p][j].term>> \notin announced'
               /\ \A i \in Tasks[p] \ {j} :
                    Promoting(p, i)' => calls'[p][i].term # calls'[p][j].term
    BY <1>1, <1>2, <1>5, <2>2, <2>3 DEF Fine, TermsAreNew
  <2>4. QED
    BY <1>5, <2>1, <2>3 DEF TermsAreNew
<1>9. \A j \in Tasks[p] : CallConsistent(p, j)'
  <2>1. CallConsistent(p, k)'
    BY <1>3, <1>4 DEF CallConsistent
  <2>2. QED
    BY <1>1, <1>3, <1>5, <2>1, OthersStay DEF Fine
<1>10. QED
  BY <1>1, <1>2, <1>3, <1>5, <1>6, <1>7, <1>8, <1>9, LocalSteps DEF Fine

\* A heartbeat that is accepted carries an announcement.
LEMMA HeartbeatKeeps ==
  ASSUME IInv, TypeOK', NEW p \in Peers, NEW k \in Tasks[p],
         NEW a \in announced, Heartbeat(p, k, a[1], a[2])
  PROVE  IInv'
<1> DEFINE c == [step |-> "store", leader |-> a[1], term |-> a[2]]
<1>1. TypeOK /\ Fine(p)
  BY IInvIsFine
<1>2. c \in Call /\ a = <<a[1], a[2]>>
  BY <1>1 DEF TypeOK, Call
<1>3. /\ calls'[p][k] = c /\ c # None
      /\ \A j \in Tasks[p] : j # k => calls'[p][j] = calls[p][j]
      /\ \A q \in Peers : q # p => calls'[q] = calls[q]
  BY <1>1, <1>2, ContinueCalls, CallAssumption DEF Heartbeat
<1>4. /\ ~Promoting(p, k) /\ ~Promoting(p, k)'
      /\ ~At(p, k, "nameSelf") /\ ~At(p, k, "resign")
  BY <1>3 DEF Promoting, At, Heartbeat
<1>5. CallConsistent(p, k)'
  BY <1>2, <1>3, <1>4 DEF CallConsistent, Heartbeat
<1>6. Recognises(p)'
  BY <1>1, <1>3, <1>4, OthersStay DEF Fine, Recognises, Idle, Heartbeat
<1>7. QED
  BY <1>3, <1>4, <1>5, <1>6, QuietSteps DEF Heartbeat

\* A store that lowers the term is remembered; any other leaves what the peer
\* has announced, and is about to, behind it.
LEMMA StoreTermKeeps ==
  ASSUME IInv, TypeOK', NEW p \in Peers, NEW k \in Tasks[p], StoreTerm(p, k)
  PROVE  IInv'
<1> DEFINE t == calls[p][k].term
<1>1. TypeOK /\ Fine(p)
  BY IInvIsFine
<1>2. /\ calls[p][k] # None /\ calls[p][k].step = "store" /\ t \in Terms
      /\ calls'[p][k] # None /\ calls'[p][k].step = "follow"
      /\ calls'[p][k].leader = calls[p][k].leader /\ calls'[p][k].term = t
      /\ \A j \in Tasks[p] : j # k => calls'[p][j] = calls[p][j]
      /\ \A q \in Peers : q # p => calls'[q] = calls[q]
  BY <1>1, GoesOn, NextStepIsCall DEF StoreTerm, At
<1>3. ~Promoting(p, k) /\ ~Promoting(p, k)' /\ calls[p][k].leader \in Peers
  BY <1>1, <1>2, NextStepIsCall DEF Promoting, At
<1>4. /\ term'[p] = t
      /\ \A q \in Peers : q # p => /\ term'[q] = term[q]
                                   /\ q \in setBack' <=> q \in setBack
      /\ p \notin setBack' => p \notin setBack /\ ~(t < term[p])
      /\ UNCHANGED <<leader, role, announced, epoch>>
  BY <1>1 DEF StoreTerm, TypeOK
<1>5. Announced(t)
  BY <1>1, <1>2, <1>3 DEF Fine, CallConsistent, Announced
<1>6. TermKnown(p)'
  BY <1>4, <1>5 DEF TermKnown, Announced
<1>7. Recognises(p)'
  <2>1. \A j \in Tasks[p], s \in {"nameSelf", "resign"} :
          At(p, j, s)' <=> At(p, j, s)
    BY <1>2, OthersStay DEF At
  <2>2. Announced(term[p])'
    BY <1>4, <1>5 DEF Announced
  <2>3. QED
    BY <1>1, <1>4, <2>1, <2>2 DEF Fine, Recognises
<1>8. TermsAreNew(p)'
  <2> SUFFICES ASSUME epoch[p] = 0, p \notin setBack, ~(t < term[p])
               PROVE  TermsAreNew(p)'
    BY <1>4 DEF TermsAreNew
  <2>1. t \in Int /\ term[p] \in Int /\ t >= term[p]
    BY <1>1, <1>2 DEF TypeOK, Terms
  <2>2. \A u \in Terms : <<p, u>> \in announced => u <= t
    BY <1>1, <2>1 DEF Fine, TermsAreNew, Terms
  <2>3. \A j \in Tasks[p] :
          Promoting(p, j)' => j # k /\ Promoting(p, j)
                              /\ calls'[p][j].term = calls[p][j].term
    BY <1>2, <1>3, OthersStay
  <2>4. ASSUME NEW j \in Tasks[p], Promoting(p, j)
        PROVE  calls[p][j].term <= t
    <3>1. calls[p][j].term \in Int
      <4>1. calls[p][j] # None
        BY <2>4 DEF Promoting, At
      <4>2. calls[p][j].term \in Terms
        BY <1>1, <4>1, NextStepIsCall
      <4>3. QED
        BY <4>2 DEF Terms
    <3>2. calls[p][j].term <= term[p]
      BY <1>1, <2>4 DEF Fine, TermsAreNew
    <3>3. QED
      BY <2>1, <3>1, <3>2
  <2>5. ASSUME NEW j \in Tasks[p], Promoting(p, j)'
        PROVE  /\ calls'[p][j].term <= t
               /\ <<p, calls'[p][j].term>> \notin announced
               /\ \A i \in Tasks[p] \ {j} :
                    Promoting(p, i)' => calls'[p][i].term # calls'[p][j].term
    BY <1>1, <2>3, <2>4, <2>5 DEF Fine, TermsAreNew
  <2>6. QED
    BY <1>4, <2>2, <2>5 DEF TermsAreNew
<1>9. \A j \in Tasks[p] : CallConsistent(p, j)'
  <2>1. CallConsistent(p, k)'
    BY <1>1, <1>2, <1>3, <1>4 DEF Fine, CallConsistent
  <2>2. QED
    BY <1>1, <1>2, <1>4, <2>1, OthersStay DEF Fine
<1>10. QED
  BY <1>2, <1>4, <1>6, <1>7, <1>8, <1>9, LocalSteps DEF Fine

\* A heartbeat names its leader, and goes on to take the role of a peer that
\* is not that leader.
LEMMA FollowKeeps ==
  ASSUME IInv, TypeOK', NEW p \in Peers, NEW k \in Tasks[p], Follow(p, k)
  PROVE  IInv'
<1> DEFINE l == calls[p][k].leader
<1>1. TypeOK /\ Fine(p)
  BY IInvIsFine
<1>2. /\ calls[p][k] # None /\ calls[p][k].step = "follow"
      /\ l \in Peers /\ calls[p][k].term \in Terms
  BY <1>1, NextStepIsCall DEF Follow, At
<1>3. /\ \A j \in Tasks[p] : j # k => calls'[p][j] = calls[p][j]
      /\ \A q \in Peers : q # p => calls'[q] = calls[q]
      /\ l = p => calls'[p][k] = None
      /\ l # p => /\ calls'[p][k] # None /\ calls'[p][k].step = "resign"
                  /\ calls'[p][k].leader = l
                  /\ calls'[p][k].term = calls[p][k].term
  <2>1. CASE l = p
    BY <1>1, <2>1, ContinueCalls DEF Follow, Done
  <2>2. CASE l # p
    BY <1>1, <1>2, <2>2, GoesOn DEF Follow
  <2>3. QED
    BY <2>1, <2>2
<1>4. ~Promoting(p, k) /\ ~Promoting(p, k)'
  BY <1>2, <1>3 DEF Promoting, At
<1>5. <<l, calls[p][k].term>> \in announced
  BY <1>1, <1>2, <1>4 DEF Fine, CallConsistent
<1>6. CallConsistent(p, k)'
  BY <1>2, <1>3, <1>4, <1>5 DEF CallConsistent, Follow
<1>7. /\ leader'[p] = l
      /\ \A q \in Peers : q # p => leader'[q] = leader[q]
      /\ UNCHANGED <<term, role, announced, epoch, setBack>>
  BY <1>1 DEF Follow, TypeOK
<1>8. Recognises(p)'
  <2>1. l # p => At(p, k, "resign")'
    BY <1>3 DEF At
  <2>2. Idle(p)' => term[p] = 0 \/ Announced(term[p])
    <3>1. \A j \in Tasks[p] : Idle(p)' => ~Promoting(p, j)
      BY <1>3, <1>4 DEF Idle, Promoting, At
    <3>2. QED
      BY <1>1, <3>1 DEF Fine, TermKnown
  <2>3. QED
    BY <1>2, <1>5, <1>7, <2>1, <2>2 DEF Recognises, Announced
<1>9. QED
  BY <1>3, <1>4, <1>6, <1>7, <1>8, QuietSteps

\* A peer whose role has been taken leads no more.
LEMMA ResignKeeps ==
  ASSUME IInv, TypeOK', NEW p \in Peers, NEW k \in Tasks[p], Resign(p, k)
  PROVE  IInv'
<1>1. TypeOK /\ Fine(p)
  BY IInvIsFine
<1>2. calls[p][k] # None /\ calls[p][k].step = "resign"
  BY DEF Resign, At
<1>3. /\ calls'[p][k] = None
      /\ \A j \in Tasks[p] : j # k => calls'[p][j] = calls[p][j]
      /\ \A q \in Peers : q # p => calls'[q] = calls[q]
  BY <1>1, ContinueCalls DEF Resign, Done
<1>4. ~Promoting(p, k) /\ ~Promoting(p, k)'
  BY <1>2, <1>3 DEF Promoting, At
<1>5. CallConsistent(p, k)'
  BY <1>3, <1>4 DEF CallConsistent
<1>6. /\ role'[p] = "Follower"
      /\ \A q \in Peers : q # p => role'[q] = role[q]
      /\ UNCHANGED <<term, leader, announced, epoch, setBack>>
  BY <1>1 DEF Resign, TypeOK
<1>7. Recognises(p)'
  <2>1. Idle(p)' => term[p] = 0 \/ Announced(term[p])
    <3>1. \A j \in Tasks[p] : Idle(p)' => ~Promoting(p, j)
      BY <1>3, <1>4 DEF Idle, Promoting, At
    <3>2. QED
      BY <1>1, <3>1 DEF Fine, TermKnown
  <2>2. QED
    BY <1>1, <1>6, <2>1 DEF Fine, Recognises, Announced
<1>8. QED
  BY <1>3, <1>4, <1>5, <1>6, <1>7, QuietSteps

\* A peer that comes back is in term 0 and has said nothing in this life.
LEMMA RestartKeeps ==
  ASSUME IInv, TypeOK', NEW p \in Peers, Restart(p)
  PROVE  IInv'
<1>1. TypeOK
  BY DEF IInv
<1>2. /\ \A k \in Tasks[p] : calls'[p][k] = None
      /\ term'[p] = 0 /\ leader'[p] = None /\ role'[p] = "Follower"
      /\ epoch'[p] # 0 /\ announced' = announced
      /\ \A q \in Peers : q # p =>
           /\ term'[q] = term[q] /\ leader'[q] = leader[q]
           /\ role'[q] = role[q] /\ calls'[q] = calls[q]
           /\ epoch'[q] = epoch[q] /\ (q \in setBack' <=> q \in setBack)
  BY <1>1 DEF Restart, TypeOK
<1>3. \A k \in Tasks[p] : CallConsistent(p, k)'
  BY <1>2 DEF CallConsistent, Promoting, At
<1>4. Recognises(p)' /\ TermKnown(p)' /\ TermsAreNew(p)'
  BY <1>2 DEF Recognises, TermKnown, TermsAreNew
<1>5. QED
  BY <1>2, <1>3, <1>4, LocalSteps DEF Fine

\* Each step keeps the invariant.
LEMMA IInvStep == IInv /\ [Next]_vars => IInv'
<1> SUFFICES ASSUME IInv, [Next]_vars PROVE IInv'
  OBVIOUS
<1>1. TypeOK'
  BY TypeStep DEF IInv
<1>2. ASSUME NEW p \in Peers, Restart(p) PROVE IInv'
  BY <1>1, <1>2, RestartKeeps
<1>3. ASSUME NEW p \in Peers, NEW k \in Tasks[p],
             \/ Promote(p, k) \/ CallStep(p, k)
             \/ \E a \in announced : Heartbeat(p, k, a[1], a[2])
      PROVE  IInv'
  BY <1>1, <1>3, PromoteKeeps, TakeRoleKeeps, NameSelfKeeps, HeartbeatKeeps,
     StoreTermKeeps, FollowKeeps, ResignKeeps DEF CallStep
<1>4. CASE UNCHANGED vars
  <2>1. ASSUME NEW p \in Peers PROVE Fine(p)'
    <3>1. Fine(p)
      BY IInvIsFine
    <3>2. Recognises(p)'
      BY <1>4, <3>1 DEF vars, Fine, Recognises, At, Idle, Announced
    <3>3. TermKnown(p)' /\ TermsAreNew(p)'
      BY <1>4, <3>1
      DEF vars, Fine, TermKnown, TermsAreNew, Announced, Promoting, At
    <3>4. \A k \in Tasks[p] : CallConsistent(p, k)'
      BY <1>4, <3>1 DEF vars, Fine, CallConsistent, Promoting, At
    <3>5. QED
      BY <3>2, <3>3, <3>4 DEF Fine
  <2>2. QED
    BY <1>1, <2>1 DEF IInv, Fine, LeaderIsRecognised
<1>5. QED
  BY <1>2, <1>3, <1>4 DEF Next

\* The inductive invariant, whatever calls overlap.
THEOREM CoordinationInvariant == Spec => []IInv
<1>1. Init => IInv
  BY IInvInit
<1>2. IInv /\ [Next]_vars => IInv'
  BY IInvStep
<1>3. QED
  BY <1>1, <1>2, PTL DEF Spec

\* The locks are never left telling different stories: a peer leads under
\* another leader only inside a call, and recognises one that has announced
\* itself.
THEOREM StoriesAgree == Spec => []LeaderIsRecognised
<1>1. IInv => LeaderIsRecognised
  BY DEF IInv
<1>2. QED
  BY <1>1, CoordinationInvariant, PTL

\* No promotion of a running peer that was not set back returns a term the
\* peer has announced before, though several promotions run at once.
THEOREM LeadershipsAreNew == Spec => NewLeadership
<1>1. IInv /\ [Next]_vars =>
        [\A p \in Peers : \A k \in Tasks[p] :
           NameSelf(p, k) /\ epoch[p] = 0 /\ p \notin setBack =>
             <<p, calls[p][k].term>> \notin announced]_vars
  BY DEF NameSelf, Promoting, IInv, TermsAreNew
<1>2. QED
  BY <1>1, CoordinationInvariant, PTL DEF Spec, NewLeadership
=============================================================================
