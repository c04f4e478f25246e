---------------------- MODULE PlatformLifecycleProofs ----------------------
(* The platform adapter for every instance: it drives the authority as      *)
(* WorkAdmission says, its two copies of the lease agree, and permission    *)
(* never outlives a withdrawn epoch by more than one lease.                 *)
EXTENDS PlatformLifecycle, WorkAdmissionProofs

-----------------------------------------------------------------------------
(* Types.  The lifecycle gate's operations stay within Lifecycles.          *)

LEMMA GateTypes ==
    ASSUME PlatformTypeOK
    PROVE  /\ Gate!valid(lifecycle, now) \in Lifecycles
           /\ \A s \in Lifecycles : Gate!revoke(s) \in Lifecycles
           /\ Gate!QueryGranted(lifecycle, registration, now) =>
                 Gate!begin_query(lifecycle, now) \in Lifecycles
           /\ Gate!report(lifecycle, now) \in Lifecycles
<1> USE BoundsAssumption, LifecycleAssumption
<1>1. \A s \in Lifecycles : Gate!revoke(s) \in Lifecycles
  BY DEF Gate!revoke, Lifecycles, Time
<1>2. Gate!advance(lifecycle, now) \in Lifecycles
  BY Zenon DEF PlatformTypeOK, Gate!advance, Lifecycles
<1>3. Gate!valid(lifecycle, now) \in Lifecycles
  BY <1>1, <1>2, Zenon DEF Gate!valid, PlatformTypeOK
<1>4. ASSUME Gate!QueryGranted(lifecycle, registration, now)
      PROVE  Gate!begin_query(lifecycle, now) \in Lifecycles
  BY <1>4 DEF Gate!QueryGranted, Gate!begin_query, PlatformTypeOK, Lifecycles
<1>5. Gate!report(lifecycle, now) \in Lifecycles
  BY DEF Gate!report, PlatformTypeOK, Lifecycles, Time
<1> QED
  BY <1>1, <1>3, <1>4, <1>5, Zenon

(* What ready_until can be, for the gate as it is and as report leaves it.  *)
LEMMA CeilingTypes ==
    ASSUME PlatformTypeOK
    PROVE  /\ Gate!ready_until(lifecycle, now) \in Time
           /\ Gate!ready_until(Gate!report(lifecycle, now), now) \in Time
<1>1. ASSUME NEW s \in Lifecycles PROVE Gate!ready_until(s, now) \in Time
  BY BoundsAssumption, LifecycleAssumption
     DEF Gate!ready_until, Lifecycles, Time
<1> QED
  BY <1>1, GateTypes, Zenon DEF PlatformTypeOK

-----------------------------------------------------------------------------
(* A step of the adapter is one of the authority's or leaves it alone, so   *)
(* what is invariant for any adapter is invariant here.                     *)

LEMMA RefinesStep ==
    ASSUME PlatformTypeOK, [PlatformNext]_allVars
    PROVE  [Next]_vars
<1>1. CASE UNCHANGED vars
  BY <1>1, Zenon
<1>2. ASSUME NEW gate, fail_locked(gate) PROVE Next
  BY <1>2, Zenon DEF fail_locked, Next
<1>3. CASE BeginQuery
  BY <1>2, <1>3, Zenon DEF BeginQuery
<1>4. CASE Receive
  <2>1. CASE UNCHANGED vars \/ \E gate : fail_locked(gate)
    BY <1>2, <2>1, Zenon
  <2>2. CASE /\ Consistent(observer.answer)
             /\ Observe(observer.answer,
                        Gate!ready_until(Gate!report(lifecycle, now), now), now)
    BY <2>2, CeilingTypes, Zenon DEF Consistent, PlatformTypeOK, Observers, Next
  <2> QED
    BY <1>4, <2>1, <2>2, Zenon DEF Receive
<1>5. CASE FailCall
  BY <1>2, <1>5, Zenon DEF FailCall
<1>6. ASSUME NEW g \in Gates, admit_work(g) \/ prepare_work(g) \/ release_work(g)
      PROVE  Next
  BY <1>6, CeilingTypes, Zenon DEF admit_work, prepare_work, release_work, Next, Call
<1>7. CASE Elsewhere
  BY <1>7, Zenon DEF Elsewhere, Next, Call
<1> QED
  BY <1>1, <1>3, <1>4, <1>5, <1>6, <1>7, Zenon DEF PlatformNext, Withdraw, Grant,
     Snapshot, Poll, allVars

(* Only the clock moves the clock. *)
LEMMA ClockStep ==
    ASSUME [Next]_vars PROVE UNCHANGED now \/ Tick
<1>1. ASSUME NEW g \in Gates, Stop(g) \/ Call(g) PROVE UNCHANGED now
  BY <1>1, Zenon DEF Stop, Call, Admit, Prepared, Release, Retire, Refuse, Proceed
<1>2. ASSUME NEW g \in Gates, AuthorityStep(g) PROVE UNCHANGED now
  BY <1>2, Zenon DEF AuthorityStep, RevokeStop, RevokeReturn, BindCas, BindWrite,
     BindDone, PreparedCas, PublishCas, PublishWrite, PublishDone
<1>3. ASSUME NEW l \in Launchers, LauncherStep(l) PROVE UNCHANGED now
  BY <1>3, Zenon DEF LauncherStep, Adopt, ClaimSample, ClaimLoad, ClaimCheck, ClaimCas
<1>4. CASE Revoke \/ \E e \in Epochs, d \in Time : Observe(e, d, now)
  BY <1>4, Zenon DEF Revoke, Observe
<1> QED
  BY <1>1, <1>2, <1>3, <1>4, Zenon DEF Next, vars

LEMMA PlatformTypeInit == PlatformInit => PlatformTypeOK
<1> SUFFICES ASSUME PlatformInit PROVE PlatformTypeOK
  BY Zenon
<1> USE BoundsAssumption, SetsAssumption, LifecycleAssumption DEF PlatformInit
<1>1. lifecycle \in Lifecycles
  BY DEF Gate!begin, Gate!Unregistered, Lifecycles, Time
<1>2. observer \in Observers
  BY DEF Observers, Observing
<1>3. lostAt \in [Epochs -> 0 .. MaxTime \cup {Never}]
  BY Zenon
<1>4. now \in 0 .. MaxTime
  BY DEF Init
<1>5. failed \in BOOLEAN /\ bound \in Epochs \cup {NoEpoch}
      /\ platform \in Epochs \cup {NoEpoch}
  BY Zenon
<1> QED
  BY <1>1, <1>2, <1>3, <1>4, <1>5, Zenon DEF PlatformTypeOK

LEMMA PlatformTypeStep ==
    ASSUME PlatformTypeOK, IInv, [PlatformNext]_allVars
    PROVE  PlatformTypeOK'
<1> USE BoundsAssumption, LifecycleAssumption
<1>1. now' \in 0 .. MaxTime
  BY RefinesStep, ClockStep DEF Tick, PlatformTypeOK
<1>2. ASSUME NEW gate \in Lifecycles, fail_locked(gate)
      PROVE  lifecycle' \in Lifecycles /\ failed' \in BOOLEAN
  BY <1>2, GateTypes, Zenon DEF fail_locked
<1>3. Ended \in Observers
  BY DEF Ended, Observing, Observers
<1>4. CASE Withdraw \/ \E e \in Epochs : Grant(e)
  BY <1>1, <1>4, Zenon DEF Withdraw, Grant, PlatformTypeOK, adapterVars, vars
<1>5. CASE BeginQuery
  <2>1. lifecycle' \in Lifecycles /\ failed' \in BOOLEAN
    BY <1>2, <1>5, GateTypes, Zenon DEF BeginQuery, PlatformTypeOK
  <2>2. observer' \in Observers
    BY <1>3, <1>5, <2>1 DEF BeginQuery, Observing, Observers, Lifecycles
  <2> QED
    BY <1>1, <1>5, <2>1, <2>2, Zenon DEF BeginQuery, PlatformTypeOK, platformVars
<1>6. ASSUME NEW answer \in {platform, NoEpoch}, Snapshot(answer)
      PROVE  PlatformTypeOK'
  <2>1. observer' \in Observers
    BY <1>6, Zenon DEF Snapshot, Observing, Observers, PlatformTypeOK
  <2> QED
    BY <1>1, <1>6, <2>1, Zenon DEF Snapshot, PlatformTypeOK, platformVars
<1>7. CASE Receive
  <2>1. Gate!revoke(Gate!report(lifecycle, now)) \in Lifecycles
    BY GateTypes, Zenon
  <2>2. lifecycle' \in Lifecycles
    BY <1>2, <1>7, <2>1, GateTypes, Zenon DEF Receive, PlatformTypeOK
  <2>3. failed' \in BOOLEAN
    <3>1. authority'.failed \in BOOLEAN
      BY RefinesStep, Inductive, Zenon DEF IInv, TypeOK, Authorities
    <3> QED
      BY <1>2, <1>7, <3>1, GateTypes, Zenon DEF Receive, PlatformTypeOK
  <2>4. observer' \in Observers
    BY <1>3, <1>7 DEF Receive, Observing, Observers
  <2>5. bound' \in Epochs \cup {NoEpoch}
    BY <1>7, Zenon DEF Receive, PlatformTypeOK, Observers
  <2> QED
    BY <1>1, <1>7, <2>2, <2>3, <2>4, <2>5, Zenon DEF Receive, PlatformTypeOK, platformVars
<1>8. CASE FailCall
  BY <1>1, <1>2, <1>8, GateTypes, Zenon DEF FailCall, PlatformTypeOK, platformVars
<1>9. CASE Poll \/ ReadyCall
  BY <1>1, <1>9, GateTypes, Zenon DEF Poll, ReadyCall, PlatformTypeOK, platformVars
<1>10. CASE Elsewhere \/ UNCHANGED allVars
  BY <1>1, <1>10, Zenon DEF Elsewhere, PlatformTypeOK, adapterVars, platformVars, allVars
<1> QED
  BY <1>4, <1>5, <1>6, <1>7, <1>8, <1>9, <1>10, ZenonT(60) DEF PlatformNext, admit_work,
     prepare_work, release_work

(* The types of the adapter's state, whatever the platform and the clock do.*)
THEOREM PlatformTypeCorrect == PlatformSpec => []PlatformTypeOK
<1>1. PlatformInit => PlatformTypeOK /\ IInv
  BY PlatformTypeInit, Initially, Zenon DEF PlatformInit
<1>2. PlatformTypeOK /\ IInv /\ [PlatformNext]_allVars => PlatformTypeOK' /\ IInv'
  BY PlatformTypeStep, RefinesStep, Inductive, Zenon
<1> QED
  BY <1>1, <1>2, PTL DEF PlatformSpec

-----------------------------------------------------------------------------
(* Freshness.  A deadline under epoch e is capped when it is at most one    *)
(* lease from now and from the withdrawal of e.                             *)

Capped(d, e, t, lost) == d <= t + Lease /\ d <= lost[e] + Lease

(* The outstanding query was issued before its answer was read, and while   *)
(* the answer's epoch was still vouched for.                                *)
QueryInv ==
    /\ OneQuery
    /\ failed => lifecycle.state = "Absent" /\ lifecycle.query = 0
    /\ lifecycle.query # 0 => lifecycle.issued <= now
    /\ platform # NoEpoch => lostAt[platform] = Never
    /\ observer.step = "Answered" /\ observer.answer # NoEpoch
          /\ lifecycle.query # 0 => lifecycle.issued <= lostAt[observer.answer]

(* Every deadline the authority holds or has handed out is capped. *)
CapInv ==
    /\ authority.epoch = NoEpoch => authority.deadline = 0
    /\ authority.epoch # NoEpoch =>
          Capped(authority.deadline, authority.epoch, now, lostAt)
    /\ \A g \in Gates : "Released" \in word[g] =>
          Capped(grant[g].deadline, epoch[g], now, lostAt)

LEMMA QueryStep ==
    ASSUME PlatformTypeOK, PlatformTypeOK', QueryInv, [PlatformNext]_allVars
    PROVE  QueryInv'
<1> USE BoundsAssumption, LifecycleAssumption, SetsAssumption DEF QueryInv
<1>0. now <= now'
  BY RefinesStep, ClockStep DEF Tick, PlatformTypeOK
<1>1. ASSUME NEW gate, fail_locked(gate), UNCHANGED platformVars PROVE QueryInv'
  BY <1>1, Zenon DEF fail_locked, Gate!revoke, OneQuery, platformVars
<1>2. CASE Withdraw
  BY <1>0, <1>2, Zenon DEF Withdraw, OneQuery, PlatformTypeOK, Lifecycles, adapterVars, vars,
     Observers, Never
<1>3. ASSUME NEW e \in Epochs, Grant(e) PROVE QueryInv'
  BY <1>3, Zenon DEF Grant, OneQuery, adapterVars, vars
<1>4. CASE BeginQuery
  <2>1. CASE failed /\ UNCHANGED <<vars, lifecycle, failed>>
    BY <1>4, <2>1, Zenon DEF BeginQuery, OneQuery, platformVars, vars
  <2>2. CASE lifecycle' = Gate!begin_query(lifecycle, now) /\ UNCHANGED vars
    BY <1>4, <2>2 DEF BeginQuery, OneQuery, platformVars, Ended, Observing,
       Gate!begin_query, PlatformTypeOK, fail_locked, Gate!revoke, vars
  <2> QED
    BY <1>1, <1>4, <2>1, <2>2, Zenon DEF BeginQuery
<1>5. ASSUME NEW answer \in {platform, NoEpoch}, Snapshot(answer) PROVE QueryInv'
  BY <1>5 DEF Snapshot, OneQuery, Observing, platformVars, vars, PlatformTypeOK,
     Lifecycles, Never
<1>6. CASE Receive
  <2>1. CASE failed /\ UNCHANGED <<vars, lifecycle, failed>>
    BY <1>6, <2>1, Zenon DEF Receive, OneQuery, platformVars, vars
  <2>2. CASE /\ lifecycle'.query = 0
             /\ failed' => lifecycle'.state = "Absent"
    BY <1>6, <2>2, Zenon DEF Receive, OneQuery, platformVars
  <2>3. CASE lifecycle' = IF failed' THEN Gate!revoke(Gate!report(lifecycle, now))
                          ELSE Gate!report(lifecycle, now)
    BY <2>2, <2>3, Zenon DEF Gate!report, Gate!revoke
  <2> QED
    BY <1>1, <1>6, <2>1, <2>3, Zenon DEF Receive
<1>7. CASE FailCall
  BY <1>1, <1>7, Zenon DEF FailCall
<1>8. ASSUME lifecycle' = Gate!valid(lifecycle, now), ~Lost,
             UNCHANGED <<now, failed, observer, platformVars>>
      PROVE  QueryInv'
  <2>1. \/ lifecycle'.query = 0 /\ lifecycle'.state = "Absent"
        \/ lifecycle'.query = lifecycle.query /\ lifecycle'.issued = lifecycle.issued
    BY <1>8, Zenon DEF Gate!valid, Gate!advance, Gate!revoke
  <2> QED
    BY <1>8, <2>1, Zenon DEF Lost, OneQuery, platformVars
<1>9. CASE Poll
  BY <1>8, <1>9, Zenon DEF Poll, vars
<1>10. CASE \E g \in Gates : admit_work(g) \/ prepare_work(g) \/ release_work(g)
  BY <1>8, <1>10, Zenon DEF admit_work, prepare_work, release_work, ReadyCall, Admit,
     Prepared, Release, Refuse, Proceed
<1>11. CASE UNCHANGED <<adapterVars, platformVars>>
  BY <1>0, <1>11 DEF OneQuery, PlatformTypeOK, Lifecycles, adapterVars, platformVars
<1> QED
  BY <1>2, <1>3, <1>4, <1>5, <1>6, <1>7, <1>9, <1>10, <1>11, ZenonT(60)
     DEF PlatformNext, Elsewhere, allVars

LEMMA ReleasedBound ==
    ASSUME NEW w, valid_word(w), "Released" \in w PROVE "Bound" \in w
<1>1. \A v \in Progress : "Released" \in v => "Bound" \in v
  BY Zenon DEF Progress
<1> QED
  BY <1>1, Zenon DEF valid_word

(* A gate becomes released only under an authority that has not failed.     *)
LEMMA ReleaseStep ==
    ASSUME IInv, [Next]_vars, NEW g \in Gates,
           "Released" \in word'[g], "Released" \notin word[g]
    PROVE  ~authority'.failed
<1> USE DEF IInv
<1>1. word' # word
  BY Zenon
<1>2. ASSUME NEW h \in Gates, Stop(h) \/ Call(h) PROVE FALSE
  <2>1. word' # Closed(h)
    BY DEF Closed, TypeOK
  <2> QED
    BY <1>1, <1>2, <2>1, Zenon DEF Stop, Call, Admit, Prepared, Release, Retire,
       Refuse, Proceed, gateVars
<1>3. ASSUME NEW h \in Gates, AuthorityStep(h) PROVE ~authority'.failed
  <2>1. CASE PublishDone(h)
    BY <2>1, ZenonT(60) DEF PublishDone, OpInv, PublishSteps
  <2> QED
    BY <1>1, <1>3, <2>1 DEF AuthorityStep, RevokeStop, RevokeReturn, BindCas,
       BindWrite, BindDone, PreparedCas, PublishCas, PublishWrite, Cas, Closed,
       TypeOK, gateVars
<1>4. ASSUME NEW l \in Launchers, LauncherStep(l) PROVE FALSE
  BY <1>1, <1>4 DEF LauncherStep, Adopt, ClaimSample, ClaimLoad, ClaimCheck,
     ClaimCas, Cas, Closed, TypeOK, gateVars
<1> QED
  BY <1>1, <1>2, <1>3, <1>4, Zenon DEF Next, Tick, Revoke, Observe, gateVars, vars

(* An answer that renews: what Receive does to the authority.               *)
Renewal ==
    /\ observer.step = "Answered" /\ Consistent(observer.answer)
    /\ Gate!ReportAccepted(lifecycle, registration, observer.challenge, now)
    /\ authority.epoch \in {NoEpoch, observer.answer}
    /\ authority'.epoch = observer.answer /\ bound' = observer.answer
    /\ authority'.deadline =
          Later(Gate!ready_until(Gate!report(lifecycle, now), now),
                authority.deadline)

(* Otherwise the authority keeps its epoch, and its deadline unless it is   *)
(* revoked.                                                                 *)
LEMMA AuthorityEffect ==
    ASSUME PlatformTypeOK, [PlatformNext]_allVars
    PROVE  \/ Renewal
           \/ /\ authority'.epoch = authority.epoch
              /\ authority'.deadline \in {0, authority.deadline}
<1> DEFINE Kept == /\ authority'.epoch = authority.epoch
                   /\ authority'.deadline \in {0, authority.deadline}
<1>1. CASE UNCHANGED authority
  BY <1>1, Zenon
<1>2. ASSUME NEW gate, fail_locked(gate) PROVE Kept
  BY <1>2, Zenon DEF fail_locked, Revoke, RevokeLocked, Revoked
<1>3. CASE Receive
  <2>1. CASE UNCHANGED vars
    BY <1>1, <2>1, Zenon DEF vars, authVars
  <2>2. CASE /\ Consistent(observer.answer)
             /\ Gate!ReportAccepted(lifecycle, registration, observer.challenge, now)
             /\ bound' = observer.answer
             /\ Observe(observer.answer,
                        Gate!ready_until(Gate!report(lifecycle, now), now), now)
    <3> DEFINE until == Gate!ready_until(Gate!report(lifecycle, now), now)
    <3>1. observer.step = "Answered" /\ bound' = observer.answer
      BY <1>3, <2>2, Zenon DEF Receive
    <3>2. \/ authority' = Revoked(now) \/ authority' = Seen(now)
          \/ /\ Acceptable(observer.answer, until, now)
             /\ authority' = [epoch |-> observer.answer,
                              deadline |-> Later(until, authority.deadline),
                              observed |-> now, failed |-> FALSE]
      BY <2>2, Zenon DEF Observe, RevokeLocked
    <3>3. CASE authority' = Revoked(now) \/ authority' = Seen(now)
      BY ONLY <3>3 DEF Revoked, Seen
    <3>4. CASE /\ Acceptable(observer.answer, until, now)
               /\ authority' = [epoch |-> observer.answer,
                                deadline |-> Later(until, authority.deadline),
                                observed |-> now, failed |-> FALSE]
      <4>1. /\ authority'.epoch = observer.answer
            /\ authority'.deadline = Later(until, authority.deadline)
        BY <3>4, Zenon
      <4>2. authority.epoch \in {NoEpoch, observer.answer}
        BY <3>4, Zenon DEF Acceptable
      <4> QED
        BY <2>2, <3>1, <4>1, <4>2, Zenon DEF Renewal
    <3> QED
      BY <3>2, <3>3, <3>4, Zenon
  <2> QED
    BY <1>2, <1>3, <2>1, <2>2, Zenon DEF Receive
<1>4. ASSUME NEW g \in Gates, NEW ceiling,
             Admit(g, now) \/ Prepared(g, now) \/ Release(g, now, ceiling)
      PROVE  Kept
  <2>1. CASE Refuse(now)
    BY <2>1 DEF Refuse, RevokeLocked, Revoked, Seen
  <2>2. CASE authority' = Seen(now)
    BY <2>2, Zenon DEF Seen
  <2> QED
    BY <1>4, <2>1, <2>2, Zenon DEF Admit, Prepared, Release, Proceed
<1>5. CASE Elsewhere
  BY <1>1, <1>5, Zenon DEF Elsewhere, Tick, Stop, Retire, AuthorityStep, RevokeStop,
     RevokeReturn, BindCas, BindWrite, BindDone, PreparedCas, PublishCas,
     PublishWrite, PublishDone, LauncherStep, Adopt, ClaimSample, ClaimLoad,
     ClaimCheck, ClaimCas, authVars
<1>6. CASE BeginQuery \/ FailCall
  BY <1>1, <1>2, <1>6, Zenon DEF BeginQuery, FailCall, vars, authVars
<1> QED
  BY <1>1, <1>3, <1>4, <1>5, <1>6, ZenonT(60) DEF PlatformNext, Withdraw, Grant, Snapshot,
     Poll, admit_work, prepare_work, release_work, allVars, vars, authVars

LEMMA LeaseArithmetic ==
    /\ \A d, a, b, lease \in Nat : d <= a + lease /\ a <= b => d <= b + lease
    /\ \A a, lease \in Nat : 0 <= a + lease
  BY ONLY SMTT(60)

LEMMA CapStep ==
    ASSUME PlatformTypeOK, PlatformTypeOK', IInv, IInv', QueryInv, CapInv,
           [PlatformNext]_allVars
    PROVE  CapInv'
<1> USE BoundsAssumption, LifecycleAssumption, SetsAssumption
<1>0. now <= now' /\ now \in Nat /\ now' \in Nat /\ Lease \in Nat
  BY RefinesStep, ClockStep DEF Tick, PlatformTypeOK
(* A capped deadline stays capped: a withdrawal is stamped with the clock.  *)
<1>1. ASSUME NEW d \in Nat, NEW e \in Epochs, Capped(d, e, now, lostAt)
      PROVE  Capped(d, e, now', lostAt')
  <2>0. lostAt[e] \in Nat
    BY DEF PlatformTypeOK, Never
  <2>1. CASE lostAt' = lostAt
    <3>1. d <= now' + Lease
      BY <1>0, <1>1, LeaseArithmetic, Zenon DEF Capped
    <3> QED
      BY <1>1, <2>1, <3>1, Zenon DEF Capped
  <2>2. CASE Withdraw
    BY <1>0, <1>1, <2>0, <2>2, Zenon DEF Withdraw, Capped, PlatformTypeOK, vars
  <2> QED
    BY <2>1, <2>2, ZenonT(60) DEF PlatformNext, Grant, BeginQuery, Snapshot, Receive, FailCall,
       Poll, admit_work, prepare_work, release_work, ReadyCall, Elsewhere,
       platformVars, allVars
<1>2. ASSUME authority'.epoch # NoEpoch
      PROVE  Capped(authority'.deadline, authority'.epoch, now', lostAt')
  <2>0. /\ authority'.epoch \in Epochs /\ authority'.deadline \in Nat
        /\ authority.deadline \in Nat
        /\ lostAt[authority'.epoch] \in Nat /\ lostAt'[authority'.epoch] \in Nat
    BY <1>2 DEF IInv, TypeOK, Authorities, PlatformTypeOK, Never, Time
  <2>1. CASE authority'.epoch = authority.epoch /\ authority'.deadline = authority.deadline
    BY <1>1, <1>2, <2>0, <2>1, Zenon DEF CapInv
  <2>2. CASE authority'.deadline = 0
    <3>1. 0 <= now' + Lease /\ 0 <= lostAt'[authority'.epoch] + Lease
      BY <1>0, <2>0, LeaseArithmetic, ZenonT(60)
    <3> QED
      BY <2>2, <3>1, Zenon DEF Capped
  <2>3. CASE Renewal
    <3> DEFINE until == Gate!ready_until(Gate!report(lifecycle, now), now)
    <3>1. until <= lifecycle.issued + Lease /\ until \in Nat
      BY CeilingTypes DEF Gate!ready_until, Gate!report, PlatformTypeOK,
         Lifecycles, Time
    <3>2. /\ lifecycle.issued <= lostAt[observer.answer]
          /\ lifecycle.issued <= now /\ observer.answer \in Epochs
      BY <2>3, Zenon DEF Renewal, Consistent, QueryInv, Gate!ReportAccepted,
         PlatformTypeOK, Observers
    <3>3. Capped(until, observer.answer, now, lostAt)
      BY <3>1, <3>2 DEF Capped, PlatformTypeOK, Lifecycles, Time, Never
    <3>4. CASE authority'.deadline = until
      BY <1>1, <2>3, <3>1, <3>2, <3>3, <3>4, ZenonT(60) DEF Renewal
    <3>5. CASE authority'.deadline = authority.deadline /\ until < authority.deadline
      <4>1. authority.epoch = observer.answer
        BY <2>3, <3>1, <3>5 DEF Renewal, CapInv
      <4> QED
        BY <1>1, <2>0, <2>3, <3>2, <3>5, <4>1, ZenonT(60) DEF CapInv, Renewal
    <3> QED
      BY ONLY <2>0, <2>3, <3>1, <3>4, <3>5, SMTT(60) DEF Renewal, Later
  <2> QED
    BY <2>1, <2>2, <2>3, AuthorityEffect, Zenon
<1>3. ASSUME NEW g \in Gates, "Released" \in word'[g]
      PROVE  Capped(grant'[g].deadline, epoch'[g], now', lostAt')
  <2>1. /\ "Bound" \in word'[g]
        /\ epoch'[g] \in Epochs /\ grant'[g].deadline \in Nat
        /\ authority'.deadline \in Nat
        /\ epoch'[g] = authority'.epoch /\ authority'.epoch # NoEpoch
    <3>1. "Bound" \in word'[g]
      BY <1>3, ReleasedBound, Zenon DEF IInv, TypeOK
    <3>2. epoch'[g] = authority'.epoch /\ authority'.epoch # NoEpoch
      BY <3>1, Zenon DEF IInv, AuthorityInv
    <3>3. authority' \in Authorities /\ grant'[g] \in Grants
      BY Zenon DEF IInv, TypeOK
    <3> QED
      BY <3>1, <3>2, <3>3 DEF Authorities, Grants, Time
  <2>2. CASE "Released" \in word[g]
    <3>1. "Bound" \in word[g]
      BY <2>2, ReleasedBound, Zenon DEF IInv, TypeOK
    <3>2. grant'[g] = grant[g] /\ epoch'[g] = epoch[g]
      BY <2>2, <3>1, RefinesStep, StepOnGate, ZenonT(60)
    <3> QED
      BY <1>1, <2>1, <2>2, <3>2, Zenon DEF CapInv
  <2>3. CASE "Released" \notin word[g]
    <3>1. grant'[g].deadline <= authority'.deadline
      BY <1>3, <2>3, RefinesStep, ReleaseStep, ZenonT(60) DEF IInv, GrantsBounded
    <3>2. lostAt'[epoch'[g]] \in Nat
      BY <2>1 DEF PlatformTypeOK, Never
    <3> QED
      BY ONLY <1>0, <1>2, <2>1, <3>1, <3>2 DEF Capped, Time
  <2> QED
    BY <2>2, <2>3, ZenonT(60)
<1>4. authority'.epoch = NoEpoch => authority'.deadline = 0
  BY AuthorityEffect, Zenon DEF Renewal, Consistent, CapInv
<1> QED
  BY <1>2, <1>3, <1>4, ZenonT(60) DEF CapInv

Inv == PlatformTypeOK /\ IInv /\ QueryInv /\ CapInv

LEMMA InvInit == PlatformInit => Inv
<1> SUFFICES ASSUME PlatformInit PROVE Inv
  BY Zenon
<1>1. PlatformTypeOK /\ IInv
  BY PlatformTypeInit, Initially, Zenon DEF PlatformInit
<1>2. QueryInv
  BY LifecycleAssumption, SetsAssumption, Zenon DEF PlatformInit, QueryInv, OneQuery,
     Gate!begin, Gate!Unregistered, Gate!revoke, Gate!advance, Observing
<1>3. CapInv
  BY Zenon DEF PlatformInit, Init, CapInv
<1> QED
  BY <1>1, <1>2, <1>3, Zenon DEF Inv

LEMMA InvStep == Inv /\ [PlatformNext]_allVars => Inv'
<1> SUFFICES ASSUME Inv, [PlatformNext]_allVars PROVE Inv'
  BY Zenon
<1>1. IInv' /\ PlatformTypeOK'
  BY RefinesStep, Inductive, PlatformTypeStep, Zenon DEF Inv
<1> QED
  BY <1>1, QueryStep, CapStep, Zenon DEF Inv

THEOREM PlatformInvariance == PlatformSpec => []Inv
  BY InvInit, InvStep, PTL DEF PlatformSpec

(* No permission outlives the withdrawal of its epoch by more than a lease. *)
THEOREM Freshness == PlatformSpec => []FreshnessBound
<1>1. Inv => FreshnessBound
  <2> SUFFICES ASSUME Inv PROVE FreshnessBound
    BY Zenon
  <2>1. ASSUME NEW g \in Gates, "Released" \in word[g]
        PROVE  grant[g].deadline <= lostAt[epoch[g]] + Lease
    BY <2>1, Zenon DEF Inv, CapInv, Capped
  <2>2. ASSUME NEW l \in Launchers, claim[l].result = "Entered"
        PROVE  claim[l].now < lostAt[claim[l].epoch] + Lease
    <3> DEFINE g == claim[l].gate
    <3>1. /\ g \in Gates /\ "Released" \in word[g] /\ claim[l].epoch = epoch[g]
          /\ claim[l].now < grant[g].deadline /\ "Bound" \in word[g]
      BY <2>2, ZenonT(60) DEF Inv, IInv, ClaimInv, EntryWithinGrant, InGrant
    <3>2. /\ claim[l].now \in Nat /\ grant[g].deadline \in Nat
          /\ epoch[g] \in Epochs
      BY <3>1, BoundsAssumption DEF Inv, IInv, TypeOK, Claims, Grants, Time, AuthorityInv
    <3>3. lostAt[epoch[g]] \in Nat
      BY <3>2, BoundsAssumption DEF Inv, PlatformTypeOK, Never
    <3> QED
      BY <2>1, <3>1, <3>2, <3>3, BoundsAssumption
  <2> QED
    BY <2>1, <2>2, Zenon DEF FreshnessBound
<1> QED
  BY <1>1, PlatformInvariance, PTL

(* One outstanding query, and it is the observer's.                         *)
THEOREM QueryExclusive == PlatformSpec => []OneQuery
<1>1. Inv => OneQuery
  BY Zenon DEF Inv, QueryInv
<1> QED
  BY <1>1, PlatformInvariance, PTL

-----------------------------------------------------------------------------
(* The two leases.                                                          *)

LeaseInv ==
    /\ failed = authority.failed
    /\ failed <=> lifecycle.state = "Absent"
    /\ lifecycle.state = "Pending" => authority.epoch = NoEpoch
    /\ lifecycle.state = "Ready" =>
          /\ authority.epoch = bound /\ bound # NoEpoch
          /\ authority.deadline = lifecycle.deadline
          /\ Capacity # 0 /\ Capacity <= kMaximumAdmissions
          /\ lifecycle.query # 0 =>
                lifecycle.deadline <= lifecycle.issued + Lease

(* A registration that a call finds valid keeps its lease and its query.    *)
LEMMA ValidGate ==
    ASSUME PlatformTypeOK, Gate!IsValid(lifecycle, now)
    PROVE  /\ Gate!valid(lifecycle, now) = Gate!advance(lifecycle, now)
           /\ lifecycle.state # "Absent" /\ now < lifecycle.deadline
           /\ lifecycle.query # 0 => now < lifecycle.issued + QueryLimit
<1>1. Gate!valid(lifecycle, now) = Gate!advance(lifecycle, now) /\ ~Gate!Expired(lifecycle, now)
  BY Zenon DEF Gate!IsValid, Gate!valid, Gate!revoke
<1>2. lifecycle.state # "Absent"
  BY <1>1 DEF Gate!IsValid, Gate!advance
<1>3. now \in Nat /\ lifecycle.deadline \in Nat /\ lifecycle.issued \in Nat /\ QueryLimit \in Nat
  BY BoundsAssumption, LifecycleAssumption DEF PlatformTypeOK, Lifecycles, Time
<1> QED
  BY <1>1, <1>2, <1>3 DEF Gate!Expired

LEMMA ReadyAuthority ==
    ASSUME Inv, LeaseInv, ReadyCall PROVE Fresh(now)
<1>1. lifecycle.state = "Ready" /\ now < lifecycle.deadline
  BY ValidGate DEF Inv, ReadyCall, Lost, Gate!IsReady, Gate!advance
<1>2. authority.observed <= now /\ authority.observed \in Nat /\ now \in Nat
      /\ lifecycle.deadline \in Nat
  BY BoundsAssumption DEF Inv, IInv, AuthorityInv, TypeOK, Authorities,
     PlatformTypeOK, Lifecycles, Time
<1>3. ~authority.failed
  BY <1>1, Zenon DEF LeaseInv
<1> QED
  BY <1>1, <1>2, <1>3, BoundsAssumption DEF LeaseInv, Fresh, Lapsed, kMaximumAdmissions

LEMMA LeaseStep ==
    ASSUME Inv, Inv', LeaseInv, [PlatformNext]_allVars
    PROVE  LeaseInv'
<1>1. ASSUME NEW gate, fail_locked(gate) PROVE LeaseInv'
  BY <1>1, Zenon DEF LeaseInv, fail_locked, Gate!revoke, Revoke, RevokeLocked, Revoked
(* Calls and polls that find the registration valid. *)
<1>2. ASSUME ~Lost, lifecycle' = Gate!valid(lifecycle, now), UNCHANGED <<failed, bound>>,
             \/ authority' = authority
             \/ authority' = Seen(now)
      PROVE  LeaseInv'
  <2>1. lifecycle' = Gate!advance(lifecycle, now)
    BY <1>2, ValidGate, Zenon DEF Lost, Inv
  <2> QED
    BY <1>2, <2>1 DEF LeaseInv, Gate!advance, Seen
<1>3. CASE UNCHANGED <<authority, lifecycle, failed, bound>>
  BY <1>3, Zenon DEF LeaseInv
<1>4. CASE BeginQuery
  <2>1. CASE /\ Gate!QueryGranted(lifecycle, registration, now)
             /\ lifecycle' = Gate!begin_query(lifecycle, now)
             /\ UNCHANGED <<vars, failed, bound>>
    <3>0. /\ authority.deadline <= authority.observed + Lease
          /\ authority.observed <= now
          /\ now \in Nat /\ authority.deadline \in Nat
          /\ authority.observed \in Nat /\ Lease \in Nat
      BY BoundsAssumption DEF Inv, IInv, AuthorityInv, TypeOK, Authorities, Time
    <3>1. authority.deadline <= now + Lease
      BY <3>0, LeaseArithmetic, Zenon
    <3> QED
      BY <2>1, <3>1, ZenonT(60) DEF LeaseInv, Gate!begin_query, vars, authVars
  <2> QED
    BY <1>1, <1>3, <1>4, <2>1, Zenon DEF BeginQuery, vars, authVars
<1>5. CASE Receive
  <2>1. CASE UNCHANGED <<vars, lifecycle, failed, bound>>
    BY <1>3, <2>1, Zenon DEF vars, authVars
  <2>2. ASSUME ~failed, Consistent(observer.answer),
               Gate!ReportAccepted(lifecycle, registration, observer.challenge, now),
               bound' = observer.answer,
               Observe(observer.answer,
                       Gate!ready_until(Gate!report(lifecycle, now), now), now),
               failed' = authority'.failed,
               lifecycle' = IF failed' THEN Gate!revoke(Gate!report(lifecycle, now))
                            ELSE Gate!report(lifecycle, now)
        PROVE  LeaseInv'
    <3> DEFINE renewed == Gate!report(lifecycle, now)
    <3>1. CASE failed'
      BY <2>2, <3>1, Zenon DEF LeaseInv, Gate!revoke
    <3>2. CASE ~failed'
      <4>1. /\ now < lifecycle.issued + Lease
            /\ authority.deadline <= lifecycle.issued + Lease
        <5>1. /\ now < lifecycle.issued + QueryLimit /\ lifecycle.query # 0
              /\ lifecycle.state # "Absent"
          BY <2>2, ValidGate, Zenon DEF Inv, Gate!ReportAccepted
        <5>2. /\ now \in Nat /\ lifecycle.issued \in Nat
              /\ lifecycle.state \in {"Absent", "Pending", "Ready"}
          BY BoundsAssumption DEF Inv, PlatformTypeOK, Lifecycles
        <5>3. authority.deadline = 0 \/ authority.deadline <= lifecycle.issued + Lease
          BY <5>1, <5>2, Zenon DEF LeaseInv, Inv, CapInv
        <5> QED
          BY ONLY <5>1, <5>2, <5>3, BoundsAssumption, LifecycleAssumption
      <4>2. Gate!ready_until(renewed, now) = lifecycle.issued + Lease
        <5>1. /\ renewed.observed = now /\ renewed.state = "Ready"
              /\ renewed.query = 0 /\ renewed.deadline = lifecycle.issued + Lease
          BY Zenon DEF Gate!report
        <5>2. ~(now >= lifecycle.issued + Lease) /\ ~(now < now)
          BY <4>1, BoundsAssumption DEF Inv, PlatformTypeOK, Lifecycles
        <5>3. Gate!IsReady(renewed, now)
          BY <5>1, <5>2, Zenon DEF Gate!IsReady, Gate!valid, Gate!Expired, Gate!advance
        <5> QED
          BY <5>1, <5>3, Zenon DEF Gate!ready_until
      <4>3. /\ authority'.epoch = observer.answer /\ ~authority'.failed
            /\ authority'.deadline =
                  Later(Gate!ready_until(renewed, now), authority.deadline)
            /\ Capacity # 0 /\ ~(Capacity > kMaximumAdmissions)
        <5>1. authority'.failed = FALSE /\ ~authority.failed
          BY <2>2, <3>2, Zenon DEF LeaseInv, Inv, IInv, TypeOK, Authorities
        <5>2. ~RevokeLocked(now)
          BY <5>1, SMTT(60) DEF RevokeLocked, Revoked
        <5> QED
          BY <2>2, <5>1, <5>2 DEF Observe, Lapsed
      <4>4. authority'.deadline = lifecycle.issued + Lease
        BY <4>1, <4>2, <4>3, BoundsAssumption DEF Later, Inv, IInv, TypeOK,
           Authorities, Time, PlatformTypeOK, Lifecycles
      <4>5. Capacity <= kMaximumAdmissions
        <5>1. ~(Capacity > kMaximumAdmissions)
          BY <4>3, Zenon
        <5> QED
          BY <5>1, BoundsAssumption DEF kMaximumAdmissions
      <4> QED
        BY <2>2, <3>2, <4>3, <4>4, <4>5, ZenonT(60) DEF LeaseInv, Gate!report, Consistent
    <3> QED
      BY <3>1, <3>2, Zenon
  <2> QED
    BY <1>1, <1>5, <2>1, <2>2, Zenon DEF Receive
<1>6. CASE FailCall
  BY <1>1, <1>6, Zenon DEF FailCall
<1>7. CASE Poll
  BY <1>2, <1>7, Zenon DEF Poll, vars, authVars
<1>8. CASE \E g \in Gates : admit_work(g) \/ prepare_work(g) \/ release_work(g)
  <2>1. ReadyCall /\ authority' = Seen(now)
    BY <1>8, ReadyAuthority, Zenon DEF admit_work, prepare_work, release_work, Admit,
       Prepared, Release, Refuse, Proceed
  <2> QED
    BY <1>2, <2>1, Zenon DEF ReadyCall
<1>9. CASE Elsewhere
  BY <1>3, <1>9, Zenon DEF Elsewhere, Tick, Stop, Retire, AuthorityStep, RevokeStop,
     RevokeReturn, BindCas, BindWrite, BindDone, PreparedCas, PublishCas,
     PublishWrite, PublishDone, LauncherStep, Adopt, ClaimSample, ClaimLoad,
     ClaimCheck, ClaimCas, authVars, adapterVars
<1> QED
  BY <1>3, <1>4, <1>5, <1>6, <1>7, <1>8, <1>9, ZenonT(60) DEF PlatformNext, Withdraw, Grant,
     Snapshot, allVars, vars, authVars, adapterVars

(* The registration's lease and the authority's are one: they are lost      *)
(* together, they begin together, and in between they end at the same time. *)
THEOREM LeasesCoincide == PlatformSpec => []LeasesAgree
<1>1. ASSUME PlatformInit PROVE LeaseInv
  <2>1. lifecycle.state = "Pending"
    BY <1>1, LifecycleAssumption DEF PlatformInit, Gate!begin, Gate!Unregistered
  <2>2. failed = FALSE /\ authority.failed = FALSE /\ authority.epoch = NoEpoch
    BY <1>1, Zenon DEF PlatformInit, Init
  <2> QED
    BY <2>1, <2>2, ZenonT(60) DEF LeaseInv
<1>2. Inv /\ Inv' /\ LeaseInv /\ [PlatformNext]_allVars => LeaseInv'
  BY LeaseStep, Zenon
<1>3. LeaseInv => LeasesAgree
  BY Zenon DEF LeaseInv, LeasesAgree
<1> QED
  BY <1>1, <1>2, <1>3, PlatformInvariance, PTL DEF PlatformSpec

(* A step of a call in progress publishes only what the call already holds. *)
LEMMA PublicationStep ==
    ASSUME NEW g \in Gates, AuthorityStep(g)
    PROVE  op'.step \in PublishSteps => op.step \in PublishSteps /\ op'.grant = op.grant
<1>1. Idle.step \notin PublishSteps /\ "Revoke" \notin PublishSteps
  BY Zenon DEF Idle, PublishSteps
<1>2. ASSUME RevokeStop(g) PROVE op'.step = "Revoke"
  BY <1>2, Zenon DEF RevokeStop, Revoking
<1>3. CASE \/ RevokeReturn \/ BindDone(g) \/ PublishDone(g) \/ PreparedCas(g)
  <2>1. op' = Idle
    BY <1>3, Zenon DEF RevokeReturn, BindDone, PublishDone, PreparedCas
  <2> QED
    BY <1>1, <2>1, Zenon
<1>4. ASSUME BindCas(g) \/ BindWrite(g) PROVE op'.step \notin PublishSteps
  <2>1. op' = Idle \/ op' = At("BindWrite", g, NoGrant) \/ op' = At("BindDone", g, NoGrant)
    BY <1>4, Zenon DEF BindCas, BindWrite
  <2>2. At("BindWrite", g, NoGrant).step \notin PublishSteps /\ At("BindDone", g, NoGrant).step \notin PublishSteps
    BY Zenon DEF PublishSteps, At
  <2> QED
    BY <1>1, <2>1, <2>2, Zenon
<1>5. CASE PublishCas(g) \/ PublishWrite(g)
  <2>1. op' = Idle \/ op' = At("PublishWrite", g, op.grant) \/ op' = At("PublishDone", g, op.grant)
    BY <1>5, Zenon DEF PublishCas, PublishWrite
  <2>2. At("PublishWrite", g, op.grant).grant = op.grant /\ At("PublishDone", g, op.grant).grant = op.grant
    BY Zenon DEF At
  <2>3. op.step = "PublishCas" \/ op.step = "PublishWrite"
    BY <1>5, Zenon DEF PublishCas, PublishWrite
  <2>4. op.step \in PublishSteps
    BY <2>3, Zenon DEF PublishSteps
  <2> QED
    BY <1>1, <2>1, <2>2, <2>4, Zenon
<1> QED
  BY <1>1, <1>2, <1>3, <1>4, <1>5, Zenon DEF AuthorityStep

(* The window being published was cut to the outstanding query's deadline,  *)
(* and no query can be issued until the publication is over.                *)
THEOREM QueryCap == PlatformSpec => []QueryCapsGrant
<1>1. PlatformInit => QueryCapsGrant
  BY DEF PlatformInit, Init, Idle, QueryCapsGrant
<1>2. ASSUME Inv, Inv', QueryCapsGrant, [PlatformNext]_allVars PROVE QueryCapsGrant'
  <2>1. CASE op'.step \notin PublishSteps
    BY <2>1, Zenon DEF QueryCapsGrant, PublishSteps
  <2>2. CASE /\ lifecycle' = lifecycle
             /\ op'.step \in PublishSteps => op.step \in PublishSteps /\ op'.grant = op.grant
    BY <1>2, <2>2, Zenon DEF QueryCapsGrant, PublishSteps
  <2>3. CASE op' = Idle
    BY <2>1, <2>3, Zenon DEF Idle, PublishSteps
  <2>4. ASSUME NEW gate, fail_locked(gate) PROVE QueryCapsGrant'
    BY <2>1, <2>4, Zenon DEF fail_locked, Revoke, RevokeLocked, Revoking, PublishSteps
  <2>5. CASE Withdraw \/ (\E e \in Epochs : Grant(e)) \/ UNCHANGED allVars
             \/ \E answer \in {platform, NoEpoch} : Snapshot(answer)
    BY <2>2, <2>5, Zenon DEF Withdraw, Grant, Snapshot, allVars, adapterVars, vars, authVars
  <2>6. CASE BeginQuery
    BY <2>3, <2>4, <2>6, ZenonT(60) DEF BeginQuery, vars, authVars
  <2>7. CASE Receive
    <3>1. CASE op'.step = "Revoke"
      BY <2>1, <3>1, Zenon DEF PublishSteps
    <3> QED
      BY ONLY <2>3, <2>4, <2>7, <3>1 DEF Receive, Observe, RevokeLocked, Revoking, vars, authVars
  <2>8. CASE FailCall \/ Poll
    BY <2>3, <2>4, <2>8, Zenon DEF FailCall, Poll, vars, authVars
  <2>9. ASSUME NEW g \in Gates, admit_work(g) \/ prepare_work(g)
        PROVE  QueryCapsGrant'
    <3>1. CASE Refuse(now) /\ op = Idle
      <4>1. op' = Idle \/ op' = Revoking(admissions)
        BY <3>1, Zenon DEF Refuse, RevokeLocked
      <4>2. Revoking(admissions).step = "Revoke"
        BY Zenon DEF Revoking
      <4> QED
        BY <2>1, <2>3, <4>1, <4>2, ZenonT(60) DEF PublishSteps
    <3>2. CASE \/ op' = Idle
               \/ op' = At("BindCas", g, NoGrant)
               \/ op' = At("PreparedCas", g, NoGrant)
      <4>1. /\ At("BindCas", g, NoGrant).step \notin PublishSteps
            /\ At("PreparedCas", g, NoGrant).step \notin PublishSteps
        BY Zenon DEF At, PublishSteps
      <4> QED
        BY <2>1, <2>3, <3>2, <4>1, Zenon
    <3> QED
      BY <2>9, <3>1, <3>2, Zenon DEF admit_work, prepare_work, Admit, Prepared, Proceed
  <2>10. ASSUME NEW g \in Gates, release_work(g) PROVE QueryCapsGrant'
    <3> DEFINE ceiling == Gate!ready_until(lifecycle, now)
    <3>1. CASE op'.step = "Revoke"
      BY <2>1, <3>1, Zenon DEF PublishSteps
    <3>2. CASE op' = At("PublishCas", g,
                        [released_at |-> now, deadline |-> Earlier(ceiling, authority.deadline)])
      <4>1. lifecycle' = Gate!advance(lifecycle, now)
        BY <1>2, <2>10, ValidGate, ZenonT(60) DEF Inv, release_work, ReadyCall, Lost
      <4>2. lifecycle.query # 0 => ceiling <= lifecycle.issued + QueryLimit
        BY ONLY <1>2, <2>10, LifecycleAssumption, BoundsAssumption, SMTT(60) DEF release_work,
           ReadyCall, Gate!ready_until, Inv, PlatformTypeOK, Lifecycles, Time
      <4>3. ceiling \in Nat /\ authority.deadline \in Nat /\ lifecycle.issued \in Nat
            /\ QueryLimit \in Nat
        BY <1>2, CeilingTypes, LifecycleAssumption, BoundsAssumption DEF Inv, IInv, TypeOK,
           Authorities, PlatformTypeOK, Lifecycles, Time
      <4>4. lifecycle.query # 0 =>
                Earlier(ceiling, authority.deadline) <= lifecycle.issued + QueryLimit
        BY ONLY <4>2, <4>3 DEF Earlier
      <4> QED
        BY <3>2, <4>1, <4>4, Zenon DEF QueryCapsGrant, At, Gate!advance
    <3> QED
      BY <2>3, <2>10, <3>1, <3>2 DEF release_work, Release, Refuse, Proceed,
         RevokeLocked, Revoking
  <2>11. CASE Elsewhere
    <3>1. ASSUME NEW g \in Gates, AuthorityStep(g) PROVE
             op'.step \in PublishSteps => op.step \in PublishSteps /\ op'.grant = op.grant
      BY <3>1, PublicationStep, Zenon
    <3>2. CASE UNCHANGED op
      BY <2>2, <2>11, <3>2, Zenon DEF Elsewhere, adapterVars
    <3> QED
      BY <2>2, <2>11, <3>1, <3>2, ZenonT(60) DEF Elsewhere, Tick, Stop, Retire, LauncherStep,
         Adopt, ClaimSample, ClaimLoad, ClaimCheck, ClaimCas, adapterVars, authVars
  <2> QED
    BY <1>2, <2>5, <2>6, <2>7, <2>8, <2>9, <2>10, <2>11, ZenonT(60) DEF PlatformNext
<1>3. Inv /\ Inv' /\ QueryCapsGrant /\ [PlatformNext]_allVars => QueryCapsGrant'
  BY <1>2, Zenon
<1> QED
  BY <1>1, <1>3, PlatformInvariance, PTL DEF PlatformSpec

-----------------------------------------------------------------------------
(* One epoch per process.                                                   *)

EpochInv == authority.epoch \in {NoEpoch, bound}

LEMMA BoundStep ==
    ASSUME [PlatformNext]_allVars, bound # NoEpoch PROVE bound' = bound
<1>1. CASE Receive
  BY <1>1, Zenon DEF Receive, Consistent
<1>2. CASE UNCHANGED bound
  BY <1>2, Zenon
<1> QED
  BY <1>1, <1>2, Zenon DEF PlatformNext, Withdraw, Grant, BeginQuery, Snapshot, FailCall,
     Poll, admit_work, prepare_work, release_work, ReadyCall, Elsewhere, adapterVars,
     allVars

(* The first epoch that an answer brought is the only one, for the adapter, *)
(* the authority and every gate.                                            *)
THEOREM EpochForever == PlatformSpec => EpochIsForever
<1> DEFINE A == /\ bound # NoEpoch => bound' = bound
                /\ authority'.epoch \in {NoEpoch, bound'}
                /\ \A g \in Gates : "Bound" \in word'[g] => epoch'[g] = bound'
<1>1. ASSUME PlatformInit PROVE EpochInv
  <2>1. authority.epoch = NoEpoch
    BY <1>1, Zenon DEF PlatformInit, Init
  <2> QED
    BY <2>1, Zenon DEF EpochInv
<1>2. ASSUME Inv, Inv', EpochInv, [PlatformNext]_allVars PROVE EpochInv' /\ A
  <2>1. bound # NoEpoch => bound' = bound
    BY <1>2, BoundStep, Zenon
  <2>2. authority'.epoch \in {NoEpoch, bound'}
    <3>1. CASE Renewal
      BY <3>1, Zenon DEF Renewal
    <3>2. CASE authority'.epoch = authority.epoch
      BY <1>2, <2>1, <3>2, Zenon DEF EpochInv
    <3> QED
      BY <1>2, <3>1, <3>2, AuthorityEffect, Zenon DEF Inv
  <2>3. ASSUME NEW g \in Gates, "Bound" \in word'[g] PROVE epoch'[g] = bound'
    BY <1>2, <2>2, <2>3, Zenon DEF Inv, IInv, AuthorityInv
  <2> QED
    BY <2>1, <2>2, <2>3, Zenon DEF EpochInv
<1>3. Inv /\ Inv' /\ EpochInv /\ [PlatformNext]_allVars => EpochInv' /\ [A]_allVars
  BY <1>2, Zenon
<1> QED
  BY <1>1, <1>3, PlatformInvariance, PTL DEF PlatformSpec, EpochIsForever
====
