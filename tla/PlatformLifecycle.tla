------------------------- MODULE PlatformLifecycle -------------------------
(***************************************************************************)
(* PlatformLifecycle (owner/native/platform_lifecycle.cpp): the observer   *)
(* thread that asks system_server for its state, the lifecycle gate that   *)
(* keeps the answers' lease, and the work calls that reach the admission   *)
(* authority.  It composes LifecycleGate with WorkAdmission and with the   *)
(* platform service, which may withdraw its epoch at any time.             *)
(*                                                                         *)
(* mutex_ of this class is held across every authority call but Retire, so *)
(* it is held whenever op # Idle.                                          *)
(***************************************************************************)
EXTENDS WorkAdmission

CONSTANTS
    QueryLimit, MaxToken, LastIssue   \* see LifecycleGate

Gate == INSTANCE LifecycleGate

ASSUME LifecycleAssumption ==
    /\ QueryLimit \in 1 .. Lease      \* the static_assert of lifecycle_core
    /\ MaxToken \in Nat \ {0} /\ LastIssue \in Nat

VARIABLES
    lifecycle,    \* gate_
    failed,       \* failed_
    bound,        \* instance_ and generation_, NoEpoch before the first answer
    observer,     \* the observer thread and the challenge it holds
    platform,     \* the epoch system_server vouches for, or NoEpoch
    lostAt        \* when each epoch was withdrawn

adapterVars == <<lifecycle, failed, bound, observer>>
platformVars == <<platform, lostAt>>
allVars == <<vars, adapterVars, platformVars>>

Never == MaxTime + Lease + 1
registration == 1       \* what start() got from begin()

-----------------------------------------------------------------------------
(* The platform service (OwnerLifecycleState): its snapshot is available    *)
(* under one generation while the user is ready and CE storage accessible.  *)

(* The user stops, CE storage goes or changes hands, or the state fails:    *)
(* revoke() moves on to a new generation, so none is ever vouched for again.*)
Withdraw ==
    /\ platform # NoEpoch
    /\ lostAt' = [lostAt EXCEPT ![platform] = now]
    /\ platform' = NoEpoch
    /\ UNCHANGED <<vars, adapterVars>>

Grant(e) ==
    /\ platform = NoEpoch /\ lostAt[e] = Never
    /\ platform' = e
    /\ UNCHANGED <<vars, adapterVars, lostAt>>

-----------------------------------------------------------------------------
(* The adapter *)

(* Mutant of fail_locked: the authority is not told. *)
fail_locked_silently(gate) ==
    /\ failed' = TRUE
    /\ lifecycle' = Gate!revoke(gate)
    /\ UNCHANGED vars

(* gate is what the operation before it left of gate_. *)
fail_locked(gate) ==
    /\ Revoke
    /\ failed' = TRUE
    /\ lifecycle' = Gate!revoke(gate)

Observing(step, challenge, answer) ==
    [step |-> step, challenge |-> challenge, answer |-> answer]

Ended == Observing("Ended", 0, NoEpoch)

(* start(), before the observer thread runs *)
PlatformInit ==
    /\ Init
    /\ lifecycle = Gate!begin(Gate!Unregistered, 0)
    /\ failed = FALSE
    /\ bound = NoEpoch
    /\ observer = Observing("Sleeping", 0, NoEpoch)
    /\ platform \in Epochs \cup {NoEpoch}
    /\ lostAt = [e \in Epochs |-> Never]

(* The first critical section of observe() *)
BeginQuery ==
    /\ op = Idle /\ observer.step = "Sleeping"
    /\ \/ /\ failed
          /\ observer' = Ended
          /\ UNCHANGED <<vars, lifecycle, failed>>
       \/ /\ ~failed /\ ~Gate!QueryGranted(lifecycle, registration, now)
          /\ fail_locked(Gate!valid(lifecycle, now))
          /\ observer' = Ended
       \/ /\ ~failed /\ Gate!QueryGranted(lifecycle, registration, now)
          /\ lifecycle' = Gate!begin_query(lifecycle, now)
          /\ observer' = Observing("Asked", lifecycle'.query, NoEpoch)
          /\ UNCHANGED <<vars, failed>>
    /\ UNCHANGED <<bound, platformVars>>

(* snapshot() runs without the mutex: the platform's state while the call   *)
(* is in flight, or a failed transaction.                                   *)
Snapshot(answer) ==
    /\ observer.step = "Asked"
    /\ observer' = Observing("Answered", observer.challenge, answer)
    /\ UNCHANGED <<vars, lifecycle, failed, bound, platformVars>>

(* Mutant of Consistent: an answer is not held against the first one. *)
ConsistentAnyEpoch(answer) == answer # NoEpoch

(* An answer that observe() takes up *)
Consistent(answer) == answer # NoEpoch /\ bound \in {NoEpoch, answer}

(* The second critical section of observe().  When Observe refuses, it has *)
(* revoked already and the Revoke of fail_locked finds nothing left to do.  *)
Receive ==
    LET answer == observer.answer
        renewed == Gate!report(lifecycle, now)
    IN
    /\ op = Idle /\ observer.step = "Answered"
    /\ \/ /\ failed
          /\ observer' = Ended
          /\ UNCHANGED <<vars, lifecycle, failed, bound>>
       \/ /\ ~failed /\ ~Consistent(answer)
          /\ fail_locked(lifecycle)
          /\ observer' = Ended
          /\ UNCHANGED bound
       \/ /\ ~failed /\ Consistent(answer)
          /\ ~Gate!ReportAccepted(lifecycle, registration,
                                  observer.challenge, now)
          /\ fail_locked(Gate!valid(lifecycle, now))
          /\ observer' = Ended
          /\ UNCHANGED bound
       \/ /\ ~failed /\ Consistent(answer)
          /\ Gate!ReportAccepted(lifecycle, registration,
                                 observer.challenge, now)
          /\ bound' = answer
          /\ Observe(answer, Gate!ready_until(renewed, now), now)
          /\ failed' = authority'.failed
          /\ lifecycle' = IF failed' THEN Gate!revoke(renewed) ELSE renewed
          /\ observer' = IF failed' THEN Ended
                         ELSE Observing("Sleeping", 0, NoEpoch)
    /\ UNCHANGED platformVars

(* A call that finds the lease gone; failed_ leaves the gate absent.        *)
Lost == failed \/ ~Gate!IsValid(lifecycle, now)

FailCall ==
    /\ op = Idle /\ Lost
    /\ fail_locked(Gate!valid(lifecycle, now))
    /\ UNCHANGED <<bound, observer, platformVars>>

(* ready() and failed(), polled by the daemon's main loop; also a work call *)
(* on a registration that is valid and not yet ready.                       *)
Poll ==
    /\ op = Idle /\ ~Lost
    /\ lifecycle' = Gate!valid(lifecycle, now)
    /\ UNCHANGED <<vars, failed, bound, observer, platformVars>>

ReadyCall ==
    /\ ~Lost /\ Gate!IsReady(lifecycle, now)
    /\ lifecycle' = Gate!valid(lifecycle, now)
    /\ UNCHANGED <<failed, bound, observer, platformVars>>

admit_work(g) == ReadyCall /\ Admit(g, now)

prepare_work(g) == ReadyCall /\ Prepared(g, now)

release_work(g) ==
    ReadyCall /\ Release(g, now, Gate!ready_until(lifecycle, now))

(* Steps of the gates, the launchers and the clock *)
Elsewhere ==
    /\ \/ Tick
       \/ \E g \in Gates : Stop(g) \/ Retire(g) \/ AuthorityStep(g)
       \/ \E l \in Launchers : LauncherStep(l)
    /\ UNCHANGED <<adapterVars, platformVars>>

PlatformNext ==
    \/ Withdraw
    \/ \E e \in Epochs : Grant(e)
    \/ BeginQuery
    \/ \E answer \in {platform, NoEpoch} : Snapshot(answer)
    \/ Receive
    \/ FailCall
    \/ Poll
    \/ \E g \in Gates : admit_work(g) \/ prepare_work(g) \/ release_work(g)
    \/ Elsewhere

(* The clock runs, the daemon's main loop keeps polling, and whoever holds  *)
(* the mutex goes on: bounded memory operations, no I/O under the lock.     *)
(* Nothing is assumed of the observer, the platform or the launchers.       *)
Fairness ==
    /\ WF_allVars(Tick /\ UNCHANGED <<adapterVars, platformVars>>)
    /\ WF_allVars(FailCall)
    /\ WF_allVars(\E g \in Gates : AuthorityStep(g)
                  /\ UNCHANGED <<adapterVars, platformVars>>)

PlatformSpec == PlatformInit /\ [][PlatformNext]_allVars
FairSpec == PlatformSpec /\ Fairness

-----------------------------------------------------------------------------
(* Properties *)

Lifecycles ==
    [state : {"Absent", "Pending", "Ready"}, generation : Nat,
     observed : 0 .. MaxTime, deadline : Time, sequence : 0 .. MaxToken,
     query : 0 .. MaxToken, issued : 0 .. MaxTime]

Observers ==
    [step : {"Sleeping", "Asked", "Answered", "Ended"},
     challenge : 0 .. MaxToken, answer : Epochs \cup {NoEpoch}]

(* Types of the adapter's state. *)
PlatformTypeOK ==
    /\ now \in 0 .. MaxTime
    /\ lifecycle \in Lifecycles
    /\ failed \in BOOLEAN
    /\ bound \in Epochs \cup {NoEpoch}
    /\ observer \in Observers
    /\ platform \in Epochs \cup {NoEpoch}
    /\ lostAt \in [Epochs -> 0 .. MaxTime \cup {Never}]

(* Freshness: permission given under an epoch ends within one lease of the  *)
(* moment the platform withdrew that epoch.  The lease runs from the issue  *)
(* of a query, so no delay of an answer, a publication or a wake extends it.*)
FreshnessBound ==
    /\ \A g \in Gates : "Released" \in word[g] =>
          grant[g].deadline <= lostAt[epoch[g]] + Lease
    /\ \A l \in Launchers : claim[l].result = "Entered" =>
          claim[l].now < lostAt[claim[l].epoch] + Lease

(* While the mutex is free the two copies of the lease are one: the adapter *)
(* and the authority have failed together, exactly when the registration is *)
(* gone; before the first answer the authority has no epoch; and while the  *)
(* registration is ready the authority has its epoch and its deadline.      *)
LeasesAgree ==
    op = Idle =>
        /\ failed = authority.failed
        /\ failed <=> lifecycle.state = "Absent"
        /\ lifecycle.state = "Pending" => authority.epoch = NoEpoch
        /\ lifecycle.state = "Ready" =>
              /\ authority.epoch = bound /\ bound # NoEpoch
              /\ authority.deadline = lifecycle.deadline

(* A window published while a query is outstanding ends no later than that  *)
(* query's own failure deadline.                                            *)
QueryCapsGrant ==
    op.step \in {"PublishCas", "PublishWrite", "PublishDone"}
        /\ lifecycle.query # 0 =>
            op.grant.deadline <= lifecycle.issued + QueryLimit

(* At most one query is outstanding and it is the one the observer thread   *)
(* holds: a registration that failed leaves no challenge behind that a late *)
(* answer could still be reported on.                                       *)
OneQuery ==
    lifecycle.query # 0 =>
        /\ observer.step \in {"Asked", "Answered"}
        /\ observer.challenge = lifecycle.query

(* The process serves one epoch: once observe() has taken up an answer, no  *)
(* later one moves the adapter, the authority or a bound gate to another,   *)
(* though the platform may withdraw the epoch and vouch for a new one       *)
(* between any two queries.                                                 *)
EpochIsForever ==
    [][/\ bound # NoEpoch => bound' = bound
       /\ authority'.epoch \in {NoEpoch, bound'}
       /\ \A g \in Gates : "Bound" \in word'[g] => epoch'[g] = bound']_allVars

(* The permission that a gate word, its fields and the launchers' results   *)
(* stand for: a window is visible from Released on.                         *)
PermitState(w) ==
    IF "Stopped" \in w THEN "Closed"
    ELSE IF "Entered" \in w THEN "Used"
    ELSE IF "Released" \in w THEN "Open" ELSE "None"

Permits ==
    [g \in Gates |->
        IF "Released" \in word[g]
        THEN [state |-> PermitState(word[g]), epoch |-> epoch[g],
              from |-> grant[g].released_at, until |-> grant[g].deadline]
        ELSE [state |-> PermitState(word[g]), epoch |-> NoEpoch,
              from |-> 0, until |-> 0]]

Entries ==
    [l \in Launchers |->
        IF claim[l].result = "Entered"
        THEN [gate |-> claim[l].gate, at |-> claim[l].now]
        ELSE [gate |-> NoGate, at |-> 0]]

Promise == INSTANCE Permission WITH
    clock <- now, lost <- lostAt, revoked <- authority.failed,
    permit <- Permits, entry <- Entries

(* The observer, the lease, the authority's locked operations and the       *)
(* launchers' atomic instructions together do no more than Permission       *)
(* allows: a window opens once, before any revocation and within a lease of *)
(* its epoch's loss; one launcher uses it, inside it; closing is final.     *)
ImplementsPermission == Promise!Spec

(* Withdrawal closes: if an epoch is lost early enough for its lease to run *)
(* out before the last clock tick, every gate bound to it is closed for     *)
(* good, though the observer may hang in Binder and never ask again.        *)
WithdrawalCloses ==
    \A e \in Epochs :
        lostAt[e] + Lease <= MaxTime ~>
            [](\A g \in Gates : "Bound" \in word[g] /\ epoch[g] = e =>
                    "Stopped" \in word[g])
====
