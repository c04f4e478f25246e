------------------------- MODULE SupervisedService -------------------------
(***************************************************************************)
(* One service under supervision: the InstanceAllocator and the            *)
(* ServiceSlot of instance_state.cpp with the instance the slot holds, and *)
(* around them what drives it: the preparation of delegated_service.cpp    *)
(* that works under a mutation ticket, the initial process, the instance's *)
(* cgroup root and its members, and the cleanup worker process that reads  *)
(* the population and removes the subtree.  It may be slow, may die, and   *)
(* every reply ever sent may be delivered late, again, or to the instance  *)
(* that replaced its own.  delegated_service.cpp delivers a reply once; the *)
(* slot is checked against the wider adapter its tickets are made for.     *)
(***************************************************************************)
EXTENDS InstanceState

CONSTANTS
    MaxSerial         \* max_serial of the allocator

ASSUME SerialAssumption == MaxSerial \in Nat

VARIABLES
    serial,           \* InstanceAllocator::serial_
    slot_fault,       \* ServiceSlot::fault_, which copies the allocator's
    current,          \* ServiceSlot::current_, NoInstance before start()
    world,            \* external: the kernel objects of each instance
    creators,         \* tickets of preparations still at work
    ceased,           \* tickets of preparations that are done
    readers,          \* tickets of readings a worker is still at
    sightings,        \* every reading ever sent
    cleaners,         \* tickets of cleanup steps a worker is still at
    outcomes          \* every cleanup result ever sent

slotVars == <<serial, slot_fault, current>>
workerVars == <<creators, ceased, readers, sightings, cleaners, outcomes>>
vars == <<slotVars, world, workerVars>>

Serials == 1 .. MaxSerial
NoInstance == NewInstance(0)
Present == current # NoInstance
me == current.identity

Nothing == [root |-> "None", members |-> FALSE, process |-> "None"]

Init ==
    /\ serial = 0 /\ slot_fault = "None" /\ current = NoInstance
    /\ world = [i \in Serials |-> Nothing]
    /\ creators = {} /\ ceased = {}
    /\ readers = {} /\ sightings = {}
    /\ cleaners = {} /\ outcomes = {}

-----------------------------------------------------------------------------
(* The slot *)

(* Mutant of Start: a stopped instance may be replaced. *)
StartStopped ==
    /\ slot_fault = "None"
    /\ Present => current.stop_latched
    /\ IF serial >= MaxSerial
       THEN /\ slot_fault' = "SerialExhausted"
            /\ UNCHANGED <<serial, current>>
       ELSE /\ serial' = serial + 1
            /\ current' = NewInstance(serial + 1)
            /\ UNCHANGED slot_fault
    /\ UNCHANGED <<world, workerVars>>

(* ServiceSlot::start and InstanceAllocator::allocate *)
Start ==
    /\ slot_fault = "None"
    /\ Present => restart_allowed(current)
    /\ IF serial >= MaxSerial
       THEN /\ slot_fault' = "SerialExhausted"
            /\ UNCHANGED <<serial, current>>
       ELSE /\ serial' = serial + 1
            /\ current' = NewInstance(serial + 1)
            /\ UNCHANGED slot_fault
    /\ UNCHANGED <<world, workerVars>>

(* A call on the instance that has no effect outside it *)
Becomes(s) ==
    /\ Present
    /\ current' = s
    /\ UNCHANGED <<serial, slot_fault>>

-----------------------------------------------------------------------------
(* Creators *)

BeginMutation ==
    LET s == begin_mutation(current, me) IN
    /\ Becomes(s)
    /\ creators' = creators \cup
           {MutationTicket(me, q) : q \in s.mutations \ current.mutations}
    /\ UNCHANGED <<world, ceased, readers, sightings, cleaners, outcomes>>

(* Prepare makes the root, init forks the initial process and Assign puts   *)
(* it into the root (here in any order); none of it is undone by a stop.    *)
Create(t) ==
    /\ t \in creators
    /\ LET w == world[t.instance] IN
       \/ /\ w.root = "None"
          /\ world' = [world EXCEPT ![t.instance].root = "Made"]
       \/ /\ w.root = "Made"
          /\ world' = [world EXCEPT ![t.instance].members = TRUE]
       \/ /\ w.process = "None"
          /\ world' = [world EXCEPT ![t.instance].process = "Running"]
    /\ UNCHANGED <<slotVars, workerVars>>

(* Prepare fails or Assign ends: FinishPreparation has nothing more to make. *)
Cease(t) ==
    /\ t \in creators
    /\ creators' = creators \ {t}
    /\ ceased' = ceased \cup {t}
    /\ UNCHANGED <<slotVars, world, readers, sightings, cleaners, outcomes>>

FinishMutation(t) ==
    /\ t \in ceased
    /\ Becomes(finish_mutation(current, t))
    /\ UNCHANGED <<world, workerVars>>

CaptureRoot ==
    /\ Present /\ world[me].root = "Made"
    /\ Becomes(capture_root(current, me))
    /\ UNCHANGED <<world, workerVars>>

VerifyProfile ==
    /\ Becomes(verify_profile(current, me))
    /\ UNCHANGED <<world, workerVars>>

(* complete_setup attests the readiness of an actual initial process. *)
CompleteSetup ==
    /\ Present /\ world[me].process # "None"
    /\ Becomes(complete_setup(current, me))
    /\ UNCHANGED <<world, workerVars>>

Activate ==
    /\ Becomes(activate(current, me))
    /\ UNCHANGED <<world, workerVars>>

Stop ==
    /\ Becomes(stop(current, me))
    /\ UNCHANGED <<world, workerVars>>

-----------------------------------------------------------------------------
(* The kernel: members leave, the initial process exits and is reaped. *)

Leave(i) ==
    /\ world[i].members
    /\ world' = [world EXCEPT ![i].members = FALSE]
    /\ UNCHANGED <<slotVars, workerVars>>

Exit(i) ==
    /\ world[i].process = "Running"
    /\ world' = [world EXCEPT ![i].process = "Exited"]
    /\ UNCHANGED <<slotVars, workerVars>>

Reap(i) ==
    /\ world[i].process = "Exited"
    /\ world' = [world EXCEPT ![i].process = "Reaped"]
    /\ UNCHANGED <<slotVars, workerVars>>

ReportExit ==
    /\ Present /\ world[me].process \in {"Exited", "Reaped"}
    /\ Becomes(report_initial_process_exit(current, me))
    /\ UNCHANGED <<world, workerVars>>

ReportReaped ==
    /\ Present /\ world[me].process = "Reaped"
    /\ Becomes(report_initial_process_reaped(current, me))
    /\ UNCHANGED <<world, workerVars>>

(* The adapter knows that it made no process; that no creator still can is *)
(* what the call itself checks.                                             *)
ReportNoProcess ==
    /\ Present /\ world[me].process = "None"
    /\ Becomes(report_no_initial_process(current, me))
    /\ UNCHANGED <<world, workerVars>>

RetireUnallocated ==
    /\ Present /\ world[me].root = "None"
    /\ Becomes(retire_unallocated(current, me))
    /\ UNCHANGED <<world, workerVars>>

-----------------------------------------------------------------------------
(* Readings *)

Sighting(ticket, population) == [ticket |-> ticket, population |-> population]

(* What a worker that reads the captured root's cgroup.events now may send: *)
(* a failed or malformed read is Unknown, ENODEV is Removed, and a removal  *)
(* is Confirmed once the name is gone from the parent too.                  *)
Sighted(w) ==
    {"Unknown"} \cup
    (CASE w.root = "Made" -> {IF w.members THEN "Populated" ELSE "Empty"}
       [] w.root = "Gone" -> {"Removed", "Confirmed"}
       [] OTHER -> {})

BeginObservation ==
    LET s == begin_observation(current, me) IN
    /\ Becomes(s)
    /\ readers' = IF s.observation = current.observation THEN readers
                  ELSE readers \cup {s.observation}
    /\ UNCHANGED <<world, creators, ceased, sightings, cleaners, outcomes>>

(* The worker answers Observe or ConfirmRemoved. *)
Read(t) ==
    /\ t \in readers
    /\ \E p \in Sighted(world[t.instance]) :
          sightings' = sightings \cup {Sighting(t, p)}
    /\ readers' = readers \ {t}
    /\ UNCHANGED <<slotVars, world, creators, ceased, cleaners, outcomes>>

(* The worker process dies and init reaps it. *)
ReaderDies(t) ==
    /\ t \in readers
    /\ readers' = readers \ {t}
    /\ UNCHANGED <<slotVars, world, creators, ceased, sightings, cleaners,
                   outcomes>>

FinishObservation(r) ==
    /\ r \in sightings
    /\ Becomes(IF r.population = "Confirmed"
               THEN finish_confirmed_removal(current, r.ticket)
               ELSE finish_observation(current, r.ticket, r.population))
    /\ UNCHANGED <<world, workerVars>>

ObservationTimedOut ==
    /\ Becomes(observation_timed_out(current, current.observation))
    /\ UNCHANGED <<world, workerVars>>

(* Acknowledges that the reader has ceased; it is not a request. *)
AcknowledgeObservation ==
    /\ current.observation \notin readers
    /\ Becomes(acknowledge_observation_cancellation(current,
                                                    current.observation))
    /\ UNCHANGED <<world, workerVars>>

-----------------------------------------------------------------------------
(* Cleanup steps *)

Outcome(ticket, result) == [ticket |-> ticket, result |-> result]

BeginCleanup ==
    LET s == begin_cleanup_step(current, me) IN
    /\ Becomes(s)
    /\ cleaners' = IF s.cleanup_step = current.cleanup_step THEN cleaners
                   ELSE cleaners \cup {s.cleanup_step}
    /\ UNCHANGED <<world, creators, ceased, readers, sightings, outcomes>>

(* The cursor's last rmdir; the kernel refuses it while there are members.  *)
Remove(t) ==
    /\ t \in cleaners
    /\ world[t.instance].root = "Made" /\ ~world[t.instance].members
    /\ world' = [world EXCEPT ![t.instance].root = "Gone"]
    /\ UNCHANGED <<slotVars, workerVars>>

(* The reply to Step: an error is Failed, a Retired cursor Reclaimed. *)
CleanerReplies(t, result) ==
    /\ t \in cleaners
    /\ result = "Reclaimed" => world[t.instance].root = "Gone"
    /\ outcomes' = outcomes \cup {Outcome(t, result)}
    /\ cleaners' = cleaners \ {t}
    /\ UNCHANGED <<slotVars, world, creators, ceased, readers, sightings>>

CleanerDies(t) ==
    /\ t \in cleaners
    /\ cleaners' = cleaners \ {t}
    /\ UNCHANGED <<slotVars, world, creators, ceased, readers, sightings,
                   outcomes>>

FinishCleanup(r) ==
    /\ r \in outcomes
    /\ Becomes(finish_cleanup_step(current, r.ticket, r.result))
    /\ UNCHANGED <<world, workerVars>>

CleanupTimedOut ==
    /\ Becomes(cleanup_timed_out(current, current.cleanup_step))
    /\ UNCHANGED <<world, workerVars>>

AcknowledgeCleanup ==
    /\ current.cleanup_step \notin cleaners
    /\ Becomes(acknowledge_cleanup_cancellation(current,
                                                current.cleanup_step))
    /\ UNCHANGED <<world, workerVars>>

Next ==
    \/ Start \/ BeginMutation \/ CaptureRoot
    \/ VerifyProfile \/ CompleteSetup \/ Activate \/ Stop
    \/ ReportExit \/ ReportReaped \/ ReportNoProcess \/ RetireUnallocated
    \/ BeginObservation \/ ObservationTimedOut \/ AcknowledgeObservation
    \/ BeginCleanup \/ CleanupTimedOut \/ AcknowledgeCleanup
    \/ \E t \in creators : Create(t) \/ Cease(t)
    \/ \E t \in ceased : FinishMutation(t)
    \/ \E i \in Serials : Leave(i) \/ Exit(i) \/ Reap(i)
    \/ \E t \in readers : Read(t) \/ ReaderDies(t)
    \/ \E r \in sightings : FinishObservation(r)
    \/ \E t \in cleaners :
          \/ Remove(t) \/ CleanerDies(t)
          \/ \E x \in CleanupResults : CleanerReplies(t, x)
    \/ \E r \in outcomes : FinishCleanup(r)

Spec == Init /\ [][Next]_vars

-----------------------------------------------------------------------------
(* Properties *)

Tickets == [instance: Serials, sequence: 1 .. MaxSequence]
Readings == [instance: Serials, sequence: 1 .. MaxSequence,
             boundary: 0 .. MaxBoundary]
Steps == [instance: Serials, sequence: 1 .. MaxSequence,
          boundary: 0 .. MaxBoundary, observation_sequence: 1 .. MaxSequence]

(* The instance is an InstanceState whose counters never pass their limits; *)
(* what is in flight carries identities that were issued.                   *)
SupervisedTypeOK ==
    /\ serial \in 0 .. MaxSerial
    /\ slot_fault \in {"None", "SerialExhausted"}
    /\ current \in InstanceStates
    /\ me = serial
    /\ current.boundary \in 0 .. MaxBoundary
    /\ current.operation_sequence \in 0 .. MaxSequence
    /\ current.mutations \subseteq 1 .. current.operation_sequence
    /\ world \in [Serials -> [root: {"None", "Made", "Gone"},
                              members: BOOLEAN,
                              process: {"None", "Running", "Exited",
                                        "Reaped"}]]
    /\ creators \subseteq Tickets /\ ceased \subseteq Tickets
    /\ readers \subseteq Readings
    /\ sightings \subseteq [ticket: Readings,
                            population: Populations \cup {"Confirmed"}]
    /\ cleaners \subseteq Steps
    /\ outcomes \subseteq [ticket: Steps, result: CleanupResults]

(* Nothing of instance i runs, and nothing can start to. *)
Quiet(i) ==
    /\ ~world[i].members /\ world[i].process \in {"None", "Reaped"}
    /\ \A t \in creators : t.instance # i

(* "Cleanup runs only after this fence, initial service exit AND reap, and  *)
(* fresh exact-root Empty evidence": while a cleanup worker runs, its       *)
(* instance has no member, no creator and no initial process, however old   *)
(* the readings and completions are that were delivered meanwhile.          *)
ReclaimOnlyQuiet == \A t \in cleaners : Quiet(t.instance)

(* A cleanup step in flight keeps the evidence it was issued for, so the    *)
(* branch of finish_cleanup_step that refuses a stale step is never taken.  *)
StepEvidenceCurrent ==
    current.cleanup_step # NoCleanup =>
        /\ closed_empty_boundary(current)
        /\ current.cleanup_step.instance = me
        /\ current.cleanup_step.boundary = current.boundary
        /\ current.cleanup_step.observation_sequence
               = current.population_sequence

(* Retirement is never early: nothing of a retired instance is left in the  *)
(* kernel and none of its workers is still at work.                         *)
RetiredOwesNothing ==
    current.cleanup = "Retired" =>
        /\ Quiet(me) /\ world[me].root # "Made"
        /\ readers = {} /\ cleaners = {}

(* The restart fence: whatever the slot holds, no instance before it has a  *)
(* root, a member, a process or a creator.                                  *)
NoOverlap ==
    \A i \in Serials : i # me => Quiet(i) /\ world[i].root # "Made"

(* A timeout frees no slot: there is never a second reader or cleanup       *)
(* worker beside one that has not ceased.                                   *)
OneWorker == Cardinality(readers) + Cardinality(cleaners) <= 1

(* An active instance is live and unstopped, and has the root and the      *)
(* process it was set up with; no cleanup worker is near it.                *)
ActiveOwnsRoot ==
    current.active => /\ ~current.stop_latched /\ ~current.process_exited
                      /\ current.cleanup = "NotStarted"
                      /\ world[me].root = "Made"
                      /\ world[me].process # "None"
                      /\ cleaners = {}

(* Exhaustion is a permanent quarantine: the instance stays stopped and     *)
(* Blocked with its first fault, and is never retired or replaced.          *)
QuarantineForever ==
    [][current.fault # "None" =>
          /\ current'.fault = current.fault /\ me' = me
          /\ current'.cleanup = "Blocked"
          /\ current'.stop_latched /\ ~current'.active]_vars
=============================================================================
