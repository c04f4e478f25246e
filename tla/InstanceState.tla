--------------------------- MODULE InstanceState ---------------------------
(***************************************************************************)
(* InstanceState (supervision/native/instance_state.cpp): the ordering     *)
(* component that decides when one service instance may be reclaimed and   *)
(* replaced.  It does no I/O and holds no lock; one event loop makes every *)
(* call.  The object is the record s, and each member function is an       *)
(* operator that gives the object after the call.  The vector of pending   *)
(* mutations is the set of its non-zero entries.                           *)
(*                                                                         *)
(* ref is the identity a caller names, a ticket the one a reply carries.   *)
(***************************************************************************)
EXTENDS Naturals, FiniteSets

CONSTANTS
    MaxMutations,     \* max_pending_mutations
    MaxSequence,      \* max_operation_sequence
    MaxBoundary       \* max_boundary

ASSUME LimitsAssumption ==
    MaxMutations \in Nat /\ MaxSequence \in Nat /\ MaxBoundary \in Nat

Populations == {"Unknown", "Populated", "Empty", "Removed"}
Cleanups == {"NotStarted", "Stopping", "Reclaiming", "Blocked", "Retired"}
Faults == {"None", "SequenceExhausted", "BoundaryExhausted"}
CleanupResults == {"Progress", "Failed", "Reclaimed"}

(* Sequences start at one: an empty optional is the ticket of sequence 0. *)
MutationTicket(instance, sequence) ==
    [instance |-> instance, sequence |-> sequence]
ObservationTicket(instance, sequence, boundary) ==
    [instance |-> instance, sequence |-> sequence, boundary |-> boundary]
CleanupTicket(instance, sequence, boundary, observation) ==
    [instance |-> instance, sequence |-> sequence, boundary |-> boundary,
     observation_sequence |-> observation]

NoObservation == ObservationTicket(0, 0, 0)
NoCleanup == CleanupTicket(0, 0, 0, 0)

InstanceStates ==
    [identity: Nat, fault: Faults, cleanup: Cleanups,
     population: Populations, population_boundary: Nat,
     population_sequence: Nat,
     mutations: SUBSET Nat,
     observation: [instance: Nat, sequence: Nat, boundary: Nat],
     observation_expired: BOOLEAN,
     cleanup_step: [instance: Nat, sequence: Nat, boundary: Nat,
                    observation_sequence: Nat],
     boundary: Nat, operation_sequence: Nat,
     root_bound: BOOLEAN, profile_verified: BOOLEAN,
     setup_complete: BOOLEAN, active: BOOLEAN, activated_once: BOOLEAN,
     stop_latched: BOOLEAN, process_exited: BOOLEAN,
     process_reaped: BOOLEAN, initial_process_absent: BOOLEAN]

(* The constructor, for a valid identity and valid limits *)
NewInstance(identity) ==
    [identity |-> identity, fault |-> "None", cleanup |-> "NotStarted",
     population |-> "Unknown", population_boundary |-> 0,
     population_sequence |-> 0,
     mutations |-> {},
     observation |-> NoObservation, observation_expired |-> FALSE,
     cleanup_step |-> NoCleanup,
     boundary |-> 0, operation_sequence |-> 0,
     root_bound |-> FALSE, profile_verified |-> FALSE,
     setup_complete |-> FALSE, active |-> FALSE, activated_once |-> FALSE,
     stop_latched |-> FALSE, process_exited |-> FALSE,
     process_reaped |-> FALSE, initial_process_absent |-> FALSE]

-----------------------------------------------------------------------------
(* Private helpers *)

invalidate_population(s) ==
    [s EXCEPT !.population = "Unknown", !.population_boundary = 0,
              !.population_sequence = 0]

fail_closed(s, fault) ==
    [invalidate_population(s) EXCEPT
        !.fault = IF @ = "None" THEN fault ELSE @,
        !.stop_latched = TRUE, !.active = FALSE, !.cleanup = "Blocked"]

(* Mutant of advance_boundary: the limit is tested after the increment. *)
advance_boundary_late(s) ==
    LET v == invalidate_population(s) IN
    IF s.fault # "None" THEN v
    ELSE IF s.boundary > MaxBoundary THEN fail_closed(v, "BoundaryExhausted")
    ELSE [v EXCEPT !.boundary = @ + 1]

advance_boundary(s) ==
    LET v == invalidate_population(s) IN
    IF s.fault # "None" THEN v
    ELSE IF s.boundary >= MaxBoundary THEN fail_closed(v, "BoundaryExhausted")
    ELSE [v EXCEPT !.boundary = @ + 1]

(* Called without a fault: a faulted result carries no sequence. *)
issue_sequence(s) ==
    IF s.operation_sequence >= MaxSequence
    THEN fail_closed(s, "SequenceExhausted")
    ELSE [s EXCEPT !.operation_sequence = @ + 1]

block_cleanup(s) ==
    IF s.cleanup = "Retired" THEN s ELSE [s EXCEPT !.cleanup = "Blocked"]

block_if_stopped(s) == IF s.stop_latched THEN block_cleanup(s) ELSE s

ProcessAccounted(s) ==
    s.initial_process_absent \/ (s.process_exited /\ s.process_reaped)

-----------------------------------------------------------------------------
(* Mutations, setup and activation *)

begin_mutation(s, ref) ==
    IF \/ ref # s.identity \/ s.stop_latched \/ s.fault # "None"
       \/ s.cleanup # "NotStarted"
       \/ Cardinality(s.mutations) >= MaxMutations
    THEN s
    ELSE LET q == issue_sequence(s)
             b == IF q.fault = "None" THEN advance_boundary(q) ELSE q
         IN  IF b.fault # "None" THEN b
             ELSE [b EXCEPT !.mutations = @ \cup {b.operation_sequence},
                            !.setup_complete = @ /\ b.activated_once]

(* Mutant of finish_mutation: the end of a mutation moves no boundary. *)
finish_mutation_in_place(s, ticket) ==
    IF ticket.instance # s.identity \/ ticket.sequence \notin s.mutations
    THEN s
    ELSE [s EXCEPT !.mutations = @ \ {ticket.sequence}]

finish_mutation(s, ticket) ==
    IF ticket.instance # s.identity \/ ticket.sequence \notin s.mutations
    THEN s
    ELSE advance_boundary([s EXCEPT !.mutations = @ \ {ticket.sequence}])

capture_root(s, ref) ==
    IF ref # s.identity \/ s.root_bound \/ s.cleanup = "Retired" THEN s
    ELSE advance_boundary([s EXCEPT !.root_bound = TRUE])

verify_profile(s, ref) ==
    IF ref # s.identity \/ s.cleanup = "Retired" THEN s
    ELSE [s EXCEPT !.profile_verified = TRUE]

Preparable(s, ref) ==
    /\ ref = s.identity /\ s.root_bound /\ s.profile_verified
    /\ ~s.process_exited /\ ~s.stop_latched /\ s.fault = "None"
    /\ s.mutations = {} /\ s.cleanup = "NotStarted"

complete_setup(s, ref) ==
    IF Preparable(s, ref) THEN [s EXCEPT !.setup_complete = TRUE] ELSE s

activate(s, ref) ==
    IF Preparable(s, ref) /\ ~s.activated_once /\ s.setup_complete
    THEN [s EXCEPT !.activated_once = TRUE, !.active = TRUE]
    ELSE s

-----------------------------------------------------------------------------
(* Stop and the initial process *)

(* Mutant of stop: the instance stays active until its process exits. *)
stop_still_active(s, ref) ==
    IF ref # s.identity \/ s.cleanup = "Retired" \/ s.stop_latched THEN s
    ELSE advance_boundary([s EXCEPT !.stop_latched = TRUE,
                                    !.cleanup = "Stopping"])

(* Mutant of stop: a second Stop restarts the stopping phase. *)
stop_again(s, ref) ==
    IF ref # s.identity \/ s.cleanup = "Retired" THEN s
    ELSE advance_boundary([s EXCEPT !.stop_latched = TRUE, !.active = FALSE,
                                    !.cleanup = "Stopping"])

stop(s, ref) ==
    IF ref # s.identity \/ s.cleanup = "Retired" \/ s.stop_latched THEN s
    ELSE advance_boundary([s EXCEPT !.stop_latched = TRUE, !.active = FALSE,
                                    !.cleanup = "Stopping"])

report_initial_process_exit(s, ref) ==
    IF ref # s.identity \/ s.cleanup = "Retired" \/ s.initial_process_absent
    THEN s
    ELSE stop(IF s.process_exited THEN s
              ELSE advance_boundary([s EXCEPT !.process_exited = TRUE,
                                              !.active = FALSE]),
              ref)

report_initial_process_reaped(s, ref) ==
    IF \/ ref # s.identity \/ ~s.process_exited \/ s.cleanup = "Retired"
       \/ s.process_reaped
    THEN s
    ELSE advance_boundary([s EXCEPT !.process_reaped = TRUE])

report_no_initial_process(s, ref) ==
    IF \/ ref # s.identity \/ s.cleanup = "Retired" \/ s.active
       \/ s.activated_once \/ s.process_exited \/ s.process_reaped
       \/ s.mutations # {}
    THEN s
    ELSE stop(IF s.initial_process_absent THEN s
              ELSE advance_boundary([s EXCEPT !.initial_process_absent = TRUE]),
              ref)

(* Mutant of retire_unallocated: a process may still exist. *)
retire_unallocated_early(s, ref) ==
    IF \/ ref # s.identity \/ s.root_bound
       \/ ~s.stop_latched \/ s.mutations # {}
       \/ s.observation # NoObservation \/ s.cleanup_step # NoCleanup
       \/ s.fault # "None" \/ s.cleanup = "Retired"
    THEN s
    ELSE [s EXCEPT !.cleanup = "Retired"]

retire_unallocated(s, ref) ==
    IF \/ ref # s.identity \/ s.root_bound \/ ~s.initial_process_absent
       \/ ~s.stop_latched \/ s.mutations # {}
       \/ s.observation # NoObservation \/ s.cleanup_step # NoCleanup
       \/ s.fault # "None" \/ s.cleanup = "Retired"
    THEN s
    ELSE [s EXCEPT !.cleanup = "Retired"]

-----------------------------------------------------------------------------
(* Observations *)

(* Mutant of begin_observation: a reader beside a cleanup step. *)
begin_observation_anytime(s, ref) ==
    IF \/ ref # s.identity \/ ~s.root_bound
       \/ s.observation # NoObservation
       \/ s.fault # "None" \/ s.cleanup = "Retired"
    THEN s
    ELSE LET q == issue_sequence(s) IN
         IF q.fault # "None" THEN q
         ELSE [invalidate_population(q) EXCEPT
                 !.observation_expired = FALSE,
                 !.observation = ObservationTicket(q.identity,
                                     q.operation_sequence, q.boundary)]

begin_observation(s, ref) ==
    IF \/ ref # s.identity \/ ~s.root_bound
       \/ s.observation # NoObservation \/ s.cleanup_step # NoCleanup
       \/ s.fault # "None" \/ s.cleanup = "Retired"
    THEN s
    ELSE LET q == issue_sequence(s) IN
         IF q.fault # "None" THEN q
         ELSE [invalidate_population(q) EXCEPT
                 !.observation_expired = FALSE,
                 !.observation = ObservationTicket(q.identity,
                                     q.operation_sequence, q.boundary)]

(* Mutant of Observing: a reply is matched without its instance. *)
ObservingAny(s, ticket) ==
    /\ s.observation # NoObservation
    /\ ticket.sequence = s.observation.sequence
    /\ ticket.boundary = s.observation.boundary

Observing(s, ticket) ==
    s.observation # NoObservation /\ ticket = s.observation

ObservationCurrent(s, ticket) ==
    /\ ticket.instance = s.identity /\ ticket.boundary = s.boundary
    /\ s.fault = "None" /\ s.cleanup # "Retired" /\ ~s.observation_expired

observation_consumed(s) ==
    [s EXCEPT !.observation = NoObservation, !.observation_expired = FALSE]

finish_observation(s, ticket, population) ==
    LET c == observation_consumed(s) IN
    IF ~Observing(s, ticket) THEN s
    ELSE IF ~ObservationCurrent(s, ticket) THEN c
    ELSE IF population \in {"Empty", "Populated"}
    THEN LET e == [c EXCEPT !.population = population,
                            !.population_boundary = c.boundary,
                            !.population_sequence = ticket.sequence]
         IN  IF population = "Empty" THEN e ELSE block_if_stopped(e)
    ELSE block_if_stopped(invalidate_population(c))

finish_confirmed_removal(s, ticket) ==
    LET c == observation_consumed(s) IN
    IF ~Observing(s, ticket) THEN s
    ELSE IF /\ ObservationCurrent(s, ticket)
            /\ s.stop_latched /\ s.root_bound /\ ProcessAccounted(s)
            /\ s.mutations = {} /\ s.cleanup_step = NoCleanup
    THEN [c EXCEPT !.population = "Removed", !.cleanup = "Retired"]
    ELSE c

(* Mutant of observation_timed_out: expiry frees the reader's slot. *)
observation_timed_out_freed(s, ticket) ==
    IF ~Observing(s, ticket) THEN s
    ELSE block_if_stopped(invalidate_population(observation_consumed(s)))

observation_timed_out(s, ticket) ==
    IF ~Observing(s, ticket) THEN s
    ELSE block_if_stopped([invalidate_population(s) EXCEPT
                             !.observation_expired = TRUE])

acknowledge_observation_cancellation(s, ticket) ==
    IF ~Observing(s, ticket) THEN s
    ELSE invalidate_population(observation_consumed(s))

-----------------------------------------------------------------------------
(* Cleanup *)

closed_empty_boundary(s) ==
    /\ s.fault = "None" /\ s.stop_latched /\ s.root_bound
    /\ ProcessAccounted(s) /\ s.mutations = {}
    /\ s.observation = NoObservation
    /\ s.population = "Empty" /\ s.population_boundary = s.boundary
    /\ s.population_sequence # 0

can_begin_cleanup(s) ==
    /\ s.cleanup # "Retired" /\ s.cleanup_step = NoCleanup
    /\ closed_empty_boundary(s)

begin_cleanup_step(s, ref) ==
    IF ref # s.identity \/ ~can_begin_cleanup(s) THEN s
    ELSE LET q == issue_sequence(s) IN
         IF q.fault # "None" THEN q
         ELSE [q EXCEPT !.cleanup_step = CleanupTicket(q.identity,
                            q.operation_sequence, q.boundary,
                            q.population_sequence),
                        !.cleanup = "Reclaiming"]

Cleaning(s, ticket) ==
    s.cleanup_step # NoCleanup /\ ticket = s.cleanup_step

cleanup_timed_out(s, ticket) ==
    IF Cleaning(s, ticket) THEN [s EXCEPT !.cleanup = "Blocked"] ELSE s

finish_cleanup_step(s, ticket, result) ==
    LET c == [s EXCEPT !.cleanup_step = NoCleanup]
        refused == block_cleanup(invalidate_population(c))
    IN
    IF ~Cleaning(s, ticket) THEN s
    ELSE IF \/ ticket.instance # s.identity \/ ticket.boundary # s.boundary
            \/ ticket.observation_sequence # s.population_sequence
            \/ ~closed_empty_boundary(s)
         THEN refused
    ELSE CASE result = "Reclaimed" ->
                [c EXCEPT !.population = "Removed", !.cleanup = "Retired"]
           [] result = "Progress" ->
                IF c.cleanup = "Blocked" THEN c
                ELSE [c EXCEPT !.cleanup = "Reclaiming"]
           [] result = "Failed" -> refused

acknowledge_cleanup_cancellation(s, ticket) ==
    IF ~Cleaning(s, ticket) THEN s
    ELSE block_cleanup(invalidate_population(
            [s EXCEPT !.cleanup_step = NoCleanup]))

restart_allowed(s) ==
    /\ s.fault = "None" /\ s.cleanup = "Retired" /\ s.mutations = {}
    /\ s.observation = NoObservation /\ s.cleanup_step = NoCleanup
    /\ s.stop_latched /\ ProcessAccounted(s) /\ ~s.active
=============================================================================
