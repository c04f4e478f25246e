--------------------------- MODULE LifecycleGate ---------------------------
(***************************************************************************)
(* LifecycleGate (owner/native/lifecycle_core.cpp): the freshness lease of *)
(* one platform registration.  Callers serialize all operations and pass   *)
(* the clock, so each operation is a function of the gate's state s and    *)
(* the sample t: the state it leaves, and a predicate for what it returns. *)
(***************************************************************************)
EXTENDS Integers

CONSTANTS
    Lease,        \* kLifecycleLeaseMillis
    QueryLimit,   \* kLifecycleQueryMillis
    MaxToken,     \* kMaxToken
    LastIssue     \* kLastIssue

(* LifecycleGate's constructor, and revoke() *)
Unregistered ==
    [state |-> "Absent", generation |-> 0, observed |-> 0, deadline |-> 0,
     sequence |-> 0, query |-> 0, issued |-> 0]

(* Mutant of revoke: the outstanding query survives. *)
revoke_keeps_query(s) ==
    [state |-> "Absent", generation |-> s.generation, observed |-> s.observed,
     deadline |-> 0, sequence |-> s.sequence, query |-> s.query,
     issued |-> s.issued]

revoke(s) ==
    [state |-> "Absent", generation |-> s.generation, observed |-> s.observed,
     deadline |-> 0, sequence |-> s.sequence, query |-> 0, issued |-> 0]

(* advance(t) for a clock that did not go back *)
advance(s, t) ==
    [state |-> s.state, generation |-> s.generation, observed |-> t,
     deadline |-> s.deadline, sequence |-> s.sequence, query |-> s.query,
     issued |-> s.issued]

begin(s, t) ==
    IF t < s.observed THEN revoke(s)
    ELSE IF s.generation >= MaxToken \/ t > LastIssue THEN revoke(advance(s, t))
    ELSE [state |-> "Pending", generation |-> s.generation + 1, observed |-> t,
          deadline |-> t + Lease, sequence |-> s.sequence, query |-> 0,
          issued |-> 0]

(* Mutant of Expired: only an overdue query ends the lease. *)
ExpiredByQuery(s, t) ==
    t < s.observed \/ (s.query # 0 /\ t - s.issued >= QueryLimit)

(* valid(t): expiry of the lease or of an outstanding query is permanent. *)
Expired(s, t) ==
    \/ t < s.observed
    \/ s.state # "Absent" /\ t >= s.deadline
    \/ s.query # 0 /\ t - s.issued >= QueryLimit

valid(s, t) ==
    IF t < s.observed THEN revoke(s)
    ELSE IF Expired(s, t) THEN revoke(advance(s, t))
    ELSE advance(s, t)

IsValid(s, t) == valid(s, t).state # "Absent"
IsReady(s, t) == valid(s, t).state = "Ready"

(* Mutant of ready_until: the outstanding query does not cut the window. *)
ready_until_uncapped(s, t) == IF IsReady(s, t) THEN s.deadline ELSE 0

ready_until(s, t) ==
    IF ~IsReady(s, t) THEN 0
    ELSE IF s.query # 0 /\ s.issued + QueryLimit < s.deadline
         THEN s.issued + QueryLimit
         ELSE s.deadline

(* Mutant of QueryGranted: challenges are never exhausted. *)
QueryGrantedForever(s, generation, t) ==
    /\ IsValid(s, t)
    /\ generation # 0 /\ generation = s.generation
    /\ s.query = 0 /\ t <= LastIssue

(* begin_query issues a challenge and renews nothing. *)
QueryGranted(s, generation, t) ==
    /\ IsValid(s, t)
    /\ generation # 0 /\ generation = s.generation
    /\ s.query = 0
    /\ s.sequence < MaxToken /\ t <= LastIssue

begin_query(s, t) ==
    [state |-> s.state, generation |-> s.generation, observed |-> t,
     deadline |-> s.deadline, sequence |-> s.sequence + 1,
     query |-> s.sequence + 1, issued |-> t]

(* report consumes the challenge; the new lease runs from its issue.  The   *)
(* adapter only ever reports a running, unlocked user.                      *)
ReportAccepted(s, generation, challenge, t) ==
    /\ IsValid(s, t)
    /\ generation # 0 /\ generation = s.generation
    /\ challenge # 0 /\ challenge = s.query

(* Mutant of report: the lease runs from the answer's arrival. *)
report_from_arrival(s, t) ==
    [state |-> "Ready", generation |-> s.generation, observed |-> t,
     deadline |-> t + Lease, sequence |-> s.sequence, query |-> 0, issued |-> 0]

report(s, t) ==
    [state |-> "Ready", generation |-> s.generation, observed |-> t,
     deadline |-> s.issued + Lease, sequence |-> s.sequence, query |-> 0,
     issued |-> 0]
====
