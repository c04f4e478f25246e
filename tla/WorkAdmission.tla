--------------------------- MODULE WorkAdmission ---------------------------
(***************************************************************************)
(* The work admission gate (owner/native/work_admission.cpp): one shared   *)
(* atomic word per reserved work, the AdmissionAuthority that binds,       *)
(* prepares, publishes and retires gates under its mutex, and the launcher *)
(* processes that claim entry through their own mapping of the gate.       *)
(*                                                                         *)
(* Every atomic instruction on the shared word is a step of its own.  The  *)
(* authority's operations are serialized by mutex_ (op # Idle means held); *)
(* Stop and ClaimEntry take no lock and interleave with everything.        *)
(***************************************************************************)
EXTENDS Integers, FiniteSets

CONSTANTS
    Gates,        \* reserved works, each with its own gate
    Launchers,    \* processes that adopt an exported gate
    Epochs,       \* valid AuthorityEpoch values
    NoEpoch,      \* the empty optional, and the epoch fields before Bind
    NoGate,       \* an operation without a gate argument
    Capacity,     \* capacity_ of the authority
    Lease,        \* kLifecycleLeaseMillis, in clock ticks
    MaxTime       \* bound: the last clock value explored

ASSUME SetsAssumption == NoEpoch \notin Epochs /\ NoGate \notin Gates
ASSUME FiniteAssumption == IsFiniteSet(Gates)
ASSUME BoundsAssumption ==
    Capacity \in Nat /\ Lease \in Nat \ {0} /\ MaxTime \in Nat

kMaximumAdmissions == 64

VARIABLES
    now,          \* CLOCK_MONOTONIC
    word,         \* Shared::flags, the set of bits that are one
    epoch,        \* Shared::epoch
    grant,        \* Shared::released_at and Shared::deadline
    admissions,   \* gates held in the authority's slots
    authority,    \* epoch_, deadline_, observed_ and failed_
    op,           \* the operation that holds the authority's mutex_
    claim         \* each launcher's progress through ClaimEntry

gateVars == <<word, epoch, grant>>
authVars == <<admissions, authority, op>>
vars == <<now, gateVars, authVars, claim>>

-----------------------------------------------------------------------------
(* The gate *)

Flags == {"Binding", "Bound", "Prepared", "Publishing", "Released", "Entered",
          "Stopped"}

Progress ==
    {{}, {"Binding"}, {"Bound"}, {"Bound", "Prepared"},
     {"Bound", "Prepared", "Publishing"}, {"Bound", "Prepared", "Released"},
     {"Bound", "Prepared", "Released", "Entered"}}

valid_word(w) == w \ {"Stopped"} \in Progress

Time == 0 .. MaxTime + Lease
Grants == [released_at : Time, deadline : Time]

(* fetch_or: sticky, takes no lock *)
Closed(g) == [word EXCEPT ![g] = @ \cup {"Stopped"}]

(* Any holder of the gate: an owner's Stop, a backend Abort, the manager. *)
Stop(g) ==
    /\ word' = Closed(g)
    /\ UNCHANGED <<now, epoch, grant, authVars, claim>>

(* compare_exchange_strong on gate g *)
Cas(g, expected, desired) ==
    /\ word[g] = expected
    /\ word' = [word EXCEPT ![g] = desired]

-----------------------------------------------------------------------------
(* The authority.  An operation's first step runs up to its first write to *)
(* a gate; Bind, Publish and RevokeLocked continue in steps of their own.  *)
(* The AdmissionResult an operation returns changes nothing here and is    *)
(* left out: a call that is refused is one that leaves the gate alone.     *)

NoGrant == [released_at |-> 0, deadline |-> 0]

Idle == [step |-> "Idle", gate |-> NoGate, grant |-> NoGrant, todo |-> {}]

Steps == {"Idle", "Revoke", "BindCas", "BindWrite", "BindDone",
          "PreparedCas", "PublishCas", "PublishWrite", "PublishDone"}

At(step, g, window) ==
    [step |-> step, gate |-> g, grant |-> window, todo |-> {}]

(* The conditions on which Fresh(t) calls RevokeLocked. *)
Lapsed(t) ==
    \/ Capacity = 0
    \/ Capacity > kMaximumAdmissions
    \/ t < authority.observed
    \/ authority.epoch # NoEpoch /\ t >= authority.deadline

Seen(t) ==
    [epoch |-> authority.epoch, deadline |-> authority.deadline,
     observed |-> t, failed |-> authority.failed]

Revoked(t) ==
    [epoch |-> authority.epoch, deadline |-> 0, observed |-> t, failed |-> TRUE]

Fresh(t) == ~Lapsed(t) /\ ~authority.failed /\ authority.epoch # NoEpoch

Revoking(gates) ==
    [step |-> "Revoke", gate |-> NoGate, grant |-> NoGrant, todo |-> gates]

(* Mutant of RevokeLocked: failed_ is set and the gates are left to expire. *)
RevokeLockedFlagOnly(t) ==
    /\ authority' = Revoked(t)
    /\ op' = op

RevokeLocked(t) ==
    /\ authority' = Revoked(t)
    /\ op' = Revoking(admissions)

(* A call that Fresh(t) refuses *)
Refuse(t) ==
    /\ ~Fresh(t)
    /\ \/ Lapsed(t) /\ RevokeLocked(t)
       \/ ~Lapsed(t) /\ authority' = Seen(t) /\ op' = op
    /\ UNCHANGED <<now, gateVars, admissions, claim>>

(* A call past Fresh(t) that goes on at next, or returns with next = Idle *)
Proceed(next, t) ==
    /\ op' = next
    /\ authority' = Seen(t)
    /\ UNCHANGED <<now, gateVars, admissions, claim>>

Revoke ==
    /\ op = Idle
    /\ RevokeLocked(authority.observed)
    /\ UNCHANGED <<now, gateVars, admissions, claim>>

RevokeStop(g) ==
    /\ op.step = "Revoke" /\ g \in op.todo
    /\ word' = Closed(g)
    /\ op' = Revoking(op.todo \ {g})
    /\ UNCHANGED <<now, epoch, grant, admissions, authority, claim>>

(* Mutant of RevokeReturn: the loop over the slots ends early. *)
RevokeReturnEarly ==
    /\ op.step = "Revoke"
    /\ op' = Idle
    /\ UNCHANGED <<now, gateVars, admissions, authority, claim>>

RevokeReturn ==
    /\ op.step = "Revoke" /\ op.todo = {}
    /\ op' = Idle
    /\ UNCHANGED <<now, gateVars, admissions, authority, claim>>

(* The evidence that Observe accepts *)
Acceptable(e, d, t) ==
    /\ e \in Epochs
    /\ d > t
    /\ d - t <= Lease
    /\ authority.epoch \in {NoEpoch, e}

Later(a, b) == IF a > b THEN a ELSE b

Observe(e, d, t) ==
    /\ op = Idle
    /\ \/ /\ Lapsed(t) \/ (~authority.failed /\ ~Acceptable(e, d, t))
          /\ RevokeLocked(t)
       \/ /\ ~Lapsed(t) /\ authority.failed
          /\ authority' = Seen(t)
          /\ op' = op
       \/ /\ ~Lapsed(t) /\ ~authority.failed /\ Acceptable(e, d, t)
          /\ authority' = [epoch |-> e, deadline |-> Later(d, authority.deadline),
                           observed |-> t, failed |-> FALSE]
          /\ op' = op
    /\ UNCHANGED <<now, gateVars, admissions, claim>>

(* Mutant of Admissible: off by one at the last slot. *)
AdmissibleOneMore(g) ==
    g \notin admissions /\ Cardinality(admissions) <= Capacity

Admissible(g) == g \notin admissions /\ Cardinality(admissions) < Capacity

Admit(g, t) ==
    /\ op = Idle
    /\ \/ Refuse(t)
       \/ Fresh(t) /\ ~Admissible(g) /\ Proceed(Idle, t)
       \/ Fresh(t) /\ Admissible(g) /\ Proceed(At("BindCas", g, NoGrant), t)

(* Mutant of BindCas: the exchange masks the Stopped bit out. *)
BindCasOverStop(g) ==
    /\ op.step = "BindCas" /\ op.gate = g
    /\ word[g] \subseteq {"Stopped"}
    /\ word' = [word EXCEPT ![g] = {"Binding"}]
    /\ op' = At("BindWrite", g, NoGrant)
    /\ UNCHANGED <<now, epoch, grant, admissions, authority, claim>>

BindCas(g) ==
    /\ op.step = "BindCas" /\ op.gate = g
    /\ \/ /\ Cas(g, {}, {"Binding"})
          /\ op' = At("BindWrite", g, NoGrant)
       \/ /\ word[g] # {}
          /\ op' = Idle
          /\ word' = word
    /\ UNCHANGED <<now, epoch, grant, admissions, authority, claim>>

BindWrite(g) ==
    /\ op.step = "BindWrite" /\ op.gate = g
    /\ epoch' = [epoch EXCEPT ![g] = authority.epoch]
    /\ op' = At("BindDone", g, NoGrant)
    /\ UNCHANGED <<now, word, grant, admissions, authority, claim>>

(* Mutant of BindDone: Bound is set and Binding is not cleared. *)
BindDoneKeepsBinding(g) ==
    /\ op.step = "BindDone" /\ op.gate = g
    /\ op' = Idle
    /\ Cas(g, {"Binding"}, {"Binding", "Bound"})
    /\ admissions' = admissions \cup {g}
    /\ UNCHANGED <<now, epoch, grant, authority, claim>>

BindDone(g) ==
    /\ op.step = "BindDone" /\ op.gate = g
    /\ op' = Idle
    /\ \/ /\ Cas(g, {"Binding"}, {"Bound"})
          /\ admissions' = admissions \cup {g}
       \/ /\ word[g] # {"Binding"}
          /\ UNCHANGED <<word, admissions>>
    /\ UNCHANGED <<now, epoch, grant, authority, claim>>

(* The gate is in a slot and its epoch() is the authority's. *)
Ours(g) ==
    g \in admissions /\ "Bound" \in word[g] /\ epoch[g] = authority.epoch

Prepared(g, t) ==
    /\ op = Idle
    /\ \/ Refuse(t)
       \/ Fresh(t) /\ ~Ours(g) /\ Proceed(Idle, t)
       \/ Fresh(t) /\ Ours(g) /\ Proceed(At("PreparedCas", g, NoGrant), t)

PreparedCas(g) ==
    /\ op.step = "PreparedCas" /\ op.gate = g
    /\ op' = Idle
    /\ \/ Cas(g, {"Bound"}, {"Bound", "Prepared"})
       \/ word[g] # {"Bound"} /\ word' = word
    /\ UNCHANGED <<now, epoch, grant, admissions, authority, claim>>

(* Mutant of Earlier: Release trusts its caller's ceiling. *)
EarlierCeilingOnly(a, b) == a

Earlier(a, b) == IF a < b THEN a ELSE b

Release(g, t, ceiling) ==
    LET until == Earlier(ceiling, authority.deadline) IN
    /\ op = Idle
    /\ \/ Refuse(t)
       \/ Fresh(t) /\ ~Ours(g) /\ Proceed(Idle, t)
       \/ /\ Fresh(t) /\ Ours(g) /\ until <= t
          /\ word' = Closed(g)
          /\ authority' = Seen(t)
          /\ UNCHANGED <<now, epoch, grant, admissions, op, claim>>
       \/ /\ Fresh(t) /\ Ours(g) /\ until > t
          /\ Proceed(At("PublishCas", g,
                        [released_at |-> t, deadline |-> until]), t)

(* Mutant of PublishCas: a released gate is published again, to renew it. *)
PublishCasRenews(g) ==
    /\ op.step = "PublishCas" /\ op.gate = g
    /\ \/ Cas(g, {"Bound", "Prepared"}, {"Bound", "Prepared", "Publishing"})
       \/ word[g] = {"Bound", "Prepared", "Released"} /\ word' = word
    /\ op' = At("PublishWrite", g, op.grant)
    /\ UNCHANGED <<now, epoch, grant, admissions, authority, claim>>

PublishCas(g) ==
    /\ op.step = "PublishCas" /\ op.gate = g
    /\ \/ /\ Cas(g, {"Bound", "Prepared"}, {"Bound", "Prepared", "Publishing"})
          /\ op' = At("PublishWrite", g, op.grant)
       \/ /\ word[g] # {"Bound", "Prepared"}
          /\ op' = Idle
          /\ word' = word
    /\ UNCHANGED <<now, epoch, grant, admissions, authority, claim>>

PublishWrite(g) ==
    /\ op.step = "PublishWrite" /\ op.gate = g
    /\ grant' = [grant EXCEPT ![g] = op.grant]
    /\ op' = At("PublishDone", g, op.grant)
    /\ UNCHANGED <<now, word, epoch, admissions, authority, claim>>

(* Mutant of PublishDone: a store in place of the compare-exchange. *)
PublishDoneStores(g) ==
    /\ op.step = "PublishDone" /\ op.gate = g
    /\ op' = Idle
    /\ word' = [word EXCEPT ![g] = {"Bound", "Prepared", "Released"}]
    /\ UNCHANGED <<now, epoch, grant, admissions, authority, claim>>

PublishDone(g) ==
    /\ op.step = "PublishDone" /\ op.gate = g
    /\ op' = Idle
    /\ \/ Cas(g, {"Bound", "Prepared", "Publishing"},
                 {"Bound", "Prepared", "Released"})
       \/ word[g] # {"Bound", "Prepared", "Publishing"} /\ word' = word
    /\ UNCHANGED <<now, epoch, grant, admissions, authority, claim>>

(* Mutant of Retire: the slot is freed while its gate is open. *)
RetireOpen(g) ==
    /\ op = Idle
    /\ g \in admissions
    /\ admissions' = admissions \ {g}
    /\ UNCHANGED <<now, gateVars, authority, op, claim>>

Retire(g) ==
    /\ op = Idle
    /\ g \in admissions /\ "Stopped" \in word[g]
    /\ admissions' = admissions \ {g}
    /\ UNCHANGED <<now, gateVars, authority, op, claim>>

-----------------------------------------------------------------------------
(* The launcher: it adopts the exported gate, samples the clock, and runs  *)
(* ClaimEntry on its own mapping.                                          *)

NoClaim == [step |-> "None", gate |-> NoGate, epoch |-> NoEpoch, now |-> 0,
            word |-> {}, result |-> "None"]

ClaimSteps == {"None", "Adopted", "Sampled", "Loaded", "Cas", "Done"}
EntryResults ==
    {"None", "Entered", "NotReleased", "Stopped", "Expired", "Foreign",
     "AlreadyEntered"}

Finish(l, result) ==
    claim' = [claim EXCEPT ![l] =
        [step |-> "Done", gate |-> @.gate, epoch |-> @.epoch, now |-> @.now,
         word |-> {}, result |-> result]]

(* Export by the coordinator, then Adopt by the launcher; the launch       *)
(* packet carries the epoch() that the coordinator read.                   *)
Exportable(g) == "Bound" \in word[g]

Adopt(l, g) ==
    /\ claim[l].step = "None"
    /\ Exportable(g) /\ valid_word(word[g])
    /\ claim' = [claim EXCEPT ![l] =
          [step |-> "Adopted", gate |-> g, epoch |-> epoch[g], now |-> 0,
           word |-> {}, result |-> "None"]]
    /\ UNCHANGED <<now, gateVars, authVars>>

ClaimSample(l) ==
    /\ claim[l].step = "Adopted"
    /\ claim' = [claim EXCEPT ![l] =
          [step |-> "Sampled", gate |-> @.gate, epoch |-> @.epoch, now |-> now,
           word |-> {}, result |-> "None"]]
    /\ UNCHANGED <<now, gateVars, authVars>>

ClaimLoad(l) ==
    /\ claim[l].step = "Sampled"
    /\ claim' = [claim EXCEPT ![l] =
          [step |-> "Loaded", gate |-> @.gate, epoch |-> @.epoch, now |-> @.now,
           word |-> word[@.gate], result |-> "None"]]
    /\ UNCHANGED <<now, gateVars, authVars>>

(* What ClaimEntry returns on the loaded word before it looks at the grant *)
EntryRefusal(c) ==
    IF "Bound" \notin c.word
    THEN IF "Stopped" \in c.word THEN "Stopped" ELSE "NotReleased"
    ELSE IF epoch[c.gate] # c.epoch THEN "Foreign"
    ELSE IF "Stopped" \in c.word THEN "Stopped"
    ELSE IF "Entered" \in c.word THEN "AlreadyEntered"
    ELSE IF "Released" \notin c.word THEN "NotReleased"
    ELSE "None"

InGrant(g, t) == grant[g].released_at <= t /\ t < grant[g].deadline

(* Mutant of ClaimCheck: the window is not looked at. *)
ClaimCheckAnytime(l) ==
    /\ claim[l].step = "Loaded"
    /\ EntryRefusal(claim[l]) = "None"
    /\ claim' = [claim EXCEPT ![l] =
          [step |-> "Cas", gate |-> @.gate, epoch |-> @.epoch, now |-> @.now,
           word |-> @.word, result |-> "None"]]
    /\ UNCHANGED <<now, word, epoch, grant, authVars>>

ClaimCheck(l) ==
    LET c == claim[l] IN
    /\ c.step = "Loaded"
    /\ \/ /\ EntryRefusal(c) # "None"
          /\ Finish(l, EntryRefusal(c))
          /\ word' = word
       \/ /\ EntryRefusal(c) = "None" /\ ~InGrant(c.gate, c.now)
          /\ word' = Closed(c.gate)
          /\ Finish(l, "Expired")
       \/ /\ EntryRefusal(c) = "None" /\ InGrant(c.gate, c.now)
          /\ claim' = [claim EXCEPT ![l] =
                [step |-> "Cas", gate |-> @.gate, epoch |-> @.epoch,
                 now |-> @.now, word |-> @.word, result |-> "None"]]
          /\ word' = word
    /\ UNCHANGED <<now, epoch, grant, authVars>>

(* Mutant of ClaimCas: a fetch_or in place of the compare-exchange. *)
ClaimCasBlind(l) ==
    /\ claim[l].step = "Cas"
    /\ word' = [word EXCEPT ![claim[l].gate] = @ \cup {"Entered"}]
    /\ Finish(l, "Entered")
    /\ UNCHANGED <<now, epoch, grant, authVars>>

ClaimCas(l) ==
    LET c == claim[l] IN
    /\ c.step = "Cas"
    /\ \/ /\ Cas(c.gate, c.word, c.word \cup {"Entered"})
          /\ Finish(l, "Entered")
       \/ /\ word[c.gate] # c.word
          /\ Finish(l, IF "Stopped" \in word[c.gate] THEN "Stopped"
                       ELSE "AlreadyEntered")
          /\ word' = word
    /\ UNCHANGED <<now, epoch, grant, authVars>>

Tick ==
    /\ now < MaxTime
    /\ now' = now + 1
    /\ UNCHANGED <<gateVars, authVars, claim>>

-----------------------------------------------------------------------------
(* The gates and the authority driven by any adapter: it may call in any   *)
(* order, and Observe's evidence and Release's ceiling are arbitrary.      *)

Init ==
    /\ now = 0
    /\ word = [g \in Gates |-> {}]
    /\ epoch = [g \in Gates |-> NoEpoch]
    /\ grant = [g \in Gates |-> NoGrant]
    /\ admissions = {}
    /\ authority = [epoch |-> NoEpoch, deadline |-> 0, observed |-> 0,
                    failed |-> FALSE]
    /\ op = Idle
    /\ claim = [l \in Launchers |-> NoClaim]

AuthorityStep(g) ==
    \/ RevokeStop(g) \/ RevokeReturn
    \/ BindCas(g) \/ BindWrite(g) \/ BindDone(g)
    \/ PreparedCas(g)
    \/ PublishCas(g) \/ PublishWrite(g) \/ PublishDone(g)

LauncherStep(l) ==
    \/ \E g \in Gates : Adopt(l, g)
    \/ ClaimSample(l) \/ ClaimLoad(l) \/ ClaimCheck(l) \/ ClaimCas(l)

Call(g) ==
    \/ Admit(g, now)
    \/ Prepared(g, now)
    \/ \E ceiling \in Time : Release(g, now, ceiling)
    \/ Retire(g)

Next ==
    \/ Tick
    \/ Revoke
    \/ \E e \in Epochs, d \in Time : Observe(e, d, now)
    \/ \E g \in Gates : Stop(g) \/ Call(g) \/ AuthorityStep(g)
    \/ \E l \in Launchers : LauncherStep(l)

Spec == Init /\ [][Next]_vars

-----------------------------------------------------------------------------
(* Properties *)

Claims ==
    [step : ClaimSteps, gate : Gates \cup {NoGate},
     epoch : Epochs \cup {NoEpoch}, now : 0 .. MaxTime, word : SUBSET Flags,
     result : EntryResults]

Authorities ==
    [epoch : Epochs \cup {NoEpoch}, deadline : Time, observed : 0 .. MaxTime,
     failed : BOOLEAN]

Operations ==
    [step : Steps, gate : Gates \cup {NoGate}, grant : Grants,
     todo : SUBSET Gates]

(* Types; every word is one the launcher's Adopt accepts as valid_word. *)
TypeOK ==
    /\ now \in 0 .. MaxTime
    /\ word \in [Gates -> SUBSET Flags]
    /\ \A g \in Gates : valid_word(word[g])
    /\ epoch \in [Gates -> Epochs \cup {NoEpoch}]
    /\ grant \in [Gates -> Grants]
    /\ admissions \in SUBSET Gates
    /\ authority \in Authorities
    /\ op \in Operations
    /\ claim \in [Launchers -> Claims]

(* Revocation closes every gate the authority ever bound before it returns: *)
(* once failed_ is set and the mutex is free, no bound gate is open.  While *)
(* it runs, only the gates it has yet to reach may be open.                 *)
RevocationClosesGates ==
    authority.failed =>
        \A g \in Gates :
            "Bound" \in word[g] => "Stopped" \in word[g] \/ g \in op.todo

(* A launcher that was let in sampled the clock inside the window that was  *)
(* published for that gate, under the epoch the gate was bound to.          *)
EntryWithinGrant ==
    \A l \in Launchers :
        claim[l].result = "Entered" =>
            /\ "Entered" \in word[claim[l].gate]
            /\ InGrant(claim[l].gate, claim[l].now)
            /\ epoch[claim[l].gate] = claim[l].epoch
            /\ claim[l].epoch = authority.epoch

(* One entry claim per gate succeeds, and the Entered bit records exactly   *)
(* that one launcher was let in.                                            *)
SingleEntry ==
    \A g \in Gates :
        "Entered" \in word[g] <=>
            \E l \in Launchers :
                /\ claim[l].gate = g /\ claim[l].result = "Entered"
                /\ \A m \in Launchers :
                      claim[m].gate = g /\ claim[m].result = "Entered" => m = l

GrantsBounded ==
    \A g \in Gates :
        "Released" \in word[g] =>
            /\ grant[g].released_at < grant[g].deadline
            /\ grant[g].deadline - grant[g].released_at <= Lease
            /\ ~authority.failed => grant[g].deadline <= authority.deadline

(* No published window reaches past the freshness the authority has, and it *)
(* opens at the clock sample of the Release call that publishes it: the     *)
(* window about to be made visible was not left behind by an earlier call.  *)
GrantWithinAuthority ==
    /\ GrantsBounded
    /\ op.step = "PublishDone" =>
          grant[op.gate].released_at = authority.observed

OpenInSlots ==
    \A g \in Gates : "Bound" \in word[g] /\ "Stopped" \notin word[g] => g \in admissions

(* Slots: never more than capacity_, and a bound gate leaves its slot only  *)
(* stopped, so an open one is always within reach of Revoke.                *)
OpenGatesRegistered == Cardinality(admissions) <= Capacity /\ OpenInSlots

(* Stop is final: no instruction of any actor changes a stopped word again, *)
(* so a late bind, preparation, publication or claim fails and the entered  *)
(* bit stays as it was.                                                     *)
StopIsFinal ==
    [][\A g \in Gates : "Stopped" \in word[g] => word'[g] = word[g]]_vars

(* Published fields do not move under a reader: the epoch is fixed once the *)
(* gate is bound, the window once it is released (no renewal extends it).   *)
PublishedFrozen ==
    [][\A g \in Gates :
          /\ "Bound" \in word[g] => epoch'[g] = epoch[g]
          /\ "Released" \in word[g] => grant'[g] = grant[g]]_vars

(* Revocation is permanent: failed_ stays set, and once the call that set   *)
(* it has returned no launcher is let in any more, whatever it had loaded.  *)
NoEntryAfterRevocation ==
    [][authority.failed =>
          /\ authority'.failed
          /\ op = Idle => \A l \in Launchers :
                claim'[l].result = "Entered" => claim[l].result = "Entered"]_vars
====
