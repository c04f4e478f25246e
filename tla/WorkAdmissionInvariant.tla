------------------------ MODULE WorkAdmissionInvariant ------------------------
(* The safety of the admission gate for any number of gates, launchers and  *)
(* epochs, any capacity, lease and clock bound.                             *)
EXTENDS WorkAdmission, FiniteSetTheorems, TLAPS

-----------------------------------------------------------------------------
(* The inductive invariant: what is true while the mutex is held, and what  *)
(* a launcher's private copy of the word still means.                       *)

BindSteps == {"BindCas", "BindWrite", "BindDone"}
PublishSteps == {"PublishCas", "PublishWrite", "PublishDone"}

Held(w) == w \ {"Stopped"}

(* The facts an operation established under the mutex still hold when it    *)
(* goes on, because no other operation can have run in between.             *)
OpInv ==
    /\ op.step = "Idle" => op = Idle
    /\ op.step = "Revoke" => authority.failed /\ op.todo \subseteq admissions
    /\ op.step # "Revoke" => op.todo = {}
    /\ op.step \in BindSteps =>
          /\ op.gate \in Gates \ admissions
          /\ authority.epoch # NoEpoch /\ ~authority.failed
    /\ op.step \in PublishSteps \cup {"PreparedCas"} =>
          op.gate \in admissions /\ ~authority.failed
    /\ op.step \in PublishSteps =>
          /\ op.grant.released_at < op.grant.deadline
          /\ op.grant.deadline - op.grant.released_at <= Lease
          /\ op.grant.deadline <= authority.deadline
          /\ op.grant.released_at = authority.observed

(* Inside the Binding and Publishing windows only Stop can touch the word.  *)
WindowInv ==
    /\ op.step \in {"BindWrite", "BindDone"} => Held(word[op.gate]) = {"Binding"}
    /\ op.step = "BindDone" => epoch[op.gate] = authority.epoch
    /\ op.step \in {"PublishWrite", "PublishDone"} =>
          Held(word[op.gate]) = {"Bound", "Prepared", "Publishing"}
    /\ op.step = "PublishDone" => grant[op.gate] = op.grant

(* Bound gates carry the authority's epoch; gates in slots are bound; the   *)
(* authority's deadline is at most one lease past its last observation.     *)
AuthorityInv ==
    /\ \A g \in Gates : "Bound" \in word[g] =>
          epoch[g] = authority.epoch /\ authority.epoch # NoEpoch
    /\ \A g \in admissions : "Bound" \in word[g]
    /\ authority.observed <= now
    /\ authority.deadline <= authority.observed + Lease

(* What a launcher knows at each step of ClaimEntry.                        *)
ClaimInv ==
    \A l \in Launchers :
        /\ claim[l].step # "None" =>
              /\ claim[l].gate \in Gates
              /\ "Bound" \in word[claim[l].gate]
              /\ claim[l].epoch = epoch[claim[l].gate]
        /\ claim[l].step = "Loaded" => valid_word(claim[l].word)
        /\ claim[l].step \in {"Loaded", "Cas"} /\ "Released" \in claim[l].word =>
              "Released" \in word[claim[l].gate]
        /\ claim[l].step = "Cas" =>
              /\ claim[l].word = {"Bound", "Prepared", "Released"}
              /\ InGrant(claim[l].gate, claim[l].now)
        /\ claim[l].result = "Entered" =>
              /\ claim[l].step = "Done"
              /\ "Released" \in word[claim[l].gate]

IInv ==
    /\ TypeOK
    /\ OpInv
    /\ WindowInv
    /\ AuthorityInv
    /\ ClaimInv
    /\ RevocationClosesGates
    /\ EntryWithinGrant
    /\ SingleEntry
    /\ GrantsBounded
    /\ OpenInSlots

(* Frozen bits and fields: what no step of the authority or of Stop takes   *)
(* back, whoever holds a copy.                                              *)
GateStep ==
    \A h \in Gates :
        /\ "Bound" \in word[h] => "Bound" \in word'[h] /\ epoch'[h] = epoch[h]
        /\ "Released" \in word[h] =>
              "Released" \in word'[h] /\ grant'[h] = grant[h]
        /\ "Stopped" \in word[h] => "Stopped" \in word'[h]
        /\ "Entered" \in word'[h] <=> "Entered" \in word[h]

(* A step that only moves gates forward leaves every launcher's knowledge,  *)
(* and every entry that was granted, as they were.                          *)
LEMMA ClaimsStable ==
    ASSUME IInv, GateStep, claim' = claim,
           authority'.epoch = authority.epoch
    PROVE  ClaimInv' /\ EntryWithinGrant' /\ SingleEntry'
<1>1. ClaimInv'
  BY DEF IInv, GateStep, ClaimInv, InGrant, valid_word
<1>2. EntryWithinGrant'
  BY Zenon DEF IInv, GateStep, ClaimInv, EntryWithinGrant, InGrant
<1>3. SingleEntry'
  BY DEF IInv, GateStep, SingleEntry
<1> QED
  BY <1>1, <1>2, <1>3, Zenon

(* A step that leaves the clock, the gates and the authority alone disturbs *)
(* nothing that is said about them.                                         *)
LEMMA AuthorityStable ==
    ASSUME IInv, UNCHANGED <<now, gateVars, authVars>>
    PROVE  /\ OpInv' /\ WindowInv' /\ AuthorityInv' /\ RevocationClosesGates'
           /\ GrantsBounded' /\ OpenInSlots'
<1> USE DEF IInv, gateVars, authVars
<1>1. OpInv' /\ WindowInv'
  BY Zenon DEF OpInv, Idle, WindowInv
<1>2. AuthorityInv' /\ RevocationClosesGates'
  BY Zenon DEF AuthorityInv, RevocationClosesGates
<1>3. GrantsBounded' /\ OpenInSlots'
  BY Zenon DEF GrantsBounded, OpenInSlots
<1> QED
  BY <1>1, <1>2, <1>3, Zenon

(* The words the compare-exchanges install are valid, and Stop keeps any    *)
(* word valid.                                                              *)
LEMMA WordFacts ==
    /\ \A w \in Progress : valid_word(w) /\ w \in SUBSET Flags /\ Held(w) = w
    /\ \A w \in SUBSET Flags : valid_word(w) =>
          /\ valid_word(w \cup {"Stopped"})
          /\ w \cup {"Stopped"} \in SUBSET Flags
          /\ Held(w \cup {"Stopped"}) = Held(w)
<1>1. ASSUME NEW w \in Progress PROVE valid_word(w) /\ w \in SUBSET Flags /\ Held(w) = w
  <2>1. w \in SUBSET Flags /\ "Stopped" \notin w
    BY <1>1, Zenon DEF Progress, Flags
  <2>2. w \ {"Stopped"} = w
    BY <2>1, Zenon
  <2> QED
    BY <2>1, <2>2, Zenon DEF valid_word, Held
<1>2. ASSUME NEW w \in SUBSET Flags, valid_word(w)
      PROVE  /\ valid_word(w \cup {"Stopped"})
             /\ w \cup {"Stopped"} \in SUBSET Flags
             /\ Held(w \cup {"Stopped"}) = Held(w)
  <2>1. (w \cup {"Stopped"}) \ {"Stopped"} = w \ {"Stopped"}
    BY Zenon
  <2> QED
    BY <1>2, <2>1, Zenon DEF valid_word, Held, Flags
<1> QED
  BY <1>1, <1>2, Zenon

(* The words that the compare-exchanges install.                            *)
ValidFlags == {w \in SUBSET Flags : valid_word(w)}

LEMMA CasWords ==
    /\ {"Binding"} \in ValidFlags
    /\ {"Bound"} \in ValidFlags
    /\ {"Bound", "Prepared"} \in ValidFlags
    /\ {"Bound", "Prepared", "Publishing"} \in ValidFlags
    /\ {"Bound", "Prepared", "Released"} \in ValidFlags
    /\ {"Bound", "Prepared", "Released", "Entered"} \in ValidFlags
<1>1. Progress \subseteq ValidFlags
  BY WordFacts, Zenon DEF ValidFlags
<1> QED
  BY <1>1, Zenon DEF Progress

LEMMA WordTypes ==
    ASSUME TypeOK, NEW g \in Gates, NEW w \in ValidFlags,
           word' = [word EXCEPT ![g] = w]
    PROVE  word' \in [Gates -> SUBSET Flags] /\ \A h \in Gates : valid_word(word'[h])
  BY Zenon DEF TypeOK, ValidFlags

LEMMA StoppedWord ==
    ASSUME TypeOK, NEW g \in Gates
    PROVE  word[g] \cup {"Stopped"} \in ValidFlags
  BY WordFacts, Zenon DEF TypeOK, ValidFlags

LEMMA ReleasedWord ==
    ASSUME NEW w \in SUBSET Flags, valid_word(w), "Released" \in w,
           "Stopped" \notin w, "Entered" \notin w
    PROVE  w = {"Bound", "Prepared", "Released"}
<1>1. w \ {"Stopped"} = w
  BY Zenon
<1>2. w \in Progress
  BY <1>1, Zenon DEF valid_word
<1> QED
  BY <1>2, Zenon DEF Progress

(* The authority's record after Fresh, after a revocation and after an      *)
(* accepted observation.                                                    *)
LEMMA AuthorityTypes ==
    ASSUME TypeOK
    PROVE  /\ Seen(now) \in Authorities
           /\ Revoked(now) \in Authorities
           /\ Revoked(authority.observed) \in Authorities
           /\ \A e \in Epochs, d \in Time :
                 [epoch |-> e, deadline |-> Later(d, authority.deadline),
                  observed |-> now, failed |-> FALSE] \in Authorities
<1>1. /\ now \in 0 .. MaxTime /\ 0 \in Time
      /\ authority \in Authorities
  BY BoundsAssumption DEF TypeOK, Time
<1>2. \A d \in Time : Later(d, authority.deadline) \in Time
  BY <1>1, Zenon DEF Later, Authorities
<1> QED
  BY <1>1, <1>2, Zenon DEF Authorities, Seen, Revoked

-----------------------------------------------------------------------------
(* What the operation that holds the mutex may be.                          *)

LEMMA OpTypes ==
    /\ NoGrant \in Grants
    /\ \A a, b \in Time : [released_at |-> a, deadline |-> b] \in Grants
    /\ Idle \in Operations
    /\ \A S \in SUBSET Gates : Revoking(S) \in Operations
    /\ \A step \in Steps, g \in Gates, window \in Grants :
          At(step, g, window) \in Operations
<1>1. \A a, b \in Time : [released_at |-> a, deadline |-> b] \in Grants
  BY Zenon DEF Grants
<1>2. 0 \in Time
  BY BoundsAssumption DEF Time
<1>3. NoGrant \in Grants
  BY <1>1, <1>2, Zenon DEF NoGrant
<1>4. "Idle" \in Steps /\ "Revoke" \in Steps
  BY Zenon DEF Steps
<1> QED
  BY <1>1, <1>3, <1>4, Zenon DEF Idle, Revoking, At, Operations

(* A call that has returned leaves nothing to say of it.                    *)
LEMMA IdleOp ==
    ASSUME op' = Idle PROVE OpInv' /\ WindowInv' /\ op'.todo = {}
<1>1. op'.step = "Idle" /\ op'.todo = {}
  BY Zenon DEF Idle
<1> QED
  BY <1>1 DEF OpInv, WindowInv, BindSteps, PublishSteps

(* A revocation in progress: failed_ is set, and its gates are in slots.    *)
LEMMA RevokingOp ==
    ASSUME NEW S \in SUBSET admissions', op' = Revoking(S), authority'.failed
    PROVE  OpInv' /\ WindowInv' /\ op'.todo = S
<1>1. op'.step = "Revoke" /\ op'.todo = S
  BY Zenon DEF Revoking
<1> QED
  BY <1>1 DEF OpInv, WindowInv, BindSteps, PublishSteps

(* A step beside the operation in progress leaves it where it was.          *)
LEMMA OpKept ==
    ASSUME IInv, UNCHANGED <<op, admissions, authority>> PROVE OpInv'
  BY Zenon DEF IInv, OpInv

-----------------------------------------------------------------------------
(* Steps that publish nothing.                                              *)

(* The bits and fields that the authority's side of the invariant reads.    *)
SameBits ==
    \A h \in Gates :
        /\ "Bound" \in word'[h] <=> "Bound" \in word[h]
        /\ "Released" \in word'[h] <=> "Released" \in word[h]
        /\ "Stopped" \in word[h] => "Stopped" \in word'[h]
        /\ "Bound" \in word[h] => epoch'[h] = epoch[h]
        /\ "Released" \in word[h] => grant'[h] = grant[h]

(* The authority keeps its epoch, its deadline and failed_.                 *)
AuthorityKept ==
    /\ authority'.epoch = authority.epoch
    /\ authority'.deadline = authority.deadline
    /\ authority'.failed = authority.failed
    /\ authority.observed <= authority'.observed
    /\ authority'.observed <= now'

LEMMA GatesKept ==
    ASSUME IInv, authority' \in Authorities, SameBits, AuthorityKept,
           admissions' = admissions, op'.todo = op.todo
    PROVE  AuthorityInv' /\ RevocationClosesGates' /\ GrantsBounded' /\ OpenInSlots'
<1>1. admissions \subseteq Gates
  BY Zenon DEF IInv, TypeOK
<1>2. AuthorityInv'
  <2>1. /\ \A g \in Gates : "Bound" \in word'[g] =>
              epoch'[g] = authority'.epoch /\ authority'.epoch # NoEpoch
        /\ \A g \in admissions' : "Bound" \in word'[g]
    BY <1>1, Zenon DEF IInv, AuthorityInv, SameBits, AuthorityKept
  <2>2. /\ authority.observed \in Nat /\ authority'.observed \in Nat
        /\ authority.deadline \in Nat /\ Lease \in Nat
    BY BoundsAssumption DEF IInv, TypeOK, Authorities, Time
  <2>3. authority.deadline <= authority.observed + Lease
    BY Zenon DEF IInv, AuthorityInv
  <2>4. authority'.deadline <= authority'.observed + Lease
    BY ONLY <2>2, <2>3, AuthorityKept DEF AuthorityKept
  <2> QED
    BY <2>1, <2>4, Zenon DEF AuthorityInv, AuthorityKept
<1>3. RevocationClosesGates'
  BY Zenon DEF IInv, RevocationClosesGates, SameBits, AuthorityKept
<1>4. GrantsBounded'
  BY Zenon DEF IInv, GrantsBounded, SameBits, AuthorityKept
<1>5. OpenInSlots'
  BY Zenon DEF IInv, OpenInSlots, SameBits
<1> QED
  BY <1>2, <1>3, <1>4, <1>5, Zenon

(* So such a step need only account for its types and its operation.        *)
LEMMA QuietStep ==
    ASSUME IInv, TypeOK', OpInv', WindowInv', GateStep, SameBits, AuthorityKept,
           claim' = claim, admissions' = admissions, op'.todo = op.todo
    PROVE  IInv'
<1>1. authority' \in Authorities
  BY Zenon DEF TypeOK
<1>2. ClaimInv' /\ EntryWithinGrant' /\ SingleEntry'
  BY ClaimsStable, Zenon DEF AuthorityKept
<1> QED
  BY <1>1, <1>2, GatesKept, Zenon DEF IInv

(* The authority as it was, or as Fresh(now) leaves it.                     *)
LEMMA AuthoritySeen ==
    ASSUME IInv, now' = now, authority' \in {authority, Seen(now)}
    PROVE  AuthorityKept /\ authority' \in Authorities
<1>1. authority \in Authorities /\ Seen(now) \in Authorities
  BY AuthorityTypes, Zenon DEF IInv, TypeOK
<1>2. authority.observed <= now
  BY Zenon DEF IInv, AuthorityInv
<1>3. authority.observed \in Nat /\ now \in Nat
  BY BoundsAssumption DEF IInv, TypeOK, Authorities
<1>4. authority.observed <= authority.observed /\ now <= now
  BY ONLY <1>3
<1>5. CASE authority' = authority
  BY <1>1, <1>2, <1>4, <1>5, Zenon DEF AuthorityKept
<1>6. CASE authority' = Seen(now)
  BY <1>1, <1>2, <1>4, <1>6, Zenon DEF AuthorityKept, Seen
<1> QED
  BY <1>5, <1>6, Zenon

(* A compare-exchange that publishes nothing.                               *)
LEMMA WordStep ==
    ASSUME TypeOK, NEW g \in Gates, NEW w \in ValidFlags,
           word' = [word EXCEPT ![g] = w], UNCHANGED <<epoch, grant>>,
           "Bound" \in w <=> "Bound" \in word[g],
           "Released" \in w <=> "Released" \in word[g],
           "Entered" \in w <=> "Entered" \in word[g],
           "Stopped" \in word[g] => "Stopped" \in w
    PROVE  /\ GateStep /\ SameBits
           /\ word' \in [Gates -> SUBSET Flags]
           /\ \A h \in Gates : valid_word(word'[h])
<1>1. word' \in [Gates -> SUBSET Flags] /\ \A h \in Gates : valid_word(word'[h])
  BY WordTypes, Zenon
<1>2. \A h \in Gates : word'[h] = IF h = g THEN w ELSE word[h]
  BY Zenon DEF TypeOK
<1> QED
  BY <1>1, <1>2, Zenon DEF GateStep, SameBits

(* Stop's fetch_or.                                                         *)
LEMMA ClosedGate ==
    ASSUME TypeOK, NEW g \in Gates, word' = Closed(g), UNCHANGED <<epoch, grant>>
    PROVE  /\ GateStep /\ SameBits
           /\ word' \in [Gates -> SUBSET Flags]
           /\ \A h \in Gates : valid_word(word'[h]) /\ Held(word'[h]) = Held(word[h])
<1> DEFINE w == word[g] \cup {"Stopped"}
<1>1. w \in ValidFlags
  BY StoppedWord, Zenon
<1>2. word' = [word EXCEPT ![g] = w]
  BY Zenon DEF Closed
<1>3. /\ "Bound" \in w <=> "Bound" \in word[g]
      /\ "Released" \in w <=> "Released" \in word[g]
      /\ "Entered" \in w <=> "Entered" \in word[g]
      /\ "Stopped" \in word[g] => "Stopped" \in w
  OBVIOUS
<1>4. \A h \in Gates : word'[h] = IF h = g THEN w ELSE word[h]
  BY <1>2, Zenon DEF TypeOK
<1>5. \A h \in Gates : Held(word'[h]) = Held(word[h])
  BY <1>4, WordFacts, Zenon DEF TypeOK
<1> HIDE DEF w
<1> QED
  BY <1>1, <1>2, <1>3, <1>5, WordStep, Zenon

(* Inside the Binding and Publishing windows the word changes by Stop only. *)
LEMMA HeldKept ==
    ASSUME IInv, \A h \in Gates : Held(word'[h]) = Held(word[h]),
           UNCHANGED <<epoch, grant, authority, op>>
    PROVE  WindowInv'
<1>1. op.step \in {"BindWrite", "BindDone", "PublishWrite", "PublishDone"} =>
          op.gate \in Gates
  BY Zenon DEF IInv, TypeOK, OpInv, BindSteps, PublishSteps
<1> QED
  BY <1>1, Zenon DEF IInv, WindowInv

-----------------------------------------------------------------------------
(* The clock, Stop and the authority's calls, up to their first write.      *)

LEMMA TickPreserves ==
    ASSUME IInv, Tick
    PROVE  IInv'
<1>1. UNCHANGED <<word, epoch, grant, admissions, authority, op, claim>>
  BY Zenon DEF Tick, gateVars, authVars
<1>2. now' \in 0 .. MaxTime /\ now <= now' /\ now \in Nat /\ now' \in Nat
  BY BoundsAssumption DEF IInv, TypeOK, Tick
<1>3. TypeOK'
  BY <1>1, <1>2, Zenon DEF IInv, TypeOK
<1>4. AuthorityKept
  <2>1. authority.observed \in Nat /\ authority.observed <= now
    BY BoundsAssumption DEF IInv, TypeOK, Authorities, AuthorityInv
  <2>2. authority.observed <= now' /\ authority.observed <= authority.observed
    BY ONLY <1>2, <2>1
  <2> QED
    BY <1>1, <2>2, Zenon DEF AuthorityKept
<1>5. GateStep /\ SameBits
  BY <1>1, Zenon DEF GateStep, SameBits
<1>6. OpInv' /\ WindowInv'
  BY <1>1, OpKept, HeldKept, Zenon
<1> QED
  BY <1>1, <1>3, <1>4, <1>5, <1>6, QuietStep, Zenon

LEMMA StopPreserves ==
    ASSUME IInv, NEW g \in Gates, Stop(g)
    PROVE  IInv'
<1>1. /\ UNCHANGED <<now, epoch, grant, admissions, authority, op, claim>>
      /\ word' = Closed(g)
  BY Zenon DEF Stop, authVars
<1>2. TypeOK
  BY Zenon DEF IInv
<1>3. /\ GateStep /\ SameBits
      /\ word' \in [Gates -> SUBSET Flags]
      /\ \A h \in Gates : valid_word(word'[h]) /\ Held(word'[h]) = Held(word[h])
  BY <1>1, <1>2, ClosedGate, Zenon
<1>4. TypeOK'
  BY <1>1, <1>2, <1>3, Zenon DEF TypeOK
<1>5. OpInv' /\ WindowInv'
  BY <1>1, <1>3, OpKept, HeldKept, Zenon
<1>6. AuthorityKept
  BY <1>1, AuthoritySeen, Zenon
<1> QED
  BY <1>1, <1>3, <1>4, <1>5, <1>6, QuietStep, Zenon

(* RevokeLocked has every open gate left to close, and all are in slots.    *)
LEMMA RevokeLockedPreserves ==
    ASSUME IInv, NEW t \in {authority.observed, now}, RevokeLocked(t),
           UNCHANGED <<now, gateVars, admissions, claim>>
    PROVE  IInv'
<1>1. /\ authority' = Revoked(t) /\ op' = Revoking(admissions)
      /\ UNCHANGED <<now, word, epoch, grant, admissions, claim>>
  BY Zenon DEF RevokeLocked, gateVars
<1>2. /\ authority'.epoch = authority.epoch /\ authority'.deadline = 0
      /\ authority'.observed = t /\ authority'.failed
  BY <1>1, Zenon DEF Revoked
<1>3. TypeOK'
  <2>1. authority' \in Authorities
    BY <1>1, AuthorityTypes, Zenon DEF IInv
  <2>2. op' \in Operations
    BY <1>1, OpTypes, Zenon DEF IInv, TypeOK
  <2> QED
    BY <1>1, <2>1, <2>2, Zenon DEF IInv, TypeOK
<1>4. OpInv' /\ WindowInv' /\ op'.todo = admissions
  BY <1>1, <1>2, RevokingOp, Zenon
<1>5. ClaimInv' /\ EntryWithinGrant' /\ SingleEntry'
  <2>1. GateStep
    BY <1>1, Zenon DEF GateStep
  <2> QED
    BY <1>1, <1>2, <2>1, ClaimsStable, Zenon
<1>6. AuthorityInv'
  <2>1. t \in Nat /\ t <= now /\ now \in Nat
    <3>1. /\ authority.observed \in Nat /\ authority.observed <= now
          /\ now \in Nat
      BY BoundsAssumption DEF IInv, TypeOK, Authorities, AuthorityInv
    <3> QED
      BY <3>1
  <2>2. 0 <= t + Lease
    BY ONLY <2>1, BoundsAssumption DEF BoundsAssumption
  <2> QED
    BY <1>1, <1>2, <2>1, <2>2, Zenon DEF IInv, AuthorityInv
<1>7. RevocationClosesGates'
  BY <1>1, <1>4, Zenon DEF IInv, OpenInSlots, RevocationClosesGates
<1>8. GrantsBounded' /\ OpenInSlots'
  BY <1>1, <1>2, Zenon DEF IInv, GrantsBounded, OpenInSlots
<1> QED
  BY <1>3, <1>4, <1>5, <1>6, <1>7, <1>8, Zenon DEF IInv

LEMMA RevokePreserves ==
    ASSUME IInv, Revoke PROVE IInv'
  BY RevokeLockedPreserves, Zenon DEF Revoke

(* A call that is not revoked at Fresh and writes no gate before it goes on.*)
LEMMA CallProceeds ==
    ASSUME IInv, op = Idle, authority' = Seen(now), op' \in Operations,
           OpInv', WindowInv', op'.todo = {},
           UNCHANGED <<now, gateVars, admissions, claim>>
    PROVE  IInv'
<1>1. UNCHANGED <<now, word, epoch, grant, admissions, claim>>
  BY Zenon DEF gateVars
<1>2. AuthorityKept /\ authority' \in Authorities
  BY <1>1, AuthoritySeen, Zenon
<1>3. TypeOK'
  BY <1>1, <1>2, Zenon DEF IInv, TypeOK
<1>4. GateStep /\ SameBits
  BY <1>1, Zenon DEF GateStep, SameBits
<1>5. op'.todo = op.todo
  BY Zenon DEF Idle
<1> QED
  BY <1>1, <1>2, <1>3, <1>4, <1>5, QuietStep, Zenon

LEMMA CallReturns ==
    ASSUME IInv, op = Idle, op' = Idle, authority' = Seen(now),
           UNCHANGED <<now, gateVars, admissions, claim>>
    PROVE  IInv'
  BY CallProceeds, IdleOp, OpTypes, Zenon

LEMMA RefusePreserves ==
    ASSUME IInv, op = Idle, Refuse(now)
    PROVE  IInv'
<1>1. CASE RevokeLocked(now)
  BY <1>1, RevokeLockedPreserves, Zenon DEF Refuse
<1>2. CASE authority' = Seen(now) /\ op' = op
  BY <1>2, CallReturns, Zenon DEF Refuse
<1> QED
  BY <1>1, <1>2, Zenon DEF Refuse

(* An accepted observation: only the first sets the epoch, and no gate is   *)
(* bound before it; the deadline moves forward, within a lease of now.      *)
LEMMA RenewalPreserves ==
    ASSUME IInv, op = Idle, NEW e \in Epochs, NEW d \in Time,
           ~authority.failed, Acceptable(e, d, now),
           authority' = [epoch |-> e, deadline |-> Later(d, authority.deadline),
                         observed |-> now, failed |-> FALSE],
           op' = op, UNCHANGED <<now, gateVars, admissions, claim>>
    PROVE  IInv'
<1>1. UNCHANGED <<now, word, epoch, grant, admissions, claim>>
  BY Zenon DEF gateVars
<1>2. /\ authority'.epoch = e /\ authority'.observed = now
      /\ authority'.deadline = Later(d, authority.deadline)
      /\ authority'.failed = FALSE
  BY Zenon
<1>3. authority.epoch # NoEpoch => authority.epoch = e
  BY Zenon DEF Acceptable
<1>4. TypeOK'
  <2>1. authority' \in Authorities
    BY AuthorityTypes, Zenon DEF IInv
  <2> QED
    BY <1>1, <2>1, Zenon DEF IInv, TypeOK
<1>5. OpInv' /\ WindowInv'
  BY IdleOp, Zenon
<1>6. \A g \in Gates : "Bound" \in word[g] => epoch[g] = e /\ authority.epoch = e
  BY <1>3, Zenon DEF IInv, AuthorityInv
<1>7. ClaimInv' /\ SingleEntry'
  <2>1. ClaimInv'
    BY <1>1, Zenon DEF IInv, ClaimInv, InGrant
  <2>2. word' = word /\ claim' = claim /\ SingleEntry
    BY <1>1, Zenon DEF IInv
  <2>3. SingleEntry'
    BY ONLY <2>2 DEF SingleEntry
  <2> QED
    BY <2>1, <2>3, Zenon
<1>8. EntryWithinGrant'
  <2>1. ASSUME NEW l \in Launchers, claim[l].result = "Entered"
        PROVE  claim[l].gate \in Gates /\ "Bound" \in word[claim[l].gate]
    BY <2>1 DEF IInv, ClaimInv
  <2> QED
    BY <1>1, <1>2, <1>6, <2>1, Zenon DEF IInv, EntryWithinGrant, InGrant
<1>9. /\ now \in Nat /\ Lease \in Nat /\ d \in Nat /\ authority.deadline \in Nat
      /\ authority.observed \in Nat
  BY BoundsAssumption DEF IInv, TypeOK, Authorities, Time
<1>10. AuthorityInv'
  <2>1. /\ authority.observed <= now /\ d - now <= Lease
        /\ authority.deadline <= authority.observed + Lease
    BY Zenon DEF IInv, AuthorityInv, Acceptable
  <2>2. now <= now /\ Later(d, authority.deadline) <= now + Lease
    BY ONLY <1>9, <2>1 DEF Later
  <2>3. e # NoEpoch
    BY SetsAssumption, Zenon
  <2> QED
    BY <1>1, <1>2, <1>6, <2>2, <2>3, Zenon DEF IInv, AuthorityInv
<1>11. GrantsBounded'
  <2> SUFFICES ASSUME NEW g \in Gates, "Released" \in word[g]
               PROVE  grant[g].deadline <= Later(d, authority.deadline)
    BY <1>1, <1>2, Zenon DEF IInv, GrantsBounded
  <2>1. grant[g].deadline <= authority.deadline
    BY Zenon DEF IInv, GrantsBounded
  <2>2. grant[g].deadline \in Nat
    BY BoundsAssumption DEF IInv, TypeOK, Grants, Time
  <2> QED
    BY ONLY <1>9, <2>1, <2>2 DEF Later
<1>12. RevocationClosesGates' /\ OpenInSlots'
  BY <1>1, <1>2, Zenon DEF IInv, RevocationClosesGates, OpenInSlots
<1> QED
  BY <1>4, <1>5, <1>7, <1>8, <1>10, <1>11, <1>12, Zenon DEF IInv

LEMMA ObservePreserves ==
    ASSUME IInv, NEW e \in Epochs, NEW d \in Time, Observe(e, d, now)
    PROVE  IInv'
<1>1. CASE RevokeLocked(now)
  BY <1>1, RevokeLockedPreserves, Zenon DEF Observe
<1>2. CASE authority' = Seen(now) /\ op' = op
  BY <1>2, CallReturns, Zenon DEF Observe
<1>3. CASE /\ ~authority.failed /\ Acceptable(e, d, now) /\ op' = op
           /\ authority' = [epoch |-> e, deadline |-> Later(d, authority.deadline),
                            observed |-> now, failed |-> FALSE]
  BY <1>3, RenewalPreserves, Zenon DEF Observe
<1> QED
  BY <1>1, <1>2, <1>3, Zenon DEF Observe

LEMMA AdmitPreserves ==
    ASSUME IInv, NEW g \in Gates, Admit(g, now)
    PROVE  IInv'
<1>1. op = Idle
  BY Zenon DEF Admit
<1>2. CASE Refuse(now)
  BY <1>1, <1>2, RefusePreserves, Zenon
<1>3. CASE Proceed(Idle, now)
  BY <1>1, <1>3, CallReturns, Zenon DEF Proceed
<1>4. CASE Fresh(now) /\ Admissible(g) /\ Proceed(At("BindCas", g, NoGrant), now)
  <2>1. /\ op'.step = "BindCas" /\ op'.gate = g /\ op'.todo = {}
        /\ authority' = Seen(now) /\ admissions' = admissions
    BY <1>4, Zenon DEF Proceed, At
  <2>2. g \notin admissions' /\ authority'.epoch # NoEpoch /\ ~authority'.failed
    BY <1>4, <2>1, Zenon DEF Fresh, Admissible, Seen
  <2>3. OpInv' /\ WindowInv'
    BY ONLY <2>1, <2>2, g \in Gates DEF OpInv, WindowInv, BindSteps, PublishSteps
  <2>4. op' \in Operations
    BY <1>4, OpTypes, Zenon DEF Proceed, Steps
  <2> QED
    BY <1>1, <1>4, <2>1, <2>3, <2>4, CallProceeds, Zenon DEF Proceed
<1> QED
  BY <1>2, <1>3, <1>4, Zenon DEF Admit

LEMMA PreparedPreserves ==
    ASSUME IInv, NEW g \in Gates, Prepared(g, now)
    PROVE  IInv'
<1>1. op = Idle
  BY Zenon DEF Prepared
<1>2. CASE Refuse(now)
  BY <1>1, <1>2, RefusePreserves, Zenon
<1>3. CASE Proceed(Idle, now)
  BY <1>1, <1>3, CallReturns, Zenon DEF Proceed
<1>4. CASE Fresh(now) /\ Ours(g) /\ Proceed(At("PreparedCas", g, NoGrant), now)
  <2>1. /\ op'.step = "PreparedCas" /\ op'.gate = g /\ op'.todo = {}
        /\ authority' = Seen(now) /\ admissions' = admissions
    BY <1>4, Zenon DEF Proceed, At
  <2>2. g \in admissions' /\ ~authority'.failed
    BY <1>4, <2>1, Zenon DEF Fresh, Ours, Seen
  <2>3. OpInv' /\ WindowInv'
    BY ONLY <2>1, <2>2 DEF OpInv, WindowInv, BindSteps, PublishSteps
  <2>4. op' \in Operations
    BY <1>4, OpTypes, Zenon DEF Proceed, Steps
  <2> QED
    BY <1>1, <1>4, <2>1, <2>3, <2>4, CallProceeds, Zenon DEF Proceed
<1> QED
  BY <1>2, <1>3, <1>4, Zenon DEF Prepared

LEMMA ReleasePreserves ==
    ASSUME IInv, NEW g \in Gates, NEW ceiling \in Time, Release(g, now, ceiling)
    PROVE  IInv'
<1> DEFINE until == Earlier(ceiling, authority.deadline)
           window == [released_at |-> now, deadline |-> until]
<1>1. op = Idle
  BY Zenon DEF Release
<1>2. CASE Refuse(now)
  BY <1>1, <1>2, RefusePreserves, Zenon
<1>3. CASE Proceed(Idle, now)
  BY <1>1, <1>3, CallReturns, Zenon DEF Proceed
<1>4. CASE /\ word' = Closed(g) /\ authority' = Seen(now)
           /\ UNCHANGED <<now, epoch, grant, admissions, op, claim>>
  <2>1. TypeOK
    BY Zenon DEF IInv
  <2>2. /\ GateStep /\ SameBits
        /\ word' \in [Gates -> SUBSET Flags]
        /\ \A h \in Gates : valid_word(word'[h])
    BY <1>4, <2>1, ClosedGate, Zenon
  <2>3. AuthorityKept /\ authority' \in Authorities
    BY <1>4, AuthoritySeen, Zenon
  <2>4. TypeOK'
    BY <1>4, <2>1, <2>2, <2>3, Zenon DEF TypeOK
  <2>5. OpInv' /\ WindowInv'
    BY <1>1, <1>4, IdleOp, Zenon
  <2> QED
    BY <1>4, <2>2, <2>3, <2>4, <2>5, QuietStep, Zenon
<1>5. CASE /\ Fresh(now) /\ Ours(g) /\ until > now
           /\ Proceed(At("PublishCas", g, window), now)
  <2>1. /\ op'.step = "PublishCas" /\ op'.gate = g /\ op'.todo = {}
        /\ op'.grant.released_at = now /\ op'.grant.deadline = until
        /\ authority' = Seen(now) /\ admissions' = admissions
    BY <1>5, Zenon DEF Proceed, At
  <2>2. /\ g \in admissions' /\ ~authority'.failed /\ authority'.observed = now
        /\ authority'.deadline = authority.deadline
    BY <1>5, <2>1, Zenon DEF Fresh, Ours, Seen
  <2>3. now \in Time /\ authority.deadline \in Time /\ until \in Time
    BY BoundsAssumption DEF IInv, TypeOK, Authorities, Time, Earlier
  <2>n. /\ now \in Nat /\ authority.deadline \in Nat /\ authority.observed \in Nat
        /\ ceiling \in Nat /\ Lease \in Nat
    BY BoundsAssumption DEF IInv, TypeOK, Authorities, Time
  <2>4. authority.observed <= now /\ authority.deadline <= authority.observed + Lease
    BY Zenon DEF IInv, AuthorityInv
  <2>t. until > now
    BY <1>5, Zenon
  <2>5. now < until /\ until - now <= Lease /\ until <= authority.deadline
    BY ONLY <2>n, <2>t, <2>4 DEF Earlier
  <2> HIDE DEF until, window
  <2>6. OpInv' /\ WindowInv'
    BY ONLY <2>1, <2>2, <2>5 DEF OpInv, WindowInv, BindSteps, PublishSteps
  <2>7. op' \in Operations
    BY <1>5, <2>3, OpTypes, Zenon DEF Proceed, Steps, window
  <2> QED
    BY <1>1, <1>5, <2>1, <2>6, <2>7, CallProceeds, Zenon DEF Proceed
<1> QED
  BY <1>2, <1>3, <1>4, <1>5, Zenon DEF Release

(* Retire frees the slot of a gate that Stop has closed.                    *)
LEMMA RetirePreserves ==
    ASSUME IInv, NEW g \in Gates, Retire(g)
    PROVE  IInv'
<1>1. /\ UNCHANGED <<now, word, epoch, grant, authority, op, claim>>
      /\ admissions' = admissions \ {g} /\ op = Idle /\ "Stopped" \in word[g]
  BY Zenon DEF Retire, gateVars
<1>2. admissions' \subseteq admissions
  BY <1>1, Zenon
<1>3. TypeOK'
  BY <1>1, <1>2, Zenon DEF IInv, TypeOK
<1>4. OpInv' /\ WindowInv'
  BY <1>1, IdleOp, Zenon
<1>5. ClaimInv' /\ EntryWithinGrant' /\ SingleEntry'
  <2>1. GateStep
    BY <1>1, Zenon DEF GateStep
  <2> QED
    BY <1>1, <2>1, ClaimsStable, Zenon
<1>6. AuthorityInv' /\ RevocationClosesGates' /\ GrantsBounded'
  BY <1>1, <1>2, Zenon DEF IInv, AuthorityInv, RevocationClosesGates, GrantsBounded
<1>7. OpenInSlots'
  BY <1>1, Zenon DEF IInv, OpenInSlots
<1> QED
  BY <1>3, <1>4, <1>5, <1>6, <1>7, Zenon DEF IInv

====
