------------------------ MODULE WorkAdmissionSteps ------------------------
(* The steps an authority operation takes after its first, each on one      *)
(* gate's word, epoch or grant, preserve the invariant.                     *)
EXTENDS WorkAdmissionInvariant

(* The operation in progress: its fields have their types, and only a       *)
(* revocation has gates left to do.                                         *)
LEMMA OpFacts ==
    ASSUME IInv
    PROVE  /\ op.grant \in Grants /\ op.todo \in SUBSET Gates
           /\ op.step \in BindSteps => op.gate \in Gates /\ op.todo = {}
           /\ op.step \in PublishSteps \cup {"PreparedCas"} =>
                 op.gate \in Gates /\ op.todo = {}
<1>1. op \in Operations /\ admissions \in SUBSET Gates
  BY Zenon DEF IInv, TypeOK
<1>2. op.grant \in Grants /\ op.todo \in SUBSET Gates
  BY ONLY <1>1 DEF Operations
<1>3. op.step # "Revoke" => op.todo = {}
  BY Zenon DEF IInv, OpInv
<1>4. /\ op.step \in BindSteps => op.gate \in Gates
      /\ op.step \in PublishSteps \cup {"PreparedCas"} => op.gate \in Gates
  BY <1>1, Zenon DEF IInv, OpInv
<1> QED
  BY <1>2, <1>3, <1>4, Zenon DEF BindSteps, PublishSteps

(* A step of an operation that publishes nothing: what remains to be shown  *)
(* is what the operation knows after it.                                    *)
LEMMA OperationStep ==
    ASSUME IInv, op.todo = {}, op' \in Operations, op'.todo = {},
           OpInv', WindowInv', GateStep, SameBits,
           word' \in [Gates -> SUBSET Flags], \A h \in Gates : valid_word(word'[h]),
           epoch' \in [Gates -> Epochs \cup {NoEpoch}], grant' \in [Gates -> Grants],
           UNCHANGED <<now, admissions, authority, claim>>
    PROVE  IInv'
<1>1. AuthorityKept
  BY AuthoritySeen, Zenon
<1>2. TypeOK'
  BY Zenon DEF IInv, TypeOK
<1> QED
  BY <1>1, <1>2, QuietStep, Zenon

(* A compare-exchange that fails ends its operation and changes nothing.    *)
LEMMA OperationEnds ==
    ASSUME IInv, op.todo = {}, op' = Idle,
           UNCHANGED <<now, word, epoch, grant, admissions, authority, claim>>
    PROVE  IInv'
<1>1. op' \in Operations /\ OpInv' /\ WindowInv' /\ op'.todo = {}
  BY IdleOp, OpTypes, Zenon
<1>2. GateStep /\ SameBits
  BY Zenon DEF GateStep, SameBits
<1> QED
  BY <1>1, <1>2, OperationStep, Zenon DEF IInv, TypeOK

LEMMA RevokeStopPreserves ==
    ASSUME IInv, NEW g \in Gates, RevokeStop(g)
    PROVE  IInv'
<1> DEFINE rest == op.todo \ {g}
<1>1. /\ word' = Closed(g) /\ op' = Revoking(rest) /\ op.step = "Revoke"
      /\ UNCHANGED <<now, epoch, grant, admissions, authority, claim>>
  BY Zenon DEF RevokeStop
<1>2. /\ GateStep /\ SameBits
      /\ word' \in [Gates -> SUBSET Flags]
      /\ \A h \in Gates : valid_word(word'[h])
  BY <1>1, ClosedGate, Zenon DEF IInv
<1>3. /\ authority'.failed /\ rest \in SUBSET admissions' /\ rest \in SUBSET Gates
  BY <1>1, OpFacts, Zenon DEF IInv, OpInv
<1> HIDE DEF rest
<1>4. OpInv' /\ WindowInv' /\ op'.todo = rest /\ op' \in Operations
  BY <1>1, <1>3, RevokingOp, OpTypes, Zenon
<1>5. TypeOK'
  BY <1>1, <1>2, <1>4, Zenon DEF IInv, TypeOK
<1>6. ClaimInv' /\ EntryWithinGrant' /\ SingleEntry'
  BY <1>1, <1>2, ClaimsStable, Zenon
<1>7. AuthorityInv' /\ GrantsBounded' /\ OpenInSlots'
  <2>1. admissions \subseteq Gates
    BY Zenon DEF IInv, TypeOK
  <2>2. AuthorityInv'
    BY <1>1, <1>2, <2>1, Zenon DEF IInv, AuthorityInv, SameBits
  <2>3. GrantsBounded' /\ OpenInSlots'
    BY <1>1, <1>2, Zenon DEF IInv, GrantsBounded, OpenInSlots, SameBits
  <2> QED
    BY <2>2, <2>3, Zenon
<1>8. RevocationClosesGates'
  <2>1. "Stopped" \in word'[g]
    BY <1>1, Zenon DEF IInv, TypeOK, Closed
  <2>2. \A h \in Gates \ {g} : h \in op.todo => h \in rest
    BY Zenon DEF rest
  <2> QED
    BY <1>1, <1>2, <1>4, <2>1, <2>2, Zenon DEF IInv, RevocationClosesGates, SameBits
<1> QED
  BY <1>4, <1>5, <1>6, <1>7, <1>8, Zenon DEF IInv

LEMMA RevokeReturnPreserves ==
    ASSUME IInv, RevokeReturn
    PROVE  IInv'
  BY OperationEnds, Zenon DEF RevokeReturn, gateVars

LEMMA BindCasPreserves ==
    ASSUME IInv, NEW g \in Gates, BindCas(g)
    PROVE  IInv'
<1>1. /\ op.step = "BindCas" /\ op.gate = g /\ op.todo = {}
      /\ UNCHANGED <<now, epoch, grant, admissions, authority, claim>>
  BY OpFacts, Zenon DEF BindCas, BindSteps
<1>2. CASE op' = Idle /\ word' = word
  BY <1>1, <1>2, OperationEnds, Zenon
<1>3. CASE Cas(g, {}, {"Binding"}) /\ op' = At("BindWrite", g, NoGrant)
  <2>1. /\ op'.step = "BindWrite" /\ op'.gate = g /\ op'.todo = {}
        /\ op' \in Operations
    BY <1>3, OpTypes, Zenon DEF At, Steps
  <2>2. /\ word[g] = {} /\ word' = [word EXCEPT ![g] = {"Binding"}]
        /\ {"Binding"} \in ValidFlags
    BY <1>3, CasWords, Zenon DEF Cas
  <2>3. /\ GateStep /\ SameBits
        /\ word' \in [Gates -> SUBSET Flags]
        /\ \A h \in Gates : valid_word(word'[h])
    BY <1>1, <2>2, WordStep, Zenon DEF IInv
  <2>4. /\ g \in Gates \ admissions' /\ authority'.epoch # NoEpoch
        /\ ~authority'.failed
    BY <1>1, Zenon DEF IInv, OpInv, BindSteps
  <2>5. Held(word'[g]) = {"Binding"}
    <3>1. word'[g] = {"Binding"}
      BY <2>2, Zenon DEF IInv, TypeOK
    <3> QED
      BY <3>1, WordFacts, Zenon DEF Progress
  <2>6. OpInv' /\ WindowInv'
    BY ONLY <2>1, <2>4, <2>5 DEF OpInv, WindowInv, BindSteps, PublishSteps
  <2> QED
    BY <1>1, <2>1, <2>3, <2>6, OperationStep, Zenon DEF IInv, TypeOK
<1> QED
  BY <1>2, <1>3, Zenon DEF BindCas

LEMMA BindWritePreserves ==
    ASSUME IInv, NEW g \in Gates, BindWrite(g)
    PROVE  IInv'
<1>1. /\ op.step = "BindWrite" /\ op.gate = g /\ op.todo = {}
      /\ op' = At("BindDone", g, NoGrant)
      /\ epoch' = [epoch EXCEPT ![g] = authority.epoch]
      /\ UNCHANGED <<now, word, grant, admissions, authority, claim>>
  BY OpFacts, Zenon DEF BindWrite, BindSteps
<1>2. /\ op'.step = "BindDone" /\ op'.gate = g /\ op'.todo = {}
      /\ op' \in Operations
  BY <1>1, OpTypes, Zenon DEF At, Steps
<1>3. Held(word[g]) = {"Binding"} /\ "Bound" \notin word[g]
  BY <1>1 DEF IInv, WindowInv, Held
<1>4. /\ authority.epoch \in Epochs \cup {NoEpoch}
      /\ epoch \in [Gates -> Epochs \cup {NoEpoch}]
  BY DEF IInv, TypeOK, Authorities
<1>5. /\ epoch' \in [Gates -> Epochs \cup {NoEpoch}]
      /\ epoch'[g] = authority.epoch
      /\ \A h \in Gates : h # g => epoch'[h] = epoch[h]
  BY <1>1, <1>4, Zenon
<1>6. GateStep /\ SameBits
  BY <1>1, <1>3, <1>5, Zenon DEF GateStep, SameBits
<1>7. /\ g \in Gates \ admissions' /\ authority'.epoch # NoEpoch
      /\ ~authority'.failed
  BY <1>1, Zenon DEF IInv, OpInv, BindSteps
<1>8. Held(word'[g]) = {"Binding"} /\ epoch'[g] = authority'.epoch
  BY <1>1, <1>3, <1>5, Zenon
<1>9. OpInv' /\ WindowInv'
  BY ONLY <1>2, <1>7, <1>8 DEF OpInv, WindowInv, BindSteps, PublishSteps
<1> QED
  BY <1>1, <1>2, <1>5, <1>6, <1>9, OperationStep, Zenon DEF IInv, TypeOK

(* Bind's last exchange takes the gate into a slot with the epoch it wrote. *)
LEMMA BindDonePreserves ==
    ASSUME IInv, NEW g \in Gates, BindDone(g)
    PROVE  IInv'
<1>1. /\ op.step = "BindDone" /\ op.gate = g /\ op.todo = {} /\ op' = Idle
      /\ UNCHANGED <<now, epoch, grant, authority, claim>>
  BY OpFacts, Zenon DEF BindDone, BindSteps
<1>2. CASE UNCHANGED <<word, admissions>>
  BY <1>1, <1>2, OperationEnds, Zenon
<1>3. CASE Cas(g, {"Binding"}, {"Bound"}) /\ admissions' = admissions \cup {g}
  <2>1. /\ word[g] = {"Binding"} /\ word' = [word EXCEPT ![g] = {"Bound"}]
        /\ {"Bound"} \in ValidFlags
    BY <1>3, CasWords, Zenon DEF Cas
  <2>2. \A h \in Gates : word'[h] = IF h = g THEN {"Bound"} ELSE word[h]
    BY <2>1, Zenon DEF IInv, TypeOK
  <2>3. /\ op' \in Operations /\ OpInv' /\ WindowInv' /\ op'.todo = {}
    BY <1>1, IdleOp, OpTypes, Zenon
  <2>4. TypeOK'
    <3>1. word' \in [Gates -> SUBSET Flags] /\ \A h \in Gates : valid_word(word'[h])
      BY <2>1, WordTypes, Zenon DEF IInv
    <3>2. admissions' \in SUBSET Gates
      BY <1>3, Zenon DEF IInv, TypeOK
    <3> QED
      BY <1>1, <2>3, <3>1, <3>2, Zenon DEF IInv, TypeOK
  <2>5. /\ "Bound" \notin word[g] /\ "Released" \notin word[g]
        /\ "Entered" \notin word[g] /\ "Stopped" \notin word[g]
    BY ONLY <2>1
  <2>6. /\ \A h \in Gates : "Bound" \in word'[h] <=> h = g \/ "Bound" \in word[h]
        /\ \A h \in Gates : "Released" \in word'[h] <=> "Released" \in word[h]
        /\ \A h \in Gates : "Entered" \in word'[h] <=> "Entered" \in word[h]
        /\ \A h \in Gates : "Stopped" \in word'[h] <=> "Stopped" \in word[h]
    BY ONLY <2>2, <2>5
  <2>7. GateStep
    BY <1>1, <2>6, Zenon DEF GateStep
  <2>8. ClaimInv' /\ EntryWithinGrant' /\ SingleEntry'
    BY <1>1, <2>7, ClaimsStable, Zenon
  <2>9. /\ epoch[g] = authority.epoch /\ authority.epoch # NoEpoch
        /\ ~authority.failed
    BY <1>1, Zenon DEF IInv, OpInv, WindowInv, BindSteps
  <2>10. AuthorityInv'
    <3>1. admissions \subseteq Gates
      BY Zenon DEF IInv, TypeOK
    <3> QED
      BY <1>1, <1>3, <2>6, <2>9, <3>1, Zenon DEF IInv, AuthorityInv
  <2>11. RevocationClosesGates' /\ GrantsBounded'
    BY <1>1, <2>6, <2>9, Zenon DEF IInv, RevocationClosesGates, GrantsBounded
  <2>12. OpenInSlots'
    BY <1>3, <2>6, Zenon DEF IInv, OpenInSlots
  <2> QED
    BY <2>3, <2>4, <2>8, <2>10, <2>11, <2>12, Zenon DEF IInv
<1> QED
  BY <1>2, <1>3, Zenon DEF BindDone

LEMMA PreparedCasPreserves ==
    ASSUME IInv, NEW g \in Gates, PreparedCas(g)
    PROVE  IInv'
<1>1. /\ op.step = "PreparedCas" /\ op.gate = g /\ op.todo = {} /\ op' = Idle
      /\ UNCHANGED <<now, epoch, grant, admissions, authority, claim>>
  BY OpFacts, Zenon DEF PreparedCas
<1>2. CASE word' = word
  BY <1>1, <1>2, OperationEnds, Zenon
<1>3. CASE Cas(g, {"Bound"}, {"Bound", "Prepared"})
  <2>1. /\ word[g] = {"Bound"} /\ word' = [word EXCEPT ![g] = {"Bound", "Prepared"}]
        /\ {"Bound", "Prepared"} \in ValidFlags
    BY <1>3, CasWords, Zenon DEF Cas
  <2>2. /\ GateStep /\ SameBits
        /\ word' \in [Gates -> SUBSET Flags]
        /\ \A h \in Gates : valid_word(word'[h])
    BY <1>1, <2>1, WordStep, Zenon DEF IInv
  <2>3. /\ op' \in Operations /\ OpInv' /\ WindowInv' /\ op'.todo = {}
    BY <1>1, IdleOp, OpTypes, Zenon
  <2> QED
    BY <1>1, <2>2, <2>3, OperationStep, Zenon DEF IInv, TypeOK
<1> QED
  BY <1>2, <1>3, Zenon DEF PreparedCas

(* What Publish goes on knowing of the window it is about to publish.       *)
LEMMA PublicationKept ==
    ASSUME IInv, NEW g \in Gates, op.gate = g, op.step \in PublishSteps,
           NEW step \in {"PublishWrite", "PublishDone"},
           op' = At(step, g, op.grant), UNCHANGED <<admissions, authority>>,
           Held(word'[g]) = {"Bound", "Prepared", "Publishing"},
           step = "PublishDone" => grant'[g] = op.grant
    PROVE  OpInv' /\ WindowInv' /\ op'.todo = {} /\ op' \in Operations
<1>1. /\ op'.step = step /\ op'.gate = g /\ op'.todo = {} /\ op'.grant = op.grant
      /\ op' \in Operations
  BY OpFacts, OpTypes, Zenon DEF At, Steps
<1>2. /\ g \in admissions' /\ ~authority'.failed
      /\ op.grant.released_at < op.grant.deadline
      /\ op.grant.deadline - op.grant.released_at <= Lease
      /\ op.grant.deadline <= authority'.deadline
      /\ op.grant.released_at = authority'.observed
  BY Zenon DEF IInv, OpInv
<1>3. OpInv'
  BY ONLY <1>1, <1>2, step \in {"PublishWrite", "PublishDone"}
     DEF OpInv, BindSteps, PublishSteps
<1>4. WindowInv'
  BY ONLY <1>1, step \in {"PublishWrite", "PublishDone"},
          Held(word'[g]) = {"Bound", "Prepared", "Publishing"},
          step = "PublishDone" => grant'[g] = op.grant
     DEF WindowInv
<1> QED
  BY <1>1, <1>3, <1>4, Zenon

LEMMA PublishCasPreserves ==
    ASSUME IInv, NEW g \in Gates, PublishCas(g)
    PROVE  IInv'
<1> DEFINE publishing == {"Bound", "Prepared", "Publishing"}
<1>1. /\ op.step = "PublishCas" /\ op.gate = g /\ op.todo = {}
      /\ op.step \in PublishSteps
      /\ UNCHANGED <<now, epoch, grant, admissions, authority, claim>>
  BY OpFacts, Zenon DEF PublishCas, PublishSteps
<1>2. CASE op' = Idle /\ word' = word
  BY <1>1, <1>2, OperationEnds, Zenon
<1>3. CASE /\ Cas(g, {"Bound", "Prepared"}, publishing)
           /\ op' = At("PublishWrite", g, op.grant)
  <2>1. /\ word[g] = {"Bound", "Prepared"} /\ word' = [word EXCEPT ![g] = publishing]
        /\ publishing \in ValidFlags
    BY <1>3, CasWords, Zenon DEF Cas
  <2>2. /\ GateStep /\ SameBits
        /\ word' \in [Gates -> SUBSET Flags]
        /\ \A h \in Gates : valid_word(word'[h])
    BY <1>1, <2>1, WordStep, Zenon DEF IInv
  <2>3. Held(word'[g]) = publishing
    <3>1. word'[g] = publishing
      BY <2>1, Zenon DEF IInv, TypeOK
    <3> QED
      BY <3>1, WordFacts, Zenon DEF Progress
  <2>4. OpInv' /\ WindowInv' /\ op'.todo = {} /\ op' \in Operations
    BY <1>1, <1>3, <2>3, PublicationKept, Zenon
  <2> QED
    BY <1>1, <2>2, <2>4, OperationStep, Zenon DEF IInv, TypeOK
<1> QED
  BY <1>2, <1>3, Zenon DEF PublishCas

LEMMA PublishWritePreserves ==
    ASSUME IInv, NEW g \in Gates, PublishWrite(g)
    PROVE  IInv'
<1>1. /\ op.step = "PublishWrite" /\ op.gate = g /\ op.todo = {}
      /\ op.step \in PublishSteps
      /\ op' = At("PublishDone", g, op.grant)
      /\ grant' = [grant EXCEPT ![g] = op.grant]
      /\ UNCHANGED <<now, word, epoch, admissions, authority, claim>>
  BY OpFacts, Zenon DEF PublishWrite, PublishSteps
<1>2. Held(word[g]) = {"Bound", "Prepared", "Publishing"}
  BY <1>1, Zenon DEF IInv, WindowInv
<1>3. "Released" \notin word[g]
  BY ONLY <1>2 DEF Held
<1>4. /\ grant' \in [Gates -> Grants] /\ grant'[g] = op.grant
      /\ \A h \in Gates : h # g => grant'[h] = grant[h]
  BY <1>1, OpFacts, Zenon DEF IInv, TypeOK
<1>5. GateStep /\ SameBits
  BY <1>1, <1>3, <1>4, Zenon DEF GateStep, SameBits
<1>6. OpInv' /\ WindowInv' /\ op'.todo = {} /\ op' \in Operations
  BY <1>1, <1>2, <1>4, PublicationKept, Zenon
<1> QED
  BY <1>1, <1>4, <1>5, <1>6, OperationStep, Zenon DEF IInv, TypeOK

(* Publish's last exchange makes the window visible to the launchers.       *)
LEMMA PublishDonePreserves ==
    ASSUME IInv, NEW g \in Gates, PublishDone(g)
    PROVE  IInv'
<1> DEFINE publishing == {"Bound", "Prepared", "Publishing"}
           released == {"Bound", "Prepared", "Released"}
<1>1. /\ op.step = "PublishDone" /\ op.gate = g /\ op.todo = {} /\ op' = Idle
      /\ op.step \in PublishSteps
      /\ UNCHANGED <<now, epoch, grant, admissions, authority, claim>>
  BY OpFacts, Zenon DEF PublishDone, PublishSteps
<1>2. CASE word' = word
  BY <1>1, <1>2, OperationEnds, Zenon
<1>3. CASE Cas(g, publishing, released)
  <2>1. /\ word[g] = publishing /\ word' = [word EXCEPT ![g] = released]
        /\ released \in ValidFlags
    BY <1>3, CasWords, Zenon DEF Cas
  <2>2. \A h \in Gates : word'[h] = IF h = g THEN released ELSE word[h]
    BY <2>1, Zenon DEF IInv, TypeOK
  <2>3. op' \in Operations /\ OpInv' /\ WindowInv' /\ op'.todo = {}
    BY <1>1, IdleOp, OpTypes, Zenon
  <2>4. TypeOK'
    <3>1. word' \in [Gates -> SUBSET Flags] /\ \A h \in Gates : valid_word(word'[h])
      BY <2>1, WordTypes, Zenon DEF IInv
    <3> QED
      BY <1>1, <2>3, <3>1, Zenon DEF IInv, TypeOK
  <2>5. /\ "Bound" \in word[g] /\ "Released" \notin word[g]
        /\ "Entered" \notin word[g] /\ "Stopped" \notin word[g]
    BY ONLY <2>1
  <2>6. /\ \A h \in Gates : "Bound" \in word'[h] <=> "Bound" \in word[h]
        /\ \A h \in Gates : "Released" \in word'[h] <=> h = g \/ "Released" \in word[h]
        /\ \A h \in Gates : "Entered" \in word'[h] <=> "Entered" \in word[h]
        /\ \A h \in Gates : "Stopped" \in word'[h] <=> "Stopped" \in word[h]
    BY ONLY <2>2, <2>5
  <2>7. GateStep
    BY <1>1, <2>6, Zenon DEF GateStep
  <2>8. ClaimInv' /\ EntryWithinGrant' /\ SingleEntry'
    BY <1>1, <2>7, ClaimsStable, Zenon
  <2>9. AuthorityInv'
    <3>1. admissions \subseteq Gates
      BY Zenon DEF IInv, TypeOK
    <3> QED
      BY <1>1, <2>6, <3>1, Zenon DEF IInv, AuthorityInv
  <2>10. RevocationClosesGates' /\ OpenInSlots'
    BY <1>1, <2>3, <2>6, Zenon DEF IInv, RevocationClosesGates, OpenInSlots
  <2>11. GrantsBounded'
    <3>1. /\ grant[g] = op.grant
          /\ op.grant.released_at < op.grant.deadline
          /\ op.grant.deadline - op.grant.released_at <= Lease
          /\ op.grant.deadline <= authority.deadline
          /\ ~authority.failed
      BY <1>1, Zenon DEF IInv, OpInv, WindowInv
    <3> QED
      BY <1>1, <2>6, <3>1, Zenon DEF IInv, GrantsBounded
  <2> QED
    BY <2>3, <2>4, <2>8, <2>9, <2>10, <2>11, Zenon DEF IInv
<1> QED
  BY <1>2, <1>3, Zenon DEF PublishDone

====
