------------------------ MODULE WorkAdmissionProofs ------------------------
(* The launchers' steps, the inductive step, and what the invariant of      *)
(* WorkAdmissionInvariant gives for every instance.                         *)
EXTENDS WorkAdmissionSteps

(* What ClaimInv says of a launcher that has not been let in.               *)
Knows(c) ==
    /\ c.gate \in Gates /\ "Bound" \in word[c.gate] /\ c.epoch = epoch[c.gate]
    /\ c.step = "Loaded" => valid_word(c.word)
    /\ c.step \in {"Loaded", "Cas"} /\ "Released" \in c.word =>
          "Released" \in word[c.gate]
    /\ c.step = "Cas" =>
          c.word = {"Bound", "Prepared", "Released"} /\ InGrant(c.gate, c.now)

(* A launcher's step that does not let it in, whether or not it stops the   *)
(* gate: it is accountable only for what the launcher then knows.           *)
LEMMA ClaimMoves ==
    ASSUME IInv, NEW l \in Launchers, NEW c \in Claims, Knows(c),
           claim' = [claim EXCEPT ![l] = c],
           claim[l].result # "Entered", c.result # "Entered",
           GateStep, SameBits, word' \in [Gates -> SUBSET Flags],
           \A h \in Gates : valid_word(word'[h]) /\ Held(word'[h]) = Held(word[h]),
           UNCHANGED <<now, epoch, grant, authVars>>
    PROVE  IInv'
<1>1. UNCHANGED <<now, epoch, grant, admissions, authority, op>>
  BY Zenon DEF authVars
<1>2. claim' \in [Launchers -> Claims] /\ claim'[l] = c
  BY Zenon DEF IInv, TypeOK
<1>3. \A m \in Launchers : m # l => claim'[m] = claim[m]
  BY Zenon DEF IInv, TypeOK
<1>4. TypeOK'
  BY <1>1, <1>2, Zenon DEF IInv, TypeOK
<1>5. OpInv' /\ WindowInv'
  BY <1>1, OpKept, HeldKept, Zenon
<1>6. AuthorityInv' /\ RevocationClosesGates' /\ GrantsBounded' /\ OpenInSlots'
  <2>1. AuthorityKept /\ authority' \in Authorities
    BY <1>1, AuthoritySeen, Zenon
  <2> QED
    BY <1>1, <2>1, GatesKept, Zenon
<1>7. ClaimInv'
  <2> SUFFICES ASSUME NEW m \in Launchers PROVE ClaimInv!(m)'
    BY Zenon DEF ClaimInv
  <2>1. CASE m = l
    BY <1>1, <1>2, <2>1, Zenon DEF Knows, GateStep, InGrant
  <2>2. CASE m # l
    <3>1. ClaimInv!(m) /\ claim'[m] = claim[m]
      BY <1>3, <2>2, Zenon DEF IInv, ClaimInv
    <3> QED
      BY ONLY <1>1, <3>1, GateStep, Zenon DEF GateStep, InGrant
  <2> QED
    BY <2>1, <2>2, Zenon
<1>8. EntryWithinGrant'
  <2> SUFFICES ASSUME NEW m \in Launchers, claim'[m].result = "Entered"
               PROVE  EntryWithinGrant!(m)!2'
    BY Zenon DEF EntryWithinGrant
  <2>1. claim'[m] = claim[m] /\ claim[m].result = "Entered"
    BY <1>2, <1>3, Zenon
  <2>2. EntryWithinGrant!(m)!2 /\ ClaimInv!(m)
    BY <2>1, Zenon DEF IInv, EntryWithinGrant, ClaimInv
  <2> QED
    BY ONLY <1>1, <2>1, <2>2, GateStep, Zenon DEF GateStep, InGrant
<1>9. SingleEntry'
  <2>1. \A m \in Launchers, h \in Gates :
            claim'[m].gate = h /\ claim'[m].result = "Entered" <=>
            claim[m].gate = h /\ claim[m].result = "Entered"
    BY <1>2, <1>3, Zenon
  <2>2. SingleEntry /\ \A h \in Gates : "Entered" \in word'[h] <=> "Entered" \in word[h]
    BY Zenon DEF IInv, GateStep
  <2> QED
    BY ONLY <2>1, <2>2 DEF SingleEntry
<1> QED
  BY <1>4, <1>5, <1>6, <1>7, <1>8, <1>9, Zenon DEF IInv

(* The same where the launcher leaves the word alone.                       *)
LEMMA ClaimReads ==
    ASSUME IInv, NEW l \in Launchers, NEW c \in Claims, Knows(c),
           claim' = [claim EXCEPT ![l] = c],
           claim[l].result # "Entered", c.result # "Entered",
           UNCHANGED <<now, word, epoch, grant, authVars>>
    PROVE  IInv'
<1>1. GateStep /\ SameBits
  BY Zenon DEF GateStep, SameBits
<1>2. /\ word' \in [Gates -> SUBSET Flags]
      /\ \A h \in Gates : valid_word(word'[h]) /\ Held(word'[h]) = Held(word[h])
  BY Zenon DEF IInv, TypeOK
<1> QED
  BY <1>1, <1>2, ClaimMoves, Zenon

(* The record a launcher keeps, and what it says of one that has begun.     *)
LEMMA ClaimTypes ==
    ASSUME NEW step \in ClaimSteps, NEW g \in Gates \cup {NoGate},
           NEW e \in Epochs \cup {NoEpoch}, NEW t \in 0 .. MaxTime,
           NEW w \in SUBSET Flags, NEW r \in EntryResults
    PROVE  [step |-> step, gate |-> g, epoch |-> e, now |-> t, word |-> w,
            result |-> r] \in Claims
  BY Zenon DEF Claims

LEMMA ClaimFacts ==
    ASSUME IInv, NEW l \in Launchers
    PROVE  /\ claim[l].gate \in Gates \cup {NoGate} /\ claim[l].now \in 0 .. MaxTime
           /\ claim[l].epoch \in Epochs \cup {NoEpoch}
           /\ claim[l].word \in SUBSET Flags
           /\ claim[l].step # "Done" => claim[l].result # "Entered"
           /\ claim[l].step # "None" =>
                 /\ claim[l].gate \in Gates /\ "Bound" \in word[claim[l].gate]
                 /\ claim[l].epoch = epoch[claim[l].gate]
<1>1. claim[l] \in Claims
  BY Zenon DEF IInv, TypeOK
<1>2. /\ claim[l].gate \in Gates \cup {NoGate} /\ claim[l].now \in 0 .. MaxTime
      /\ claim[l].epoch \in Epochs \cup {NoEpoch}
      /\ claim[l].word \in SUBSET Flags
  BY ONLY <1>1 DEF Claims
<1> QED
  BY <1>2, Zenon DEF IInv, ClaimInv

LEMMA ClaimConstants ==
    /\ {"Adopted", "Sampled", "Loaded", "Cas", "Done"} \subseteq ClaimSteps
    /\ {"None", "Expired"} \subseteq EntryResults \ {"Entered"}
    /\ {} \in SUBSET Flags /\ 0 \in 0 .. MaxTime
  BY BoundsAssumption DEF ClaimSteps, EntryResults

LEMMA AdoptPreserves ==
    ASSUME IInv, NEW l \in Launchers, NEW g \in Gates, Adopt(l, g)
    PROVE  IInv'
<1> DEFINE c == [step |-> "Adopted", gate |-> g, epoch |-> epoch[g], now |-> 0,
                 word |-> {}, result |-> "None"]
<1>1. /\ claim[l].step = "None" /\ claim' = [claim EXCEPT ![l] = c]
      /\ "Bound" \in word[g]
      /\ UNCHANGED <<now, word, epoch, grant, authVars>>
  BY Zenon DEF Adopt, Exportable, gateVars
<1>2. c \in Claims
  BY ClaimTypes, ClaimConstants, Zenon DEF IInv, TypeOK
<1>3. Knows(c) /\ c.result # "Entered"
  BY <1>1, Zenon DEF Knows
<1>4. claim[l].result # "Entered"
  BY <1>1, ClaimFacts, Zenon
<1> HIDE DEF c
<1> QED
  BY <1>1, <1>2, <1>3, <1>4, ClaimReads, Zenon

LEMMA ClaimSamplePreserves ==
    ASSUME IInv, NEW l \in Launchers, ClaimSample(l)
    PROVE  IInv'
<1> DEFINE c == [step |-> "Sampled", gate |-> claim[l].gate, epoch |-> claim[l].epoch,
                 now |-> now, word |-> {}, result |-> "None"]
<1>1. /\ claim[l].step = "Adopted" /\ claim' = [claim EXCEPT ![l] = c]
      /\ UNCHANGED <<now, word, epoch, grant, authVars>>
  BY Zenon DEF ClaimSample, gateVars
<1>2. c \in Claims
  BY ClaimTypes, ClaimFacts, ClaimConstants, Zenon DEF IInv, TypeOK
<1>3. Knows(c) /\ c.result # "Entered" /\ claim[l].result # "Entered"
  BY <1>1, ClaimFacts, Zenon DEF Knows
<1> HIDE DEF c
<1> QED
  BY <1>1, <1>2, <1>3, ClaimReads, Zenon

LEMMA ClaimLoadPreserves ==
    ASSUME IInv, NEW l \in Launchers, ClaimLoad(l)
    PROVE  IInv'
<1> DEFINE c == [step |-> "Loaded", gate |-> claim[l].gate, epoch |-> claim[l].epoch,
                 now |-> claim[l].now, word |-> word[claim[l].gate], result |-> "None"]
<1>1. /\ claim[l].step = "Sampled" /\ claim' = [claim EXCEPT ![l] = c]
      /\ UNCHANGED <<now, word, epoch, grant, authVars>>
  BY Zenon DEF ClaimLoad, gateVars
<1>2. /\ claim[l].gate \in Gates /\ claim[l].result # "Entered"
      /\ word[claim[l].gate] \in SUBSET Flags /\ valid_word(word[claim[l].gate])
  BY <1>1, ClaimFacts, Zenon DEF IInv, TypeOK
<1>3. c \in Claims
  BY <1>2, ClaimTypes, ClaimFacts, ClaimConstants, Zenon
<1>4. Knows(c) /\ c.result # "Entered"
  BY <1>1, <1>2, ClaimFacts, Zenon DEF Knows
<1> HIDE DEF c
<1> QED
  BY <1>1, <1>2, <1>3, <1>4, ClaimReads, Zenon

LEMMA ClaimCheckPreserves ==
    ASSUME IInv, NEW l \in Launchers, ClaimCheck(l)
    PROVE  IInv'
<1> DEFINE g == claim[l].gate
           done(r) == [step |-> "Done", gate |-> g, epoch |-> claim[l].epoch,
                       now |-> claim[l].now, word |-> {}, result |-> r]
           cas == [step |-> "Cas", gate |-> g, epoch |-> claim[l].epoch,
                   now |-> claim[l].now, word |-> claim[l].word, result |-> "None"]
<1>1. /\ claim[l].step = "Loaded" /\ UNCHANGED <<now, epoch, grant, authVars>>
  BY Zenon DEF ClaimCheck
<1>2. /\ g \in Gates /\ "Bound" \in word[g] /\ claim[l].epoch = epoch[g]
      /\ claim[l].result # "Entered"
  BY <1>1, ClaimFacts, Zenon
<1>3. ASSUME NEW r \in EntryResults \ {"Entered"}
      PROVE  done(r) \in Claims /\ Knows(done(r)) /\ done(r).result # "Entered"
  <2>1. done(r) \in Claims
    BY ClaimTypes, ClaimFacts, ClaimConstants, Zenon
  <2> QED
    BY <1>2, <2>1, Zenon DEF Knows
<1>4. CASE /\ Finish(l, EntryRefusal(claim[l])) /\ word' = word
  <2>1. EntryRefusal(claim[l]) \in EntryResults \ {"Entered"}
    BY Zenon DEF EntryRefusal, EntryResults
  <2>2. claim' = [claim EXCEPT ![l] = done(EntryRefusal(claim[l]))]
    BY <1>4, Zenon DEF Finish
  <2> HIDE DEF done
  <2> QED
    BY <1>1, <1>2, <1>3, <1>4, <2>1, <2>2, ClaimReads, Zenon
<1>5. CASE word' = Closed(g) /\ Finish(l, "Expired")
  <2>1. claim' = [claim EXCEPT ![l] = done("Expired")]
    BY <1>5, Zenon DEF Finish
  <2>2. "Expired" \in EntryResults \ {"Entered"}
    BY ClaimConstants, Zenon
  <2>3. /\ GateStep /\ SameBits /\ word' \in [Gates -> SUBSET Flags]
        /\ \A h \in Gates : valid_word(word'[h]) /\ Held(word'[h]) = Held(word[h])
    BY <1>1, <1>2, <1>5, ClosedGate, Zenon DEF IInv
  <2> HIDE DEF done, g
  <2> QED
    BY <1>1, <1>2, <1>3, <2>1, <2>2, <2>3, ClaimMoves, Zenon
<1>6. CASE /\ EntryRefusal(claim[l]) = "None" /\ InGrant(g, claim[l].now)
           /\ claim' = [claim EXCEPT ![l] = cas] /\ word' = word
  <2>1. /\ "Released" \in claim[l].word /\ "Stopped" \notin claim[l].word
        /\ "Entered" \notin claim[l].word
    BY ONLY <1>6 DEF EntryRefusal
  <2>2. claim[l].word = {"Bound", "Prepared", "Released"} /\ "Released" \in word[g]
    BY <1>1, <2>1, ClaimFacts, ReleasedWord, Zenon DEF IInv, ClaimInv
  <2>3. cas \in Claims
    BY ClaimTypes, ClaimFacts, ClaimConstants, Zenon
  <2>4. Knows(cas) /\ cas.result # "Entered"
    BY <1>2, <1>6, <2>2, Zenon DEF Knows
  <2> HIDE DEF cas
  <2> QED
    BY <1>1, <1>2, <1>6, <2>3, <2>4, ClaimReads, Zenon
<1> QED
  BY <1>4, <1>5, <1>6, Zenon DEF ClaimCheck

LEMMA ClaimCasPreserves ==
    ASSUME IInv, NEW l \in Launchers, ClaimCas(l)
    PROVE  IInv'
<1> USE BoundsAssumption, SetsAssumption DEF IInv, ClaimCas, Cas, Finish, gateVars, authVars
<1>1. /\ claim[l].gate \in Gates /\ claim[l].result # "Entered"
      /\ epoch[claim[l].gate] = claim[l].epoch
      /\ InGrant(claim[l].gate, claim[l].now)
      /\ "Bound" \in word[claim[l].gate] /\ "Released" \in word[claim[l].gate]
  BY Zenon DEF ClaimInv
<1>2. claim[l].word = {"Bound", "Prepared", "Released"}
  BY Zenon DEF ClaimInv
<1>3. /\ claim'[l].gate = claim[l].gate /\ claim'[l].epoch = claim[l].epoch
      /\ claim'[l].now = claim[l].now /\ claim'[l].step = "Done"
      /\ \A m \in Launchers \ {l} : claim'[m] = claim[m]
  BY DEF TypeOK
<1>4. \A h \in Gates :
          /\ "Bound" \in word'[h] <=> "Bound" \in word[h]
          /\ "Released" \in word'[h] <=> "Released" \in word[h]
          /\ "Stopped" \in word'[h] <=> "Stopped" \in word[h]
          /\ "Entered" \in word'[h] <=>
                "Entered" \in word[h] \/ (h = claim[l].gate /\ claim'[l].result = "Entered")
  BY <1>1, <1>2 DEF TypeOK
<1>5. claim'[l].result = "Entered" => "Entered" \notin word[claim[l].gate]
  BY <1>1, <1>2 DEF TypeOK
<1>6. TypeOK'
  <2>0. claim[l].word \cup {"Entered"} =
            {"Bound", "Prepared", "Released", "Entered"}
    BY <1>2, Zenon
  <2>1. word' \in [Gates -> SUBSET Flags] /\ \A h \in Gates : valid_word(word'[h])
    BY <1>1, <2>0, CasWords, WordTypes, Zenon, word' = word \/
          word' = [word EXCEPT ![claim[l].gate] =
                      {"Bound", "Prepared", "Released", "Entered"}] DEF TypeOK
  <2>2. claim'[l] \in Claims /\ claim' = [claim EXCEPT ![l] = claim'[l]]
    BY DEF TypeOK, Claims, ClaimSteps, EntryResults
  <2> QED
    BY <2>1, <2>2, Zenon DEF TypeOK
<1>7. OpInv'
  BY Zenon DEF OpInv, Idle
<1>8. WindowInv'
  <2>1. \A h \in Gates :
            word[h] # word'[h] => word[h] = {"Bound", "Prepared", "Released"}
    BY <1>1, <1>2, Zenon DEF TypeOK
  <2>2. Held({"Bound", "Prepared", "Released"}) \notin
            {{"Binding"}, {"Bound", "Prepared", "Publishing"}}
    BY DEF Held
  <2>3. op.step \in {"BindWrite", "BindDone", "PublishWrite", "PublishDone"} =>
            op.gate \in Gates /\ word'[op.gate] = word[op.gate]
    BY <2>1, <2>2, Zenon DEF WindowInv, OpInv, BindSteps, PublishSteps, TypeOK
  <2> QED
    BY <2>3, Zenon DEF WindowInv
<1>9. AuthorityInv'
  BY <1>4, Zenon DEF AuthorityInv, TypeOK
<1>10. ClaimInv'
  <2> SUFFICES ASSUME NEW m \in Launchers PROVE ClaimInv!(m)'
    BY Zenon DEF ClaimInv
  <2>1. CASE m = l
    BY <1>1, <1>3, <1>4, <2>1, ZenonT(60) DEF ClaimInv
  <2>2. CASE m # l
    <3>1. ClaimInv!(m) /\ claim'[m] = claim[m] /\ epoch' = epoch /\ grant' = grant
      BY <1>3, <2>2, Zenon DEF ClaimInv
    <3> QED
      BY ONLY <1>4, <3>1, Zenon DEF InGrant
  <2> QED
    BY <2>1, <2>2, Zenon
<1>11. RevocationClosesGates'
  BY <1>4, ZenonT(60) DEF RevocationClosesGates, TypeOK
<1>12. EntryWithinGrant'
  <2> SUFFICES ASSUME NEW m \in Launchers, claim'[m].result = "Entered" PROVE EntryWithinGrant!(m)!2'
    BY Zenon DEF EntryWithinGrant
  <2>0. epoch' = epoch /\ grant' = grant /\ authority' = authority
    BY Zenon
  <2>1. CASE m = l
    <3>1. claim[l].epoch = authority.epoch
      BY <1>1, Zenon DEF AuthorityInv
    <3>2. "Entered" \in word'[claim[l].gate]
      BY <1>1, <1>4, <2>1, Zenon
    <3> QED
      BY ONLY <1>1, <1>3, <2>0, <2>1, <3>1, <3>2, Zenon DEF InGrant
  <2>2. CASE m # l
    <3>1. claim'[m] = claim[m] /\ claim[m].result = "Entered"
      BY <1>3, <2>2, Zenon
    <3>2. EntryWithinGrant!(m)!2 /\ ClaimInv!(m)
      BY <3>1, Zenon DEF EntryWithinGrant, ClaimInv
    <3> QED
      BY ONLY <1>4, <2>0, <3>1, <3>2, Zenon DEF InGrant
  <2> QED
    BY <2>1, <2>2, Zenon
<1>13. SingleEntry'
  <2> SUFFICES ASSUME NEW h \in Gates PROVE SingleEntry!(h)'
    BY Zenon DEF SingleEntry
  <2>1. CASE claim'[l].result = "Entered" /\ h = claim[l].gate
    <3>1. \A m \in Launchers :
              ~(claim[m].gate = h /\ claim[m].result = "Entered")
      BY <1>5, <2>1, ZenonT(60) DEF EntryWithinGrant
    <3> QED
      BY ONLY <1>3, <1>4, <2>1, <3>1
  <2>2. CASE ~(claim'[l].result = "Entered" /\ h = claim[l].gate)
    <3>1. SingleEntry!(h)
      BY Zenon DEF SingleEntry
    <3> QED
      BY ONLY <1>1, <1>3, <1>4, <2>2, <3>1
  <2> QED
    BY <2>1, <2>2, Zenon
<1>14. GrantsBounded'
  BY <1>4, Zenon DEF GrantsBounded, TypeOK
<1>15. OpenInSlots'
  BY <1>4, Zenon DEF OpenInSlots, TypeOK
<1> QED
  BY <1>1, <1>2, <1>3, <1>4, <1>5, <1>6, <1>7, <1>8, <1>9, <1>10, <1>11, <1>12, <1>13, <1>14, <1>15, ZenonT(60)

(* The inductive step: one lemma per action.                                *)
THEOREM Inductive == IInv /\ [Next]_vars => IInv'
<1> SUFFICES ASSUME IInv, [Next]_vars PROVE IInv'
  BY Zenon
<1>1. CASE Tick
  BY <1>1, TickPreserves, Zenon
<1>2. CASE Revoke
  BY <1>2, RevokePreserves, Zenon
<1>3. CASE \E e \in Epochs, d \in Time : Observe(e, d, now)
  BY <1>3, ObservePreserves, Zenon
<1>4. ASSUME NEW g \in Gates, Stop(g) PROVE IInv'
  BY <1>4, StopPreserves, Zenon
<1>5. ASSUME NEW g \in Gates, Call(g) PROVE IInv'
  BY <1>5, AdmitPreserves, PreparedPreserves, ReleasePreserves, RetirePreserves, Zenon
     DEF Call
<1>6. ASSUME NEW g \in Gates, AuthorityStep(g) PROVE IInv'
  BY <1>6, RevokeStopPreserves, RevokeReturnPreserves, BindCasPreserves,
     BindWritePreserves, BindDonePreserves, PreparedCasPreserves,
     PublishCasPreserves, PublishWritePreserves, PublishDonePreserves, Zenon
     DEF AuthorityStep
<1>7. ASSUME NEW l \in Launchers, LauncherStep(l) PROVE IInv'
  BY <1>7, AdoptPreserves, ClaimSamplePreserves, ClaimLoadPreserves,
     ClaimCheckPreserves, ClaimCasPreserves, Zenon DEF LauncherStep
<1>8. CASE UNCHANGED vars
  <2>1. GateStep
    BY <1>8, Zenon DEF GateStep, vars, gateVars
  <2>2. ClaimInv' /\ EntryWithinGrant' /\ SingleEntry'
    BY <1>8, <2>1, ClaimsStable, Zenon DEF vars, authVars
  <2>3. TypeOK'
    BY <1>8, Zenon DEF IInv, TypeOK, vars, gateVars, authVars
  <2> QED
    BY <1>8, <2>2, <2>3, AuthorityStable, Zenon DEF IInv, vars
<1> QED
  BY <1>1, <1>2, <1>3, <1>4, <1>5, <1>6, <1>7, <1>8, Zenon DEF Next

THEOREM Initially == Init => IInv
<1> SUFFICES ASSUME Init PROVE IInv
  BY Zenon
<1> USE BoundsAssumption, SetsAssumption DEF Init, Idle, NoGrant, NoClaim
<1>1. {} \in SUBSET Flags /\ valid_word({})
  BY WordFacts, ZenonT(60) DEF Progress
<1>2. TypeOK
  BY <1>1 DEF TypeOK, Grants, Time, Authorities, Operations, Steps,
     Claims, ClaimSteps, EntryResults
<1>3. OpInv /\ WindowInv /\ AuthorityInv /\ ClaimInv
  BY DEF OpInv, WindowInv, AuthorityInv, ClaimInv, BindSteps, PublishSteps
<1>4. RevocationClosesGates /\ EntryWithinGrant /\ SingleEntry
  BY Zenon DEF RevocationClosesGates, EntryWithinGrant, SingleEntry
<1>5. GrantsBounded /\ OpenInSlots
  BY Zenon DEF GrantsBounded, OpenInSlots
<1> QED
  BY <1>2, <1>3, <1>4, <1>5, Zenon DEF IInv

THEOREM Invariance == Spec => []IInv
  BY Initially, Inductive, PTL DEF Spec

-----------------------------------------------------------------------------
(* What the invariant gives, for every instance.                            *)

(* The state is well typed and every word is a valid_word.                  *)
THEOREM TypeCorrect == Spec => []TypeOK
  BY Invariance, PTL DEF IInv

(* Once AdmissionAuthority::Revoke returns, no gate it bound is open.       *)
THEOREM RevocationComplete == Spec => []RevocationClosesGates
  BY Invariance, PTL DEF IInv

(* ClaimEntry lets a launcher in only for a clock sample inside the window  *)
(* that Publish wrote, under the epoch that Bind wrote.                     *)
THEOREM EntryAuthorized == Spec => []EntryWithinGrant
  BY Invariance, PTL DEF IInv

(* However many launchers adopt a gate, ClaimEntry lets one in.             *)
THEOREM EntryOnce == Spec => []SingleEntry
  BY Invariance, PTL DEF IInv

(* Release never publishes a window past the authority's own deadline, and  *)
(* the window it publishes opens at its own clock sample.                   *)
THEOREM GrantBounded == Spec => []GrantWithinAuthority
<1>1. ASSUME IInv PROVE GrantWithinAuthority
  <2>1. op.step = "PublishDone" => op.step \in PublishSteps
    BY Zenon DEF PublishSteps
  <2>2. op.step = "PublishDone" =>
            grant[op.gate] = op.grant /\ op.grant.released_at = authority.observed
    BY <1>1, <2>1, Zenon DEF IInv, OpInv, WindowInv
  <2> QED
    BY <1>1, <2>2, Zenon DEF IInv, GrantWithinAuthority
<1>2. IInv => GrantWithinAuthority
  BY <1>1, Zenon
<1> QED
  BY <1>2, Invariance, PTL

(* What one step does to a gate: every write to the word is Stop's          *)
(* fetch_or or a compare-exchange from a word without the Stopped bit, and  *)
(* the fields are written only inside the Binding and Publishing windows.   *)
LEMMA StepOnGate ==
    ASSUME IInv, [Next]_vars, NEW h \in Gates
    PROVE  /\ "Stopped" \in word[h] => word'[h] = word[h]
           /\ "Bound" \in word[h] => epoch'[h] = epoch[h]
           /\ "Released" \in word[h] => grant'[h] = grant[h]
<1> DEFINE Goal == /\ "Stopped" \in word[h] => word'[h] = word[h]
                   /\ "Bound" \in word[h] => epoch'[h] = epoch[h]
                   /\ "Released" \in word[h] => grant'[h] = grant[h]
<1> USE DEF IInv, TypeOK
<1>1. CASE UNCHANGED gateVars
  BY <1>1, Zenon DEF gateVars
<1>2. ASSUME NEW g \in Gates, word' = Closed(g), UNCHANGED <<epoch, grant>>
      PROVE  Goal
  <2>1. "Stopped" \in word[h] => word[h] \cup {"Stopped"} = word[h]
    BY Zenon
  <2> QED
    BY <1>2, <2>1, Zenon DEF Closed
<1>3. ASSUME NEW g \in Gates, NEW w, NEW v, Cas(g, w, v), "Stopped" \notin w,
             UNCHANGED <<epoch, grant>>
      PROVE  Goal
  BY <1>3, Zenon DEF Cas
<1>4. ASSUME NEW g \in Gates, BindWrite(g) \/ PublishWrite(g)
      PROVE  Goal
  BY <1>4 DEF BindWrite, PublishWrite, WindowInv, Held
<1>5. CASE Tick \/ Revoke \/ \E e \in Epochs, d \in Time : Observe(e, d, now)
  BY <1>1, <1>5, Zenon DEF Tick, Revoke, Observe, gateVars
<1>6. ASSUME NEW g \in Gates, Stop(g) \/ Call(g) PROVE Goal
  BY <1>1, <1>2, <1>6, Zenon DEF Stop, Call, Admit, Prepared, Release, Retire, Refuse,
     Proceed, gateVars
<1>7. ASSUME NEW g \in Gates, AuthorityStep(g) PROVE Goal
  <2>1. CASE RevokeStop(g) \/ RevokeReturn
    BY <1>1, <1>2, <2>1, Zenon DEF RevokeStop, RevokeReturn
  <2>2. CASE BindWrite(g) \/ PublishWrite(g)
    BY <1>4, <2>2, Zenon
  <2>3. CASE BindCas(g) \/ BindDone(g) \/ PreparedCas(g) \/ PublishCas(g)
             \/ PublishDone(g)
    BY <1>1, <1>3, <2>3, Zenon DEF BindCas, BindDone, PreparedCas, PublishCas,
       PublishDone, gateVars
  <2> QED
    BY <1>7, <2>1, <2>2, <2>3, Zenon DEF AuthorityStep
<1>8. ASSUME NEW l \in Launchers, LauncherStep(l) PROVE Goal
  <2>1. CASE ClaimCheck(l)
    BY <1>1, <1>2, <2>1, Zenon DEF ClaimCheck, ClaimInv, gateVars
  <2>2. CASE ClaimCas(l)
    BY <1>1, <1>3, <2>2, Zenon DEF ClaimCas, ClaimInv, gateVars
  <2> QED
    BY <1>1, <1>8, <2>1, <2>2, Zenon DEF LauncherStep, Adopt, ClaimSample, ClaimLoad
<1>9. CASE UNCHANGED vars
  BY <1>1, <1>9, Zenon DEF vars
<1> QED
  BY <1>5, <1>6, <1>7, <1>8, <1>9, Zenon DEF Next

(* No late bind, preparation, publication or claim changes a stopped word.  *)
THEOREM StopFinal == Spec => StopIsFinal
<1>1. IInv /\ [Next]_vars =>
          [\A g \in Gates : "Stopped" \in word[g] => word'[g] = word[g]]_vars
  BY StepOnGate, Zenon
<1> QED
  BY <1>1, Invariance, PTL DEF Spec, StopIsFinal

(* The metadata a launcher reads without a lock was frozen when the bit     *)
(* that publishes it was set.                                               *)
THEOREM MetadataFrozen == Spec => PublishedFrozen
<1>1. IInv /\ [Next]_vars =>
          [\A g \in Gates :
              /\ "Bound" \in word[g] => epoch'[g] = epoch[g]
              /\ "Released" \in word[g] => grant'[g] = grant[g]]_vars
  BY StepOnGate, Zenon
<1> QED
  BY <1>1, Invariance, PTL DEF Spec, PublishedFrozen

(* A launcher that reaches its compare-exchange after a revocation returned *)
(* finds the gate stopped.                                                  *)
THEOREM RevocationFinal == Spec => NoEntryAfterRevocation
<1> DEFINE A == authority.failed =>
          /\ authority'.failed
          /\ op = Idle => \A l \in Launchers :
                claim'[l].result = "Entered" => claim[l].result = "Entered"
<1>1. ASSUME authority.failed, UNCHANGED claim,
             \/ UNCHANGED authority
             \/ authority' = Seen(now)
             \/ \E t \in 0 .. MaxTime : authority' = Revoked(t)
      PROVE  A
  BY ONLY <1>1 DEF Seen, Revoked
<1>2. ASSUME IInv, authority.failed, NEW l \in Launchers, LauncherStep(l)
      PROVE  A
  <2> USE <1>2 DEF IInv
  <2>1. CASE ClaimCas(l)
    <3>1. /\ claim[l].gate \in Gates /\ "Bound" \in word[claim[l].gate]
          /\ claim[l].word = {"Bound", "Prepared", "Released"}
      BY <2>1, Zenon DEF ClaimCas, ClaimInv
    <3>2. op = Idle => "Stopped" \in word[claim[l].gate]
      <4>1. RevocationClosesGates /\ authority.failed
        BY Zenon
      <4> QED
        BY ONLY <3>1, <4>1 DEF RevocationClosesGates, Idle
    <3>3. op = Idle => claim'[l].result # "Entered"
      BY <2>1, <3>1, <3>2 DEF ClaimCas, Cas, Finish, TypeOK
    <3> QED
      BY <2>1, <3>3, Zenon DEF ClaimCas, Finish, TypeOK, authVars
  <2>2. CASE ClaimCheck(l)
    BY <2>2, SMTT(60) DEF ClaimCheck, Finish, EntryRefusal, TypeOK, authVars
  <2> QED
    BY <2>1, <2>2 DEF LauncherStep, Adopt, ClaimSample, ClaimLoad, TypeOK,
       authVars
<1>3. ASSUME IInv, [Next]_vars, authority.failed PROVE A
  <2> USE <1>1, <1>3
  <2>1. now \in 0 .. MaxTime /\ authority.observed \in 0 .. MaxTime
    BY Zenon DEF IInv, TypeOK, Authorities
  <2>2. ASSUME NEW g \in Gates, Stop(g) \/ Call(g) PROVE A
    BY <2>1, <2>2, Zenon DEF Stop, Call, Admit, Prepared, Release, Retire, Refuse,
       Proceed, RevokeLocked, authVars
  <2>3. ASSUME NEW g \in Gates, AuthorityStep(g) PROVE A
    BY <2>3, Zenon DEF AuthorityStep, RevokeStop, RevokeReturn, BindCas, BindWrite,
       BindDone, PreparedCas, PublishCas, PublishWrite, PublishDone
  <2>4. CASE Revoke \/ Tick \/ \E e \in Epochs, d \in Time : Observe(e, d, now)
    BY <2>1, <2>4, Zenon DEF Revoke, Tick, Observe, RevokeLocked, authVars
  <2>5. CASE UNCHANGED vars
    BY <2>5, Zenon DEF vars, authVars
  <2> QED
    BY <1>2, <2>2, <2>3, <2>4, <2>5, Zenon DEF Next
<1>4. IInv /\ [Next]_vars => [A]_vars
  BY <1>3, Zenon
<1> QED
  BY <1>4, Invariance, PTL DEF Spec, NoEntryAfterRevocation

-----------------------------------------------------------------------------
(* The slots: finitely many gates, each taking one.                         *)

(* The free slot that Admit saw under the mutex is still free when the      *)
(* gate takes it.                                                           *)
SlotInv ==
    /\ Cardinality(admissions) <= Capacity
    /\ op.step \in BindSteps => Cardinality(admissions) < Capacity

(* Any set of gates has a size; taking one away makes it smaller, and a new *)
(* one makes it larger by one.                                              *)
LEMMA SlotSizes ==
    /\ Cardinality({}) = 0
    /\ \A S \in SUBSET Gates : Cardinality(S) \in Nat
    /\ \A S \in SUBSET Gates, g \in Gates :
           /\ Cardinality(S \ {g}) <= Cardinality(S)
           /\ Cardinality(S \cup {g}) <= Cardinality(S) + 1
<1>1. \A S \in SUBSET Gates : IsFiniteSet(S)
  BY FiniteAssumption, FS_Subset, Zenon
<1>2. Cardinality({}) = 0
  BY FS_EmptySet, Zenon
<1>3. \A S \in SUBSET Gates : Cardinality(S) \in Nat
  BY <1>1, FS_CardinalityType, Zenon
<1>4. ASSUME NEW S \in SUBSET Gates, NEW g \in Gates
      PROVE  Cardinality(S \ {g}) <= Cardinality(S)
  <2>1. IsFiniteSet(S) /\ Cardinality(S) \in Nat
    BY <1>1, <1>3, Zenon
  <2>2. Cardinality(S \ {g}) = IF g \in S THEN Cardinality(S) - 1 ELSE Cardinality(S)
    BY <2>1, FS_RemoveElement, Zenon
  <2> QED
    BY <2>1, <2>2
<1>5. ASSUME NEW S \in SUBSET Gates, NEW g \in Gates
      PROVE  Cardinality(S \cup {g}) <= Cardinality(S) + 1
  <2>1. IsFiniteSet(S) /\ Cardinality(S) \in Nat
    BY <1>1, <1>3, Zenon
  <2>2. Cardinality(S \cup {g}) = IF g \in S THEN Cardinality(S) ELSE Cardinality(S) + 1
    BY <2>1, FS_AddElement, Zenon
  <2> QED
    BY ONLY <2>1, <2>2
<1> QED
  BY <1>2, <1>3, <1>4, <1>5, Zenon

(* Only Admit starts a bind, with a slot free; only its last step takes a   *)
(* slot, and it ends the bind.                                              *)
LEMMA SlotStep == IInv /\ SlotInv /\ [Next]_vars => SlotInv'
<1> SUFFICES ASSUME IInv, SlotInv, [Next]_vars PROVE SlotInv'
  BY Zenon
<1> DEFINE SameSlots ==
        /\ admissions' = admissions
        /\ op'.step \in BindSteps => op.step \in BindSteps \/ Cardinality(admissions) < Capacity
<1>1. admissions \in SUBSET Gates /\ Capacity \in Nat
  BY BoundsAssumption, Zenon DEF IInv, TypeOK
<1>2. SameSlots => SlotInv'
  BY Zenon DEF SlotInv
<1>3. CASE Tick \/ UNCHANGED vars \/ \E l \in Launchers : LauncherStep(l)
  <2>1. admissions' = admissions /\ op' = op
    BY <1>3, Zenon DEF Tick, vars, LauncherStep, Adopt, ClaimSample, ClaimLoad, ClaimCheck, ClaimCas, authVars
  <2> QED
    BY <1>2, <2>1, Zenon
<1>4. CASE Revoke \/ \E e \in Epochs, d \in Time : Observe(e, d, now)
  BY <1>2, <1>4 DEF Revoke, Observe, RevokeLocked, Revoking, BindSteps
<1>5. ASSUME NEW g \in Gates, Stop(g) PROVE SlotInv'
  BY <1>2, <1>5, Zenon DEF Stop, authVars
<1>6. ASSUME NEW g \in Gates, Call(g) PROVE SlotInv'
  <2>1. CASE Admit(g, now)
    BY <1>2, <2>1 DEF Admit, Admissible, Refuse, RevokeLocked, Revoking, Proceed, Idle, BindSteps
  <2>2. CASE Prepared(g, now)
    BY ONLY <1>2, <2>2 DEF Prepared, Refuse, RevokeLocked, Revoking, Proceed, Idle, At, BindSteps
  <2>3. CASE \E ceiling \in Time : Release(g, now, ceiling)
    BY <1>2, <2>3 DEF Release, Refuse, RevokeLocked, Revoking, Proceed, Idle, At, BindSteps
  <2>4. CASE Retire(g)
    <3>1. admissions' = admissions \ {g} /\ op' = op
      BY <2>4, Zenon DEF Retire
    <3>2. Cardinality(admissions') <= Cardinality(admissions)
      BY <1>1, <3>1, SlotSizes, Zenon
    <3>3. Cardinality(admissions') \in Nat /\ Cardinality(admissions) \in Nat
      BY <1>1, <3>1, SlotSizes, Zenon
    <3> QED
      BY <1>1, <3>1, <3>2, <3>3 DEF SlotInv
  <2> QED
    BY <1>6, <2>1, <2>2, <2>3, <2>4, ZenonT(60) DEF Call
<1>7. ASSUME NEW g \in Gates, AuthorityStep(g) PROVE SlotInv'
  <2>1. CASE BindDone(g)
    <3>1. admissions' \in {admissions, admissions \cup {g}} /\ op' = Idle /\ op.step = "BindDone"
      BY <2>1, Zenon DEF BindDone
    <3>2. Cardinality(admissions \cup {g}) <= Cardinality(admissions) + 1
      BY <1>1, SlotSizes, Zenon
    <3>3. Cardinality(admissions') \in Nat /\ Cardinality(admissions) \in Nat
      BY <1>1, <3>1, SlotSizes, Zenon
    <3>4. op'.step \notin BindSteps /\ op.step \in BindSteps
      BY <3>1, ZenonT(60) DEF Idle, BindSteps
    <3> QED
      BY <1>1, <3>1, <3>2, <3>3, <3>4 DEF SlotInv
  <2>2. CASE RevokeStop(g) \/ RevokeReturn \/ BindCas(g) \/ BindWrite(g)
    BY ONLY <1>2, <2>2 DEF RevokeStop, RevokeReturn, BindCas, BindWrite, Revoking, Idle, At, BindSteps
  <2>3. CASE PreparedCas(g) \/ PublishCas(g) \/ PublishWrite(g) \/ PublishDone(g)
    BY <1>2, <2>3 DEF PreparedCas, PublishCas, PublishWrite, PublishDone, Idle, At, BindSteps
  <2> QED
    BY <1>7, <2>1, <2>2, <2>3, Zenon DEF AuthorityStep
<1> QED
  BY <1>3, <1>4, <1>5, <1>6, <1>7, Zenon DEF Next

(* Every open bound gate is in a slot, and slots never exceed capacity_.    *)
THEOREM SlotsAccounted == Spec => []OpenGatesRegistered
<1>1. Init => SlotInv
  BY SlotSizes, BoundsAssumption DEF Init, SlotInv, Idle, BindSteps
<1>2. SlotInv /\ IInv => OpenGatesRegistered
  BY Zenon DEF SlotInv, IInv, OpenGatesRegistered
<1> QED
  BY Invariance, <1>1, <1>2, SlotStep, PTL DEF Spec

============================================================================
