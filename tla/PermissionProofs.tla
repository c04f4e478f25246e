-------------------------- MODULE PermissionProofs --------------------------
(* The platform adapter, the admission authority and the launchers implement *)
(* Permission, for every instance.                                          *)
EXTENDS PlatformLifecycleProofs

-----------------------------------------------------------------------------
(* The mapping: what of a gate and of a launcher an observer of the         *)
(* permission sees.                                                         *)

Visible == {"Released", "Entered", "Stopped"}

LEMMA PermitKept ==
    ASSUME NEW g \in Gates,
           word'[g] \cap Visible = word[g] \cap Visible,
           "Released" \in word[g] => epoch'[g] = epoch[g] /\ grant'[g] = grant[g]
    PROVE  Permits'[g] = Permits[g]
<1>1. \A f \in Visible : f \in word'[g] <=> f \in word[g]
  BY Zenon
<1>2. /\ "Released" \in word'[g] <=> "Released" \in word[g]
      /\ "Entered" \in word'[g] <=> "Entered" \in word[g]
      /\ "Stopped" \in word'[g] <=> "Stopped" \in word[g]
  BY <1>1, Zenon DEF Visible
<1>3. PermitState(word'[g]) = PermitState(word[g])
  BY ONLY <1>2 DEF PermitState
<1>4. /\ Permits[g] = IF "Released" \in word[g]
                      THEN [state |-> PermitState(word[g]), epoch |-> epoch[g],
                            from |-> grant[g].released_at, until |-> grant[g].deadline]
                      ELSE [state |-> PermitState(word[g]), epoch |-> NoEpoch,
                            from |-> 0, until |-> 0]
      /\ Permits'[g] = IF "Released" \in word'[g]
                       THEN [state |-> PermitState(word'[g]), epoch |-> epoch'[g],
                             from |-> grant'[g].released_at, until |-> grant'[g].deadline]
                       ELSE [state |-> PermitState(word'[g]), epoch |-> NoEpoch,
                             from |-> 0, until |-> 0]
  BY Zenon DEF Permits
<1> QED
  BY <1>2, <1>3, <1>4, Zenon

LEMMA PermitsKept ==
    ASSUME \A g \in Gates : Permits'[g] = Permits[g] PROVE Permits' = Permits
  BY Zenon DEF Permits

LEMMA EntriesKept ==
    ASSUME \A l \in Launchers :
              \/ claim'[l] = claim[l]
              \/ claim'[l].result # "Entered" /\ claim[l].result # "Entered"
    PROVE  Entries' = Entries
<1>1. ASSUME NEW l \in Launchers PROVE Entries'[l] = Entries[l]
  BY Zenon DEF Entries
<1> QED
  BY <1>1, Zenon DEF Entries

(* A step that nobody sees; every instruction that binds, prepares or       *)
(* writes is one.                                                           *)
LEMMA UnseenStep ==
    ASSUME IInv, [Next]_vars, UNCHANGED claim,
           \A g \in Gates : word'[g] \cap Visible = word[g] \cap Visible
    PROVE  Permits' = Permits /\ Entries' = Entries
<1>1. ASSUME NEW g \in Gates PROVE Permits'[g] = Permits[g]
  <2>1. "Released" \in word[g] => "Bound" \in word[g]
    BY ReleasedBound, Zenon DEF IInv, TypeOK
  <2>2. "Released" \in word[g] => epoch'[g] = epoch[g] /\ grant'[g] = grant[g]
    BY <2>1, StepOnGate, Zenon
  <2> QED
    BY <2>2, PermitKept, Zenon
<1> QED
  BY <1>1, PermitsKept, EntriesKept, Zenon

(* The exchanges of Bind, Prepared and of Publish's first half.             *)
LEMMA UnseenExchange ==
    ASSUME IInv, NEW g \in Gates,
           \/ Cas(g, {}, {"Binding"})
           \/ Cas(g, {"Binding"}, {"Bound"})
           \/ Cas(g, {"Bound"}, {"Bound", "Prepared"})
           \/ Cas(g, {"Bound", "Prepared"}, {"Bound", "Prepared", "Publishing"})
    PROVE  \A h \in Gates : word'[h] \cap Visible = word[h] \cap Visible
<1>1. /\ {} \cap Visible = {} /\ {"Binding"} \cap Visible = {}
      /\ {"Bound"} \cap Visible = {} /\ {"Bound", "Prepared"} \cap Visible = {}
      /\ {"Bound", "Prepared", "Publishing"} \cap Visible = {}
  BY ONLY TRUE DEF Visible
<1>2. word[g] \cap Visible = {} /\ word'[g] \cap Visible = {}
  BY <1>1, Zenon DEF Cas, IInv, TypeOK
<1>3. \A h \in Gates : h # g => word'[h] = word[h]
  BY Zenon DEF Cas, IInv, TypeOK
<1> QED
  BY <1>2, <1>3, Zenon

PublishLast(g) ==
    /\ PublishDone(g)
    /\ Cas(g, {"Bound", "Prepared", "Publishing"}, {"Bound", "Prepared", "Released"})

ClaimLast(l) ==
    /\ claim[l].step = "Cas"
    /\ Cas(claim[l].gate, claim[l].word, claim[l].word \cup {"Entered"})
    /\ Finish(l, "Entered")

Seeing ==
    \/ \E g \in Gates : word' = Closed(g) /\ Entries' = Entries
    \/ \E g \in Gates : PublishLast(g)
    \/ \E l \in Launchers : ClaimLast(l)

(* What a launcher does before its exchange, or when the exchange fails, is *)
(* unseen but for the gate it may close.                                    *)
LEMMA LauncherEffect ==
    ASSUME IInv, NEW l \in Launchers, LauncherStep(l)
    PROVE  /\ UNCHANGED <<now, epoch, grant, authVars>>
           /\ \/ ClaimLast(l)
              \/ /\ Entries' = Entries
                 /\ \/ word' = word
                    \/ \E g \in Gates : word' = Closed(g)
<1>1. UNCHANGED <<now, epoch, grant, authVars>>
  BY Zenon DEF LauncherStep, Adopt, ClaimSample, ClaimLoad, ClaimCheck, ClaimCas, gateVars
<1>2. claim[l].step \in {"None", "Adopted", "Sampled", "Loaded", "Cas"}
  BY Zenon DEF LauncherStep, Adopt, ClaimSample, ClaimLoad, ClaimCheck, ClaimCas
<1>3. claim[l].result # "Entered"
  BY <1>2, ClaimFacts
<1>4. ASSUME NEW c, claim' = [claim EXCEPT ![l] = c] PROVE
          /\ claim'[l] = c
          /\ c.result # "Entered" => Entries' = Entries
  <2>1. claim'[l] = c /\ \A m \in Launchers : m # l => claim'[m] = claim[m]
    BY <1>4, Zenon DEF IInv, TypeOK
  <2> QED
    BY <1>3, <1>4, <2>1, EntriesKept, Zenon
<1>5. ASSUME NEW result, Finish(l, result), result # "Entered" PROVE Entries' = Entries
  <2> DEFINE c == [step |-> "Done", gate |-> claim[l].gate, epoch |-> claim[l].epoch,
                   now |-> claim[l].now, word |-> {}, result |-> result]
  <2>1. claim' = [claim EXCEPT ![l] = c]
    BY <1>5, Zenon DEF Finish
  <2>2. c.result # "Entered"
    BY <1>5, Zenon
  <2> HIDE DEF c
  <2> QED
    BY <1>4, <2>1, <2>2, Zenon
<1>6. CASE (\E g \in Gates : Adopt(l, g)) \/ ClaimSample(l) \/ ClaimLoad(l)
  <2>1. word' = word
    BY <1>6, Zenon DEF Adopt, ClaimSample, ClaimLoad, gateVars
  <2>2. ASSUME NEW step, NEW g, NEW e, NEW t, NEW w,
               claim' = [claim EXCEPT ![l] =
                   [step |-> step, gate |-> g, epoch |-> e, now |-> t, word |-> w,
                    result |-> "None"]]
        PROVE  Entries' = Entries
    <3> DEFINE c == [step |-> step, gate |-> g, epoch |-> e, now |-> t, word |-> w,
                     result |-> "None"]
    <3>1. claim' = [claim EXCEPT ![l] = c] /\ c.result # "Entered"
      BY <2>2, Zenon
    <3> HIDE DEF c
    <3> QED
      BY <1>4, <3>1, Zenon
  <2>3. ASSUME NEW g \in Gates, Adopt(l, g) PROVE Entries' = Entries
    BY <2>2, <2>3, Zenon DEF Adopt
  <2>4. ASSUME ClaimSample(l) PROVE Entries' = Entries
    BY <2>2, <2>4, Zenon DEF ClaimSample
  <2>5. ASSUME ClaimLoad(l) PROVE Entries' = Entries
    BY <2>2, <2>5, Zenon DEF ClaimLoad
  <2> QED
    BY <1>1, <1>6, <2>1, <2>3, <2>4, <2>5, Zenon
<1>7. CASE ClaimCheck(l)
  <2>1. EntryRefusal(claim[l]) # "Entered" /\ "Expired" # "Entered" /\ "None" # "Entered"
    BY ONLY TRUE DEF EntryRefusal
  <2>2. claim[l].gate \in Gates
    BY <1>7, ClaimFacts, Zenon DEF ClaimCheck
  <2> DEFINE c == [step |-> "Cas", gate |-> claim[l].gate, epoch |-> claim[l].epoch,
                   now |-> claim[l].now, word |-> claim[l].word, result |-> "None"]
  <2>3. c.result # "Entered"
    BY Zenon
  <2>5. \/ Finish(l, EntryRefusal(claim[l])) \/ Finish(l, "Expired")
        \/ claim' = [claim EXCEPT ![l] = c]
    BY <1>7, Zenon DEF ClaimCheck
  <2> HIDE DEF c
  <2>6. Entries' = Entries
    BY <1>4, <1>5, <2>1, <2>3, <2>5, Zenon
  <2>4. word' = word \/ word' = Closed(claim[l].gate)
    BY <1>7, Zenon DEF ClaimCheck
  <2> QED
    BY <1>1, <2>2, <2>4, <2>6, Zenon
<1>8. CASE ClaimCas(l)
  <2>1. CASE ClaimLast(l)
    BY <1>1, <2>1, Zenon
  <2>2. CASE /\ word' = word
             /\ Finish(l, IF "Stopped" \in word[claim[l].gate] THEN "Stopped"
                          ELSE "AlreadyEntered")
    <3>1. (IF "Stopped" \in word[claim[l].gate] THEN "Stopped"
           ELSE "AlreadyEntered") # "Entered"
      BY ONLY TRUE
    <3> QED
      BY <1>1, <1>5, <2>2, <3>1, Zenon
  <2> QED
    BY <1>8, <2>1, <2>2, Zenon DEF ClaimCas, ClaimLast
<1> QED
  BY <1>6, <1>7, <1>8, Zenon DEF LauncherStep

LEMMA CallEffect ==
    ASSUME IInv, NEW g \in Gates, Call(g)
    PROVE  /\ UNCHANGED <<now, epoch, grant, claim>>
           /\ \/ word' = word
              \/ word' = Closed(g) /\ authority'.failed = authority.failed
<1>1. UNCHANGED <<now, epoch, grant, claim>>
  BY Zenon DEF Call, Admit, Prepared, Release, Retire, Refuse, Proceed, gateVars
<1>2. Seen(now).failed = authority.failed
  BY Zenon DEF Seen
<1>3. \/ word' = word
      \/ word' = Closed(g) /\ authority' = Seen(now)
  BY Zenon DEF Call, Admit, Prepared, Release, Retire, Refuse, Proceed, gateVars
<1> QED
  BY <1>1, <1>2, <1>3, Zenon

LEMMA OperationEffect ==
    ASSUME IInv, NEW g \in Gates, AuthorityStep(g)
    PROVE  /\ UNCHANGED <<now, authority, claim>>
           /\ \/ PublishLast(g)
              \/ word' = Closed(g) /\ UNCHANGED <<epoch, grant>>
              \/ \A h \in Gates : word'[h] \cap Visible = word[h] \cap Visible
<1>1. UNCHANGED <<now, authority, claim>>
  BY Zenon DEF AuthorityStep, RevokeStop, RevokeReturn, BindCas, BindWrite, BindDone,
     PreparedCas, PublishCas, PublishWrite, PublishDone
<1>2. \/ PublishLast(g)
      \/ word' = Closed(g) /\ UNCHANGED <<epoch, grant>>
      \/ word' = word
      \/ Cas(g, {}, {"Binding"})
      \/ Cas(g, {"Binding"}, {"Bound"})
      \/ Cas(g, {"Bound"}, {"Bound", "Prepared"})
      \/ Cas(g, {"Bound", "Prepared"}, {"Bound", "Prepared", "Publishing"})
  BY Zenon DEF AuthorityStep, RevokeStop, RevokeReturn, BindCas, BindWrite, BindDone,
     PreparedCas, PublishCas, PublishWrite, PublishDone, PublishLast, gateVars
<1> QED
  BY <1>1, <1>2, UnseenExchange, Zenon

(* A step is unseen, or it closes a gate, makes a window visible or lets a  *)
(* launcher in; and then it does nothing else that is seen.                 *)
LEMMA GateEffect ==
    ASSUME IInv, [Next]_vars
    PROVE  \/ Permits' = Permits /\ Entries' = Entries
           \/ /\ now' = now /\ authority'.failed = authority.failed
              /\ UNCHANGED <<epoch, grant>>
              /\ Seeing
<1> DEFINE Unseen == Permits' = Permits /\ Entries' = Entries
           Seen1 == /\ now' = now /\ authority'.failed = authority.failed
                    /\ UNCHANGED <<epoch, grant>>
                    /\ Seeing
<1>1. ASSUME UNCHANGED <<word, claim>> PROVE Unseen
  BY <1>1, UnseenStep, Zenon
<1>2. ASSUME UNCHANGED claim PROVE Entries' = Entries
  BY <1>2, Zenon DEF Entries
<1>3. ASSUME NEW g \in Gates, Stop(g) PROVE Seen1
  BY <1>2, <1>3, Zenon DEF Stop, authVars, Seeing
<1>4. ASSUME NEW g \in Gates, Call(g) PROVE Unseen \/ Seen1
  BY <1>1, <1>2, <1>4, CallEffect, Zenon DEF Seeing
<1>5. ASSUME NEW g \in Gates, AuthorityStep(g) PROVE Unseen \/ Seen1
  <2>1. /\ UNCHANGED <<now, authority, claim>>
        /\ \/ PublishLast(g)
           \/ word' = Closed(g) /\ UNCHANGED <<epoch, grant>>
           \/ \A h \in Gates : word'[h] \cap Visible = word[h] \cap Visible
    BY <1>5, OperationEffect, Zenon
  <2>2. CASE PublishLast(g)
    BY <2>1, <2>2, Zenon DEF PublishLast, PublishDone, Seeing
  <2>3. CASE word' = Closed(g) /\ UNCHANGED <<epoch, grant>>
    BY <1>2, <2>1, <2>3, Zenon DEF Seeing
  <2>4. CASE \A h \in Gates : word'[h] \cap Visible = word[h] \cap Visible
    BY <2>1, <2>4, UnseenStep, Zenon
  <2> QED
    BY <2>1, <2>2, <2>3, <2>4, Zenon
<1>6. ASSUME NEW l \in Launchers, LauncherStep(l) PROVE Unseen \/ Seen1
  <2>1. /\ UNCHANGED <<now, epoch, grant, authority>>
        /\ \/ ClaimLast(l)
           \/ /\ Entries' = Entries
              /\ \/ word' = word
                 \/ \E g \in Gates : word' = Closed(g)
    BY <1>6, LauncherEffect, Zenon DEF authVars
  <2>2. CASE word' = word /\ Entries' = Entries
    <3>1. Permits' = Permits
      BY <2>1, <2>2, Zenon DEF Permits
    <3> QED
      BY <2>2, <3>1, Zenon
  <2> QED
    BY <2>1, <2>2, Zenon DEF Seeing
<1>7. ASSUME Tick \/ Revoke \/ \E e \in Epochs, d \in Time : Observe(e, d, now)
      PROVE  Unseen
  BY <1>1, <1>7, Zenon DEF Tick, Revoke, Observe, gateVars
<1>8. ASSUME UNCHANGED vars PROVE Unseen
  BY <1>1, <1>8, Zenon DEF vars, gateVars
<1> HIDE DEF Unseen, Seen1
<1>9. Unseen \/ Seen1
  BY <1>3, <1>4, <1>5, <1>6, <1>7, <1>8, Zenon DEF Next
<1> QED
  BY <1>9, Zenon DEF Unseen, Seen1

-----------------------------------------------------------------------------
(* The steps that are seen, as actions of Permission.                       *)

(* A window and a state, read off the word.                                 *)
LEMMA PermitRead ==
    ASSUME NEW g \in Gates
    PROVE  /\ Permits[g].state = PermitState(word[g])
           /\ "Released" \in word[g] =>
                 /\ Permits[g] = [state |-> PermitState(word[g]), epoch |-> epoch[g],
                                  from |-> grant[g].released_at,
                                  until |-> grant[g].deadline]
                 /\ Permits[g].epoch = epoch[g]
                 /\ Permits[g].from = grant[g].released_at
                 /\ Permits[g].until = grant[g].deadline
           /\ "Released" \notin word[g] =>
                 /\ Permits[g] = [state |-> PermitState(word[g]), epoch |-> NoEpoch,
                                  from |-> 0, until |-> 0]
                 /\ Permits[g].epoch = NoEpoch
<1>1. Permits[g] = IF "Released" \in word[g]
                   THEN [state |-> PermitState(word[g]), epoch |-> epoch[g],
                         from |-> grant[g].released_at, until |-> grant[g].deadline]
                   ELSE [state |-> PermitState(word[g]), epoch |-> NoEpoch,
                         from |-> 0, until |-> 0]
  BY Zenon DEF Permits
<1> QED
  BY ONLY <1>1

LEMMA PermitReadNext ==
    ASSUME NEW g \in Gates
    PROVE  /\ "Released" \in word'[g] =>
                 Permits'[g] = [state |-> PermitState(word'[g]), epoch |-> epoch'[g],
                                from |-> grant'[g].released_at,
                                until |-> grant'[g].deadline]
           /\ "Released" \notin word'[g] =>
                 Permits'[g] = [state |-> PermitState(word'[g]), epoch |-> NoEpoch,
                                from |-> 0, until |-> 0]
  BY Zenon DEF Permits

(* The word of one gate changes, and with it at most its state.             *)
LEMMA StateMoves ==
    ASSUME IInv, NEW g \in Gates, NEW w, word' = [word EXCEPT ![g] = w],
           "Released" \in w <=> "Released" \in word[g],
           UNCHANGED <<epoch, grant>>
    PROVE  Permits' = [Permits EXCEPT ![g] = [@ EXCEPT !.state = PermitState(w)]]
<1>1. word'[g] = w /\ \A h \in Gates : h # g => word'[h] = word[h]
  BY Zenon DEF IInv, TypeOK
<1>2. ASSUME NEW h \in Gates, h # g PROVE Permits'[h] = Permits[h]
  BY <1>1, <1>2, PermitKept, Zenon
<1>3. Permits'[g] = [Permits[g] EXCEPT !.state = PermitState(w)]
  <2>2. CASE "Released" \in word[g]
    <3>1. Permits[g] = [state |-> PermitState(word[g]), epoch |-> epoch[g], from |-> grant[g].released_at,
                       until |-> grant[g].deadline]
      BY <2>2, PermitRead, Zenon
    <3>2. Permits'[g] = [state |-> PermitState(word'[g]), epoch |-> epoch[g], from |-> grant[g].released_at,
                        until |-> grant[g].deadline]
      BY <1>1, <2>2, PermitReadNext, Zenon
    <3>3. [Permits[g] EXCEPT !.state = PermitState(w)] =
              [state |-> PermitState(w), epoch |-> epoch[g], from |-> grant[g].released_at,
               until |-> grant[g].deadline]
      BY ONLY <3>1
    <3> QED
      BY <1>1, <3>2, <3>3, Zenon
  <2>3. CASE "Released" \notin word[g]
    <3>1. Permits[g] = [state |-> PermitState(word[g]), epoch |-> NoEpoch, from |-> 0,
                       until |-> 0]
      BY <2>3, PermitRead, Zenon
    <3>2. Permits'[g] = [state |-> PermitState(word'[g]), epoch |-> NoEpoch, from |-> 0,
                        until |-> 0]
      BY <1>1, <2>3, PermitReadNext, Zenon
    <3>3. [Permits[g] EXCEPT !.state = PermitState(w)] =
              [state |-> PermitState(w), epoch |-> NoEpoch, from |-> 0,
               until |-> 0]
      BY ONLY <3>1
    <3> QED
      BY <1>1, <3>2, <3>3, Zenon
  <2> QED
    BY <2>2, <2>3, Zenon
<1>4. /\ Permits = [h \in Gates |-> Permits[h]]
      /\ Permits' = [h \in Gates |-> Permits'[h]]
  BY Zenon DEF Permits
<1> QED
  BY ONLY <1>2, <1>3, <1>4

LEMMA CloseStep ==
    ASSUME IInv, NEW g \in Gates, word' = Closed(g),
           UNCHANGED <<now, lostAt, epoch, grant, Entries>>,
           authority'.failed = authority.failed
    PROVE  [Promise!Next]_(Promise!vars)
<1>1. CASE "Stopped" \in word[g]
  <2>1. word[g] \cup {"Stopped"} = word[g]
    BY <1>1, Zenon
  <2>2. word' = word
    BY <2>1, Zenon DEF Closed, IInv, TypeOK
  <2>3. Permits' = Permits
    BY <2>2, Zenon DEF Permits
  <2> QED
    BY <2>3, Zenon DEF Promise!vars
<1>2. CASE "Stopped" \notin word[g]
  <2> DEFINE w == word[g] \cup {"Stopped"}
  <2>1. /\ word' = [word EXCEPT ![g] = w]
        /\ "Released" \in w <=> "Released" \in word[g]
        /\ PermitState(w) = "Closed"
    BY ONLY word' = Closed(g) DEF Closed, PermitState
  <2>2. PermitState(word[g]) # "Closed"
    BY ONLY <1>2 DEF PermitState
  <2> HIDE DEF w
  <2>3. Permits' = [Permits EXCEPT ![g] = [@ EXCEPT !.state = "Closed"]]
    BY <2>1, StateMoves, Zenon
  <2>4. Permits[g].state # "Closed"
    BY <2>2, PermitRead, Zenon
  <2>5. Promise!Close(g)
    BY <2>3, <2>4, Zenon DEF Promise!Close
  <2> QED
    BY <2>5, Zenon DEF Promise!Next
<1> QED
  BY <1>1, <1>2, Zenon

(* Publish's last exchange: the window it makes visible.                    *)
LEMMA OpenStep ==
    ASSUME IInv, IInv', CapInv', NEW g \in Gates, PublishLast(g),
           lostAt' = lostAt, lostAt \in [Epochs -> 0 .. MaxTime \cup {Never}]
    PROVE  Promise!Next
<1> DEFINE released == {"Bound", "Prepared", "Released"}
           from == grant[g].released_at
           until == grant[g].deadline
           e == authority.epoch
<1>1. /\ op.step = "PublishDone" /\ op.gate = g
      /\ word[g] = {"Bound", "Prepared", "Publishing"}
      /\ word' = [word EXCEPT ![g] = released]
      /\ UNCHANGED <<now, epoch, grant, authority, claim>>
  BY Zenon DEF PublishLast, PublishDone, Cas
<1>2. word'[g] = released /\ \A h \in Gates : h # g => word'[h] = word[h]
  BY <1>1, Zenon DEF IInv, TypeOK
<1>3. /\ "Released" \notin word[g] /\ PermitState(word[g]) = "None"
      /\ "Released" \in released /\ PermitState(released) = "Open"
      /\ "Bound" \in word[g] /\ "PublishDone" \in PublishSteps
  BY ONLY <1>1 DEF PermitState, PublishSteps
<1>4. ~authority.failed /\ epoch[g] = e /\ e # NoEpoch
  BY <1>1, <1>3, Zenon DEF IInv, OpInv, AuthorityInv
<1>5. Permits' = [Permits EXCEPT ![g] =
          [state |-> "Open", epoch |-> e, from |-> from, until |-> until]]
  <2>1. ASSUME NEW h \in Gates, h # g PROVE Permits'[h] = Permits[h]
    BY <1>1, <1>2, <2>1, PermitKept, Zenon
  <2>2. Permits'[g] = [state |-> "Open", epoch |-> e, from |-> from, until |-> until]
    <3>1. Permits'[g] = [state |-> PermitState(word'[g]), epoch |-> epoch'[g],
                         from |-> grant'[g].released_at, until |-> grant'[g].deadline]
      BY <1>2, <1>3, PermitReadNext, Zenon
    <3> QED
      BY ONLY <1>1, <1>2, <1>3, <1>4, <3>1, Zenon
  <2>3. /\ Permits = [h \in Gates |-> Permits[h]]
        /\ Permits' = [h \in Gates |-> Permits'[h]]
    BY Zenon DEF Permits
  <2> QED
    BY ONLY <2>1, <2>2, <2>3
<1>6. e \in Epochs /\ from \in Nat /\ until \in Nat /\ now \in Nat /\ lostAt[e] \in Nat
  <2>1. e \in Epochs /\ grant[g] \in Grants /\ now \in 0 .. MaxTime
    BY <1>4 DEF IInv, TypeOK, Authorities
  <2> QED
    BY <2>1, BoundsAssumption DEF Grants, Time, Never
<1>7. from <= now
  BY <1>1, <1>3, Zenon DEF IInv, OpInv, WindowInv, AuthorityInv
<1>8. from < until /\ until - from <= Lease
  BY <1>1, <1>3, Zenon DEF IInv, OpInv, WindowInv
<1>9. until <= lostAt[e] + Lease
  BY <1>1, <1>2, <1>3, <1>4, Zenon DEF CapInv, Capped
<1>10. ASSUME NEW h \in Gates PROVE Permits[h].epoch \in {NoEpoch, e}
  <2>1. CASE "Released" \in word[h]
    <3>1. "Bound" \in word[h]
      BY <2>1, ReleasedBound, Zenon DEF IInv, TypeOK
    <3> QED
      BY <2>1, <3>1, PermitRead, Zenon DEF IInv, AuthorityInv
  <2>2. CASE "Released" \notin word[h]
    BY <2>2, PermitRead, Zenon
  <2> QED
    BY <2>1, <2>2, Zenon
<1>11. Permits[g].state = "None"
  BY <1>3, PermitRead, Zenon
<1>12. Entries' = Entries
  BY <1>1, Zenon DEF Entries
<1>13. from \in 0 .. now /\ until \in from + 1 .. from + Lease
  BY <1>6, <1>7, <1>8, BoundsAssumption
<1> HIDE DEF from, until, e
<1>14. Promise!Open(g, e, from, until)
  BY <1>1, <1>4, <1>5, <1>7, <1>8, <1>9, <1>10, <1>11, <1>12, Zenon DEF Promise!Open
<1> QED
  BY <1>6, <1>13, <1>14, Zenon DEF Promise!Next

(* The claim's exchange: the word it loaded is still there, and its look at *)
(* the clock is inside the window.                                          *)
LEMMA EnterStep ==
    ASSUME IInv, NEW l \in Launchers, ClaimLast(l), claim[l].now <= now,
           UNCHANGED <<now, lostAt, epoch, grant>>,
           authority'.failed = authority.failed
    PROVE  Promise!Next
<1> DEFINE g == claim[l].gate
           t == claim[l].now
           released == {"Bound", "Prepared", "Released"}
<1>1. /\ g \in Gates /\ InGrant(g, t) /\ claim[l].word = released
      /\ claim[l].result # "Entered"
  BY Zenon DEF ClaimLast, IInv, ClaimInv
<1>2. word[g] = released /\ word' = [word EXCEPT ![g] = released \cup {"Entered"}]
  BY <1>1, Zenon DEF ClaimLast, Cas
<1>3. /\ "Released" \in word[g] /\ PermitState(word[g]) = "Open"
      /\ "Released" \in released \cup {"Entered"}
      /\ PermitState(released \cup {"Entered"}) = "Used"
  BY ONLY <1>2 DEF PermitState
<1>4. Permits' = [Permits EXCEPT ![g] = [@ EXCEPT !.state = "Used"]]
  BY <1>1, <1>2, <1>3, StateMoves, Zenon
<1>5. /\ Permits[g].state = "Open" /\ Permits[g].from <= t /\ t < Permits[g].until
  BY <1>1, <1>3, PermitRead, Zenon DEF InGrant
<1>6. Entries[l] = [gate |-> NoGate, at |-> 0]
  BY <1>1, Zenon DEF Entries
<1>7. Entries' = [Entries EXCEPT ![l] = [gate |-> g, at |-> t]]
  <2>1. /\ claim'[l].gate = g /\ claim'[l].now = t /\ claim'[l].result = "Entered"
        /\ \A m \in Launchers : m # l => claim'[m] = claim[m]
    BY DEF ClaimLast, Finish, IInv, TypeOK
  <2>2. /\ Entries'[l] = [gate |-> g, at |-> t]
        /\ \A m \in Launchers : m # l => Entries'[m] = Entries[m]
    BY <2>1, Zenon DEF Entries
  <2>3. /\ Entries = [m \in Launchers |-> Entries[m]]
        /\ Entries' = [m \in Launchers |-> Entries'[m]]
    BY Zenon DEF Entries
  <2> QED
    BY ONLY <2>2, <2>3
<1>8. t \in 0 .. now
  <2>1. t \in 0 .. MaxTime /\ now \in 0 .. MaxTime
    BY ClaimFacts, Zenon DEF IInv, TypeOK
  <2> QED
    BY <2>1, BoundsAssumption
<1> HIDE DEF g, t
<1>9. Promise!Enter(l, g, t)
  BY <1>4, <1>5, <1>6, <1>7, Zenon DEF Promise!Enter, Promise!NoEntry
<1> QED
  BY <1>1, <1>8, <1>9, Zenon DEF Promise!Next

-----------------------------------------------------------------------------
(* A launcher's look at the clock is never ahead of it.                     *)
SampleInv == \A l \in Launchers : claim[l].now <= now

LEMMA SampleStep ==
    ASSUME IInv, SampleInv, [Next]_vars PROVE SampleInv'
<1>0. now \in Nat /\ 0 <= now /\ now <= now
  BY BoundsAssumption DEF IInv, TypeOK
<1>1. ASSUME UNCHANGED claim PROVE SampleInv'
  <2>1. now' = now \/ now' = now + 1
    BY ClockStep, Zenon DEF Tick
  <2>2. \A l \in Launchers : claim[l].now \in Nat
    BY ClaimFacts, BoundsAssumption
  <2> QED
    BY <1>0, <1>1, <2>1, <2>2 DEF SampleInv
<1>2. ASSUME NEW l \in Launchers, LauncherStep(l) PROVE SampleInv'
  <2>1. now' = now
    BY <1>2, LauncherEffect, Zenon
  <2>2. ASSUME NEW step, NEW g, NEW e, NEW t, NEW w, NEW result, t <= now,
               claim' = [claim EXCEPT ![l] =
                   [step |-> step, gate |-> g, epoch |-> e, now |-> t, word |-> w,
                    result |-> result]]
        PROVE  SampleInv'
    <3>1. claim'[l].now = t /\ \A m \in Launchers : m # l => claim'[m] = claim[m]
      BY <2>2, Zenon DEF IInv, TypeOK
    <3> QED
      BY <2>1, <2>2, <3>1, Zenon DEF SampleInv
  <2>3. claim[l].now <= now
    BY Zenon DEF SampleInv
  <2>4. ASSUME NEW result, Finish(l, result) PROVE SampleInv'
    BY <2>2, <2>3, <2>4, Zenon DEF Finish
  <2>5. ASSUME NEW g \in Gates, Adopt(l, g) PROVE SampleInv'
    BY <1>0, <2>2, <2>5, Zenon DEF Adopt
  <2>6. CASE ClaimSample(l)
    BY <1>0, <2>2, <2>6, Zenon DEF ClaimSample
  <2>7. CASE ClaimLoad(l)
    BY <2>2, <2>3, <2>7, Zenon DEF ClaimLoad
  <2>8. CASE ClaimCheck(l)
    <3>1. CASE \E result : Finish(l, result)
      BY <2>4, <3>1, Zenon
    <3>2. CASE claim' = [claim EXCEPT ![l] =
              [step |-> "Cas", gate |-> claim[l].gate, epoch |-> claim[l].epoch,
               now |-> claim[l].now, word |-> claim[l].word, result |-> "None"]]
      BY <2>2, <2>3, <3>2, Zenon
    <3> QED
      BY <2>8, <3>1, <3>2, Zenon DEF ClaimCheck
  <2>9. CASE ClaimCas(l)
    BY <2>4, <2>9, Zenon DEF ClaimCas
  <2> QED
    BY <1>2, <2>5, <2>6, <2>7, <2>8, <2>9, Zenon DEF LauncherStep
<1>3. ASSUME NEW g \in Gates, Stop(g) \/ Call(g) \/ AuthorityStep(g) PROVE UNCHANGED claim
  BY <1>3, CallEffect, OperationEffect, Zenon DEF Stop
<1> QED
  BY <1>1, <1>2, <1>3, Zenon DEF Next, Tick, Revoke, Observe, vars

(* Revocation is never taken back.                                          *)
LEMMA FailedStays ==
    ASSUME IInv, [Next]_vars, authority.failed PROVE authority'.failed
<1>1. Seen(now).failed = authority.failed /\ \A t : Revoked(t).failed
  BY Zenon DEF Seen, Revoked
<1>2. CASE UNCHANGED authority
  BY <1>2, Zenon
<1>3. CASE authority' = Seen(now) \/ \E t : authority' = Revoked(t)
  BY <1>1, <1>3, Zenon
<1>4. ASSUME NEW g \in Gates, Call(g) PROVE authority'.failed
  BY <1>2, <1>3, <1>4, Zenon DEF Call, Admit, Prepared, Release, Retire, Refuse, Proceed,
     RevokeLocked
<1>5. ASSUME NEW e \in Epochs, NEW d \in Time, Observe(e, d, now) PROVE authority'.failed
  BY <1>2, <1>3, <1>5, Zenon DEF Observe, RevokeLocked
<1>6. CASE Revoke
  BY <1>3, <1>6, Zenon DEF Revoke, RevokeLocked
<1>7. ASSUME NEW g \in Gates, Stop(g) \/ AuthorityStep(g) PROVE UNCHANGED authority
  BY <1>7, OperationEffect, Zenon DEF Stop, authVars
<1>8. ASSUME NEW l \in Launchers, LauncherStep(l) PROVE UNCHANGED authority
  BY <1>8, LauncherEffect, Zenon DEF authVars
<1> QED
  BY <1>2, <1>4, <1>5, <1>6, <1>7, <1>8, Zenon DEF Next, Tick, vars, authVars

(* Every step of the adapter, the platform, the clock, a gate or a launcher *)
(* is one of Permission's or is unseen.                                     *)
LEMMA PromiseStep ==
    ASSUME Inv, Inv', SampleInv, [PlatformNext]_allVars
    PROVE  [Promise!Next]_(Promise!vars)
<1>1. [Next]_vars /\ IInv /\ IInv'
  BY RefinesStep, Zenon DEF Inv
<1>2. CASE Withdraw
  <2>1. /\ platform \in Epochs /\ lostAt[platform] = Never
        /\ lostAt' = [lostAt EXCEPT ![platform] = now]
    BY <1>2, Zenon DEF Withdraw, Inv, PlatformTypeOK, QueryInv
  <2>2. UNCHANGED <<now, authority, Permits, Entries>>
    BY <1>2, Zenon DEF Withdraw, vars, gateVars, authVars, Permits, Entries
  <2>3. Promise!Lose(platform)
    BY <2>1, <2>2, Zenon DEF Promise!Lose
  <2> QED
    BY <2>1, <2>3, Zenon DEF Promise!Next
<1>3. ASSUME lostAt' = lostAt PROVE [Promise!Next]_(Promise!vars)
  <2>1. CASE Permits' = Permits /\ Entries' = Entries
    <3>1. CASE Tick
      <4>1. Promise!Tick
        BY <1>3, <2>1, <3>1, Zenon DEF Tick, authVars, Promise!Tick
      <4> QED
        BY <4>1, Zenon DEF Promise!Next
    <3>2. CASE now' = now /\ authority'.failed = authority.failed
      BY <1>3, <2>1, <3>2, Zenon DEF Promise!vars
    <3>3. CASE now' = now /\ authority'.failed # authority.failed
      <4>1. authority'.failed = TRUE
        <5>1. authority.failed \in BOOLEAN /\ authority'.failed \in BOOLEAN
          BY <1>1, Zenon DEF IInv, TypeOK, Authorities
        <5> QED
          BY <1>1, <3>3, <5>1, FailedStays, Zenon
      <4>2. Promise!Revoke
        BY <1>3, <2>1, <3>3, <4>1, Zenon DEF Promise!Revoke
      <4> QED
        BY <4>2, Zenon DEF Promise!Next
    <3> QED
      BY <1>1, <3>1, <3>2, <3>3, ClockStep, Zenon
  <2>2. CASE /\ now' = now /\ authority'.failed = authority.failed
             /\ UNCHANGED <<epoch, grant>>
             /\ Seeing
    <3>1. ASSUME NEW g \in Gates, word' = Closed(g), Entries' = Entries
          PROVE  [Promise!Next]_(Promise!vars)
      BY <1>1, <1>3, <2>2, <3>1, CloseStep, Zenon
    <3>2. ASSUME NEW g \in Gates, PublishLast(g) PROVE Promise!Next
      BY <1>1, <1>3, <3>2, OpenStep, Zenon DEF Inv, PlatformTypeOK
    <3>3. ASSUME NEW l \in Launchers, ClaimLast(l) PROVE Promise!Next
      BY <1>1, <1>3, <2>2, <3>3, EnterStep, Zenon DEF SampleInv
    <3> QED
      BY <2>2, <3>1, <3>2, <3>3, Zenon DEF Seeing
  <2> QED
    BY <1>1, <2>1, <2>2, GateEffect, Zenon
<1> QED
  BY <1>2, <1>3, Zenon DEF PlatformNext, Grant, BeginQuery, Snapshot, Receive, FailCall,
     Poll, admit_work, prepare_work, release_work, ReadyCall, Elsewhere, platformVars,
     allVars

(* The lease the observer renews, the authority's mutex and the launchers'  *)
(* instructions add up to Permission: a gate's window opens once, before    *)
(* any revocation and within a lease of its epoch's loss, one launcher uses *)
(* it inside it, and closing is final.                                      *)
THEOREM Refinement == PlatformSpec => ImplementsPermission
<1>1. ASSUME PlatformInit PROVE Promise!Init /\ SampleInv
  <2>1. /\ now = 0 /\ authority.failed = FALSE /\ lostAt = [e \in Epochs |-> Never]
        /\ \A g \in Gates : word[g] = {}
        /\ \A l \in Launchers : claim[l] = NoClaim
    BY <1>1, Zenon DEF PlatformInit, Init
  <2>2. PermitState({}) = "None" /\ "Released" \notin {}
    BY ONLY TRUE DEF PermitState
  <2>3. Permits = [g \in Gates |-> Promise!NoPermit]
    BY <2>1, <2>2, Zenon DEF Permits, Promise!NoPermit
  <2>4. NoClaim.result # "Entered" /\ NoClaim.now = 0
    BY Zenon DEF NoClaim
  <2>5. Entries = [l \in Launchers |-> Promise!NoEntry]
    BY <2>1, <2>4, Zenon DEF Entries, Promise!NoEntry
  <2>6. SampleInv
    BY <2>1, <2>4 DEF SampleInv
  <2> QED
    BY <2>1, <2>3, <2>5, <2>6, Zenon DEF Promise!Init
<1>2. Inv /\ Inv' /\ SampleInv /\ [PlatformNext]_allVars =>
          SampleInv' /\ [Promise!Next]_(Promise!vars)
  BY PromiseStep, SampleStep, RefinesStep, Zenon DEF Inv
<1> QED
  BY <1>1, <1>2, PlatformInvariance, PTL
     DEF PlatformSpec, ImplementsPermission, Promise!Spec
====
