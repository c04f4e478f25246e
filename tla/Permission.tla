----------------------------- MODULE Permission -----------------------------
(***************************************************************************)
(* What the owner's work gates promise, with nothing of how: a gate gives  *)
(* one launcher permission to enter, inside one window of time, under the  *)
(* one epoch of the process, and closing it is final.                      *)
(***************************************************************************)
EXTENDS Integers

CONSTANTS
    Gates, Launchers, Epochs, NoEpoch, NoGate,
    Lease,        \* how long permission may outlast the loss of its epoch
    Never         \* later than every loss

VARIABLES
    clock,
    lost,         \* when the platform stopped vouching for each epoch
    revoked,      \* no window opens any more
    permit,       \* each gate's state and the window that it opened
    entry         \* the gate each launcher entered, and when it looked

vars == <<clock, lost, revoked, permit, entry>>

NoPermit == [state |-> "None", epoch |-> NoEpoch, from |-> 0, until |-> 0]
NoEntry == [gate |-> NoGate, at |-> 0]

Init ==
    /\ clock = 0
    /\ lost = [e \in Epochs |-> Never]
    /\ revoked = FALSE
    /\ permit = [g \in Gates |-> NoPermit]
    /\ entry = [l \in Launchers |-> NoEntry]

Tick ==
    /\ clock' = clock + 1
    /\ UNCHANGED <<lost, revoked, permit, entry>>

Lose(e) ==
    /\ lost[e] = Never
    /\ lost' = [lost EXCEPT ![e] = clock]
    /\ UNCHANGED <<clock, revoked, permit, entry>>

Revoke ==
    /\ revoked' = TRUE
    /\ UNCHANGED <<clock, lost, permit, entry>>

(* A window opens in the present, lasts a lease at most, and ends within a  *)
(* lease of the loss of its epoch; every window is under the same epoch.    *)
Open(g, e, from, until) ==
    /\ ~revoked
    /\ permit[g].state = "None"
    /\ from <= clock /\ from < until /\ until - from <= Lease
    /\ until <= lost[e] + Lease
    /\ \A h \in Gates : permit[h].epoch \in {NoEpoch, e}
    /\ permit' = [permit EXCEPT ![g] =
          [state |-> "Open", epoch |-> e, from |-> from, until |-> until]]
    /\ UNCHANGED <<clock, lost, revoked, entry>>

(* One launcher uses the permit, on a look at the clock inside the window.  *)
Enter(l, g, t) ==
    /\ entry[l] = NoEntry
    /\ permit[g].state = "Open"
    /\ permit[g].from <= t /\ t < permit[g].until
    /\ permit' = [permit EXCEPT ![g] = [@ EXCEPT !.state = "Used"]]
    /\ entry' = [entry EXCEPT ![l] = [gate |-> g, at |-> t]]
    /\ UNCHANGED <<clock, lost, revoked>>

(* At any time, and nothing happens to the gate after it.                   *)
Close(g) ==
    /\ permit[g].state # "Closed"
    /\ permit' = [permit EXCEPT ![g] = [@ EXCEPT !.state = "Closed"]]
    /\ UNCHANGED <<clock, lost, revoked, entry>>

Next ==
    \/ Tick
    \/ \E e \in Epochs : Lose(e)
    \/ Revoke
    \/ \E g \in Gates, e \in Epochs, from \in 0 .. clock :
          \E until \in from + 1 .. from + Lease : Open(g, e, from, until)
    \/ \E l \in Launchers, g \in Gates, t \in 0 .. clock : Enter(l, g, t)
    \/ \E g \in Gates : Close(g)

Spec == Init /\ [][Next]_vars
=============================================================================
