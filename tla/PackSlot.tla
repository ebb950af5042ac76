------------------------------ MODULE PackSlot ------------------------------
(***************************************************************************)
(* What the desktop promises about one agent pack, without the steps it    *)
(* takes: a switch of the pack reads the active version once and changes   *)
(* the registry and the selector together or not at all; installing and    *)
(* rolling back versions only moves the active pointer; a failed           *)
(* compensation is the one way out, and it lasts until the next start.     *)
(***************************************************************************)
EXTENDS Integers

CONSTANT Versions
VARIABLES
  active,  \* the active version, 0 if there is none
  on,      \* the registry has the pack enabled
  served,  \* the version in the selector, 0 if it is not there
  switch,  \* the switch under way
  intact   \* no compensation has failed since the start

slotVars == <<active, on, served, switch, intact>>

NoSwitch == [on |-> FALSE, ver |-> -1]
Shown(o, v) == [on |-> o, ver |-> IF o THEN v ELSE 0]

Init == active = 0 /\ on = FALSE /\ served = 0 /\ switch = NoSwitch /\ intact = TRUE

Pointed == active' \in Versions \cup {0}

\* The installer moves the pointer.
Point == Pointed /\ UNCHANGED <<on, served, switch, intact>>

Begin ==
  /\ switch = NoSwitch /\ \E o \in BOOLEAN : switch' = Shown(o, active)
  /\ UNCHANGED <<active, on, served, intact>>

Commit ==
  /\ switch # NoSwitch /\ on' = switch.on /\ served' = switch.ver /\ switch' = NoSwitch
  /\ UNCHANGED <<active, intact>>

\* The switch is compensated; a provisioning gives the pointer back with it.
Cancel == switch' = NoSwitch /\ Pointed /\ UNCHANGED <<on, served, intact>>

\* Neither the switch nor its compensation went through.
Fail ==
  /\ switch # NoSwitch /\ switch' = NoSwitch /\ intact' = FALSE
  /\ on' \in {on, switch.on} /\ served' \in {served, switch.ver} /\ Pointed

\* A start serves what the registry and the pointer say, or nothing at all; a
\* pack that was never registered is enabled.
Restart ==
  /\ on' \in {on, switch.on, active # 0}
  /\ served' \in {0, Shown(on', active).ver}
  /\ switch' = NoSwitch /\ intact' = TRUE /\ UNCHANGED active

Next == Point \/ Begin \/ Commit \/ Cancel \/ Fail \/ Restart
Spec == Init /\ [][Next]_slotVars
=============================================================================
