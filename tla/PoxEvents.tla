------------------------------ MODULE PoxEvents ------------------------------
(***************************************************************************)
(* What decodePoxSyntheticPrintEvent makes of the event a PoX contract     *)
(* prints.  src/event-stream/pox-event-parsing.ts.                         *)
(***************************************************************************)
EXTENDS Sql

LocksNames == {"stack-stx", "delegate-stack-stx"}
IncreaseNames == {"stack-increase", "delegate-stack-increase"}
ExtendNames == {"stack-extend", "delegate-stack-extend"}
LockNames == LocksNames \cup IncreaseNames \cup ExtendNames

\* The node prints locked and unlock as they were before the call: they are
\* patched with what the call's own data says.  until is unlock-burn-height.
DecodePoxEvent(p) ==
  [p EXCEPT
    !.amount = IF p.name \in LocksNames THEN p.lock
               ELSE IF p.name \in IncreaseNames THEN @ + p.lock ELSE @,
    !.unlock = IF p.name \in LocksNames \cup ExtendNames
                  \/ (p.name = "delegate-stx" /\ p.until # None)
                 THEN p.until ELSE @]
=============================================================================
