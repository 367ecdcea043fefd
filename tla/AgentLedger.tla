----------------------------- MODULE AgentLedger -----------------------------
(***************************************************************************)
(* What the file of the registry promises to requests that come one after  *)
(* the other, in several processes.  Each process reads the records once,  *)
(* and then goes by its own view of them: a save makes one lawful change   *)
(* of one agent in the view of its process, and puts the whole view on     *)
(* record.  What another process has saved since is gone then; nothing     *)
(* else ever changes a record.  Whoever ends a process gets the records of *)
(* the last save back, unless it cuts a save short: then they are those of *)
(* a first start, until a process that has a view saves again.             *)
(***************************************************************************)
CONSTANTS Agent, Builtin, Proc

VARIABLES
  ledger,  \* the record of each agent
  view,    \* what each process takes the records for
  saving   \* a save is under way

Is(installed, status) == [installed |-> installed, status |-> status]
Unknown == Is(FALSE, "absent")
Known == Is(FALSE, "not_installed")
FirstStart == [a \in Agent |-> IF a \in Builtin THEN Known ELSE Unknown]

\* The records an agent can have after one it is known by.
AfterKnown(r) ==
  {Is(TRUE, "installed"), Known, [r EXCEPT !.status = "stopped"]} \cup
  (IF r.installed THEN {[r EXCEPT !.status = "running"]} ELSE {})

\* Only agents that are not built in come and go.
Lawful(a, r) ==
  IF r = Unknown THEN IF a \in Builtin THEN {} ELSE {Known}
  ELSE IF a \in Builtin THEN AfterKnown(r) ELSE AfterKnown(r) \cup {Unknown}

Read(p) ==
  /\ ~saving
  /\ UNCHANGED <<saving, ledger>>
  /\ view' = [view EXCEPT ![p] = ledger]

Save(p, a) ==
  /\ ~saving /\ saving' = TRUE
  /\ \E r \in Lawful(a, view[p][a]) : view' = [view EXCEPT ![p][a] = r]
  /\ ledger' = view'[p]

\* The first save of a process that found no records.
FirstSave ==
  /\ ~saving /\ saving' = TRUE
  /\ ledger = FirstStart
  /\ UNCHANGED <<ledger, view>>

Saved ==
  /\ saving /\ saving' = FALSE
  /\ UNCHANGED <<ledger, view>>

End(p) ==
  /\ UNCHANGED <<saving, ledger>>
  /\ view' = [view EXCEPT ![p] = FirstStart]

CutShort(p) ==
  /\ saving /\ saving' = FALSE
  /\ ledger' = FirstStart
  /\ view' = [view EXCEPT ![p] = FirstStart]

Init ==
  /\ ledger = FirstStart
  /\ view = [p \in Proc |-> FirstStart]
  /\ saving = FALSE

Next ==
  \/ \E p \in Proc :
       \/ Read(p)
       \/ \E a \in Agent : Save(p, a)
       \/ End(p) \/ CutShort(p)
  \/ FirstSave
  \/ Saved

Spec == Init /\ [][Next]_<<ledger, view, saving>>
=============================================================================
