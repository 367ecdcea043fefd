------------------------------- MODULE LinkedLog -------------------------------
(***************************************************************************)
(* What the audit log promises to callers that read the file before they   *)
(* append, whatever their number and however they interleave: entries are  *)
(* only added, each has a hash of its own, and each links to an earlier    *)
(* entry that is no older than the last one its writer added.  A writer    *)
(* that has added nothing may also start from null.                        *)
(***************************************************************************)
EXTENDS Naturals, Sequences

CONSTANTS Hash, Writer, Null

VARIABLE log

Entry == [hash: Hash, prev: Hash \cup {Null}, by: Writer]

\* Entry i is no older than any entry of writer w.
SeesOwn(w, i) == \A j \in 1 .. Len(log) : log[j].by = w => j <= i

Links(e) ==
  \/ /\ e.prev = Null
     /\ \A j \in 1 .. Len(log) : log[j].by # e.by
  \/ \E i \in 1 .. Len(log) : log[i].hash = e.prev /\ SeesOwn(e.by, i)

Add(e) ==
  /\ \A i \in 1 .. Len(log) : log[i].hash # e.hash
  /\ Links(e)
  /\ log' = Append(log, e)

Init == log = <<>>
Next == \E e \in Entry : Add(e)
Spec == Init /\ [][Next]_log
=============================================================================
