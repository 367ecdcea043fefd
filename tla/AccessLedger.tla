----------------------------- MODULE AccessLedger -----------------------------
(***************************************************************************)
(* What issuing and checking of keys promises to the requests that come    *)
(* with one, wherever keys are kept and however many statements a check    *)
(* takes.  A key is issued once, to one owner; once withdrawn, by whatever *)
(* way, it is never valid again.  A request is served for an owner only if *)
(* a key of that owner was valid at some moment since the request began.   *)
(***************************************************************************)
CONSTANTS Credential, Owner, Nobody, Asker

VARIABLES
  ledger,  \* per key: its state and its owner
  asked    \* per requester: how far its request is, and for whom

Entry == [state: {"unissued", "valid", "withdrawn"}, owner: Owner \cup {Nobody}]
Request == [phase: {"idle", "asking", "assured", "served"}, for: Owner \cup {Nobody}]

In(phase, owner) == [phase |-> phase, for |-> owner]
Idle == In("idle", Nobody)
Asking == In("asking", Nobody)

Becomes(c, request) == asked' = [asked EXCEPT ![c] = request]

Free(c) == asked[c].phase \in {"idle", "served"}

Ask(c) == Free(c) /\ Becomes(c, Asking) /\ UNCHANGED ledger

\* The moment at which the key of a request is valid.
Assure(c, k) ==
  /\ asked[c] = Asking
  /\ ledger[k].state = "valid"
  /\ Becomes(c, In("assured", ledger[k].owner))
  /\ UNCHANGED ledger

Serve(c) ==
  /\ asked[c].phase = "assured"
  /\ Becomes(c, In("served", asked[c].for))
  /\ UNCHANGED ledger

\* All at once, where keys are checked without waiting.
ServeAtOnce(c, k) ==
  /\ Free(c)
  /\ ledger[k].state = "valid"
  /\ Becomes(c, In("served", ledger[k].owner))
  /\ UNCHANGED ledger

\* A key leaves a state for a later one, with the owner it was issued to.
Forward(before, after) ==
  \/ after = before
  \/ before.state = "unissued" /\ after.state \in {"valid", "withdrawn"}
  \/ before.state = "valid" /\ after.state = "withdrawn" /\ after.owner = before.owner

\* Keys are issued and withdrawn; requests end, for whatever reason, or find
\* that their key is no longer enough.
Manage ==
  /\ ledger' \in [Credential -> Entry]
  /\ \A k \in Credential : Forward(ledger[k], ledger'[k])
  /\ asked' \in [Asker -> Request]
  /\ \A c \in Asker : \/ asked'[c] \in {asked[c], Idle}
                      \/ asked[c].phase = "assured" /\ asked'[c] = Asking

Init ==
  /\ ledger \in [Credential -> Entry]
  /\ \A k \in Credential : ledger[k].state # "withdrawn"
  /\ asked = [c \in Asker |-> Idle]

Next ==
  \/ Manage
  \/ \E c \in Asker :
       \/ Ask(c)
       \/ Serve(c)
       \/ \E k \in Credential : Assure(c, k) \/ ServeAtOnce(c, k)

Spec == Init /\ [][Next]_<<ledger, asked>>
=============================================================================
