---------------------------- MODULE ProjectStore ----------------------------
(***************************************************************************)
(* What the saves of superi-project promise of a project name, with no     *)
(* candidates, locks, generations or stages: a name has a complete project *)
(* or none.  A request changes it in one step and at most once, and that   *)
(* of the project a client works on only if it still is what the client    *)
(* last saw there.  A power loss sets a name back to something it was      *)
(* since the last synchronisation, and success is told with one.           *)
(***************************************************************************)
CONSTANTS Name, Project, Client,
          None,     \* no project
          Unnamed   \* the name of a project that has none

VARIABLES
  value,     \* value[n]: the project that n has, or None
  maybe,     \* maybe[n]: what n may have after a power loss
  replaced,  \* projects that lost their name
  base,      \* base[c]: the name c works on, what c last saw there, may c write
  request,   \* request[c]: asked, stored, or how c's last request ended
  stored     \* stored[c]: what that request stored, and under which name

vars == << value, maybe, replaced, base, request, stored >>

Nothing == [name |-> Unnamed, project |-> None]
NoBase  == [name |-> Unnamed, project |-> None, writes |-> TRUE]

Init ==
  /\ value \in [Name -> Project \cup {None}]
  /\ maybe = [n \in Name |-> {value[n]}]
  /\ replaced = {}
  /\ base = [c \in Client |-> NoBase]
  /\ request = [c \in Client |-> "none"]
  /\ stored = [c \in Client |-> Nothing]

Busy(c) == request[c] \in {"asked", "stored"}

Becomes(c, r, s) ==
  /\ request' = [request EXCEPT ![c] = r]
  /\ stored' = [stored EXCEPT ![c] = s]

Put(n, v) ==
  /\ value' = [value EXCEPT ![n] = v]
  /\ maybe' = [maybe EXCEPT ![n] = @ \cup {v}]
  /\ replaced' = replaced \cup ({value[n]} \ {None})

Synchronise == maybe' = [n \in Name |-> {value[n]}]

-----------------------------------------------------------------------------
(* A client. *)

Open(c, n, writes) ==
  /\ ~Busy(c)
  /\ value[n] # None
  /\ base' = [base EXCEPT ![c] = [name |-> n, project |-> value[n], writes |-> writes]]
  /\ Becomes(c, "none", Nothing)
  /\ UNCHANGED << value, maybe, replaced >>

Ask(c) ==
  /\ ~Busy(c)
  /\ Becomes(c, "asked", Nothing)
  /\ UNCHANGED << value, maybe, replaced, base >>

\* A project nobody has stored is stored: over the name the client works on only if
\* the client may write and has seen what it replaces, and then, or if it asked for
\* it, the client works on what it stored.
Store(c, n, v) ==
  /\ request[c] = "asked"
  /\ v \notin replaced /\ \A m \in Name : v # value[m] /\ v \notin maybe[m]
  /\ base[c].name = n => base[c].writes /\ base[c].project = value[n]
  /\ Put(n, v)
  /\ \/ base' = [base EXCEPT ![c] = [name |-> n, project |-> v, writes |-> TRUE]]
     \/ base[c].name # n /\ UNCHANGED base
  /\ Becomes(c, "stored", [name |-> n, project |-> v])

\* Success is told together with a synchronisation ...
Confirm(c) ==
  /\ request[c] = "stored"
  /\ Synchronise
  /\ request' = [request EXCEPT ![c] = "ok"]
  /\ UNCHANGED << value, replaced, base, stored >>

\* ... and a failure says whether something was stored.
Fail(c) ==
  /\ \/ request[c] = "asked" /\ request' = [request EXCEPT ![c] = "not_published"]
     \/ request[c] = "stored" /\ request' = [request EXCEPT ![c] = "published"]
  /\ UNCHANGED << value, maybe, replaced, base, stored >>

-----------------------------------------------------------------------------
(* What happens to clients and names. *)

Sync == Synchronise /\ UNCHANGED << value, replaced, base, request, stored >>

Remove(n) ==
  /\ value[n] # None
  /\ Put(n, None)
  /\ UNCHANGED << base, request, stored >>

Kill(c) ==
  /\ Busy(c)
  /\ base' = [base EXCEPT ![c] = NoBase]
  /\ Becomes(c, "none", Nothing)
  /\ UNCHANGED << value, maybe, replaced >>

PowerLoss ==
  /\ value' \in [Name -> Project \cup {None}] /\ \A n \in Name : value'[n] \in maybe[n]
  /\ maybe' = [n \in Name |-> {value'[n]}]
  /\ base' = [c \in Client |-> NoBase]
  /\ request' = [c \in Client |-> "none"]
  /\ stored' = [c \in Client |-> Nothing]
  /\ UNCHANGED replaced

Next ==
  \/ \E c \in Client :
       \/ Ask(c) \/ Confirm(c) \/ Fail(c) \/ Kill(c)
       \/ \E n \in Name, writes \in BOOLEAN : Open(c, n, writes)
       \/ \E n \in Name, v \in Project : Store(c, n, v)
  \/ Sync \/ PowerLoss
  \/ \E n \in Name : Remove(n)

Spec == Init /\ [][Next]_vars
=============================================================================
