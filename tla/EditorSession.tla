--------------------------- MODULE EditorSession ---------------------------
(***************************************************************************)
(* An edit on its way from the desktop to the project file: the lease that *)
(* a transport thread takes on the active project (project_lifecycle.rs,   *)
(* transport.rs of superi-session), the queue of the engine connection,    *)
(* and the editor session that the engine-control thread keeps of the      *)
(* project (engine.rs), while other processes change the file as well.     *)
(*                                                                         *)
(* A project is the set of edits recorded in it, and its revision is the   *)
(* number of those that author something: an inspection is recorded in the *)
(* command log and leaves the revision alone.  The file is replaced as     *)
(* ProjectSave does it: only if it still is what was opened.               *)
(*                                                                         *)
(* There is one project, which edits are only added to: each is made by    *)
(* one client, once, and the undo of an edit is another.  A playback       *)
(* command takes the way of a query.                                       *)
(***************************************************************************)
EXTENDS Naturals, FiniteSets, Sequences

CONSTANTS
  Edit,          \* edits anybody may make, each at most once
  Inspection,    \* those of them that author nothing
  Capacity,      \* REQUEST_CAPACITY
  None

Project == SUBSET Edit
Request == [edit : Edit \cup {None}, route : Nat]
Session == [durable : Project, memory : Project]
Answer  == [result : {"ok", "refused", "unsure"}, project : Project \cup {None}]

ASSUME EditorAssumption ==
  /\ IsFiniteSet(Edit) /\ Inspection \subseteq Edit
  /\ Capacity \in Nat \ {0}
  /\ None \notin Edit \cup Request \cup Session \cup Answer

Revision(p) == Cardinality(p \ Inspection)

VARIABLES
  file,      \* the project file
  active,    \* the host's record of the project: its revision
  lease,     \* the request whose thread holds the lifecycle mutex
  queue,     \* requests in the engine connection's channel
  engine,    \* "linked" to a dispatcher, "unlinked", or "returned"
  session,   \* editor_session: [durable, memory]
  serving, work,  \* where the engine-control thread is, and with which request
  reply,     \* the response channel of the request that holds the lease
  \* --- history, read by properties only ---
  fate,      \* fate[e]: what whoever made the edit was told
  during     \* what the file has been since the lease was taken

desktop == << active, lease, fate >>
thread  == << engine, session, serving, work >>
editorVars    == << file, desktop, queue, thread, reply, during >>

EditorInit ==
  /\ file = {} /\ active = 0
  /\ lease = None /\ queue = << >> /\ reply = None
  /\ engine = "unlinked" /\ session = None
  /\ serving = "idle" /\ work = None
  /\ fate = [e \in Edit |-> "unmade"]
  /\ during = {}

\* Edits nobody has made yet.
Fresh == {e \in Edit : fate[e] = "unmade" /\ e \notin file}
         \ (IF lease = None THEN {} ELSE {lease.edit})

Write(p) == file' = p /\ during' = IF lease = None THEN during ELSE during \cup {p}

-----------------------------------------------------------------------------
(* The desktop. *)

\* begin_editor_request and the admission to the connection, which does not wait.
Begin(edit) ==
  /\ lease = None
  /\ engine # "returned" /\ Len(queue) < Capacity
  /\ lease' = [edit |-> edit, route |-> active]
  /\ queue' = Append(queue, lease')
  /\ reply' = None
  /\ during' = {file}
  /\ UNCHANGED << file, active, fate, thread >>

\* A query is given up after its timeout; it stays where it is.
TimeOut ==
  /\ lease # None /\ lease.edit = None /\ reply = None
  /\ lease' = None
  /\ UNCHANGED << file, active, fate, queue, thread, reply, during >>

\* The lease ends with the answer; of an executed command with the outcome of
\* DesktopProjectEditorLease::accept, which reads the file again.
Told(how) ==
  /\ lease' = None
  /\ fate' = IF lease.edit = None THEN fate ELSE [fate EXCEPT ![lease.edit] = how]
  /\ UNCHANGED << file, queue, thread, reply, during >>

Answered ==
  /\ lease # None /\ reply # None
  /\ \/ reply.result = "ok" /\ lease.edit = None /\ Told("ok") /\ UNCHANGED active
     \/ /\ reply.result = "ok" /\ lease.edit # None
        /\ Revision(file) = Revision(reply.project)
        /\ Revision(file) \in {active, active + 1}
        /\ active' = Revision(file)
        /\ Told("ok")
     \/ reply.result = "ok" /\ lease.edit # None /\ Told("unsure") /\ UNCHANGED active
     \/ reply.result \in {"refused", "unsure"} /\ Told(reply.result) /\ UNCHANGED active

\* An import by the host itself, which takes the same mutex and whose caller
\* expects the revision that it finds.
LocalEdit(e) ==
  /\ lease = None
  /\ e \in Fresh
  /\ Write(file \cup {e})
  /\ active' = Revision(file')
  /\ fate' = [fate EXCEPT ![e] = "ok"]
  /\ UNCHANGED << lease, queue, thread, reply >>

\* The project is opened again.
Reopen ==
  /\ lease = None
  /\ active' = Revision(file)
  /\ UNCHANGED << file, lease, fate, queue, thread, reply, during >>

\* Another process publishes an edit of the project.
ForeignEdit(e) ==
  /\ e \in Fresh
  /\ Write(file \cup {e})
  /\ fate' = [fate EXCEPT ![e] = "ok"]
  /\ UNCHANGED << active, lease, queue, thread, reply >>

-----------------------------------------------------------------------------
(* The engine-control thread between two requests. *)

LinkDispatcher ==
  /\ serving = "idle" /\ engine = "unlinked"
  /\ engine' = "linked"
  /\ UNCHANGED << file, desktop, queue, session, serving, work, reply, during >>

DropDispatcher ==
  /\ serving = "idle" /\ engine = "linked"
  /\ engine' = "unlinked" /\ session' = None
  /\ UNCHANGED << file, desktop, queue, serving, work, reply, during >>

\* The thread returns and its end of the channel goes with it: whoever waits for
\* an answer finds the response closed.
Return ==
  /\ serving = "idle" /\ engine # "returned"
  /\ engine' = "returned" /\ session' = None
  /\ queue' = << >>
  /\ reply' = IF queue = << >> THEN reply ELSE [result |-> "refused", project |-> None]
  /\ UNCHANGED << file, desktop, serving, work, during >>

-----------------------------------------------------------------------------
(* A request, as execute_request serves it. *)

\* The response is dropped unless the request is the one that holds the lease,
\* which is the newest.
Respond(result, project) ==
  /\ serving' = "idle" /\ work' = None
  /\ reply' = IF lease # None /\ queue = << >>
                THEN [result |-> result, project |-> project] ELSE reply

\* A command that failed takes the session with it if its memory has gone ahead.
Retained_Always(s) == s
Retained(s) == IF s # None /\ s.memory # s.durable THEN None ELSE s

Refuse(result) ==
  /\ session' = IF work.edit = None THEN session ELSE Retained(session)
  /\ Respond(result, None)

\* Without a dispatcher a request is taken all the same, and refused.
Serves_OnlyLinked == engine = "linked"
Serves == engine # "returned"

Take ==
  /\ serving = "idle" /\ Serves /\ queue # << >>
  /\ serving' = "find" /\ work' = Head(queue) /\ queue' = Tail(queue)
  /\ UNCHANGED << file, desktop, engine, session, reply, during >>

\* require_connected and editor_session_for; a session that was loaded for
\* another revision stays when a new one cannot be loaded.
MatchesRoute == session # None /\ Revision(session.durable) = work.route

Find ==
  /\ serving = "find"
  /\ \/ /\ engine = "linked" /\ MatchesRoute
        /\ serving' = "match"
        /\ UNCHANGED << session, work, reply >>
     \/ /\ engine = "linked" /\ ~MatchesRoute
        /\ Revision(file) = work.route
        /\ session' = [durable |-> file, memory |-> file]
        /\ serving' = "match"
        /\ UNCHANGED << work, reply >>
     \/ /\ engine # "linked" \/ ~MatchesRoute
        /\ Refuse("refused")
  /\ UNCHANGED << file, desktop, queue, engine, during >>

DurableMatch == file = session.durable

\* require_durable_match.
RequireDurableMatch ==
  /\ serving = "match"
  /\ \/ /\ DurableMatch
        /\ serving' = "execute"
        /\ UNCHANGED << session, work, reply >>
     \/ Refuse("refused")
  /\ UNCHANGED << file, desktop, queue, engine, during >>

\* The session's dispatcher executes it, or fails and changes nothing.
Execute ==
  /\ serving = "execute"
  /\ \/ Refuse("refused")
     \/ /\ work.edit = None
        /\ UNCHANGED session /\ Respond("ok", session.memory)
     \/ /\ work.edit # None
        /\ session' = [session EXCEPT !.memory = @ \cup {work.edit}]
        /\ serving' = "open"
        /\ UNCHANGED << work, reply >>
  /\ UNCHANGED << file, desktop, queue, engine, during >>

\* Events are drained, the playback owner gets new bounds, the file is opened:
\* each may fail, and the file must be what the command was executed on.
Open ==
  /\ serving = "open"
  /\ \/ DurableMatch /\ serving' = "replace" /\ UNCHANGED << session, work, reply >>
     \/ Refuse("refused")
  /\ UNCHANGED << file, desktop, queue, engine, during >>

StillWhatWasOpened_Unfenced == TRUE
StillWhatWasOpened == file = session.durable

\* ProjectDatabase::replace of what was opened: refused if the file has changed
\* since; it may also fail after it published.
Replace ==
  /\ serving = "replace"
  /\ \/ Refuse("refused") /\ UNCHANGED << file, during >>
     \/ /\ StillWhatWasOpened
        /\ Write(session.memory)
        /\ \/ /\ session' = [session EXCEPT !.durable = session.memory]
              /\ Respond("ok", session.memory)
           \/ Refuse("unsure")
  /\ UNCHANGED << desktop, queue, engine >>

ServeRequest == Take \/ Find \/ RequireDurableMatch \/ Execute \/ Open \/ Replace

EditorNext ==
  \/ \E edit \in Fresh \cup {None} : Begin(edit)
  \/ TimeOut \/ Answered \/ Reopen
  \/ \E e \in Fresh : LocalEdit(e) \/ ForeignEdit(e)
  \/ LinkDispatcher \/ DropDispatcher \/ Return
  \/ ServeRequest

EditorSpec == EditorInit /\ [][EditorNext]_editorVars

\* The engine-control thread serves its queue, and a thread that is answered goes on.
FairEditorSpec == EditorSpec /\ WF_editorVars(ServeRequest) /\ WF_editorVars(Answered)

-----------------------------------------------------------------------------
(* Properties. *)

EditorTypeOK ==
  /\ file \in Project /\ active \in Nat
  /\ lease \in Request \cup {None}
  /\ queue \in Seq(Request) /\ Len(queue) <= Capacity
  /\ engine \in {"linked", "unlinked", "returned"}
  /\ session \in Session \cup {None}
  /\ serving \in {"idle", "find", "match", "execute", "open", "replace"}
  /\ work \in Request \cup {None}
  /\ reply \in Answer \cup {None}
  /\ fate \in [Edit -> {"unmade", "ok", "refused", "unsure"}]
  /\ during \subseteq Project

\* Whoever was told that an edit is saved finds it in the file, whatever else was
\* published since, and one that was refused never gets there: neither with a
\* later command of the same session nor when the command itself comes late.
AnswersHold ==
  \A e \in Edit :
    /\ fate[e] = "ok" => e \in file
    /\ fate[e] = "refused" => e \notin file

\* A query is answered from a project the file has been since it was asked,
\* although the session may be older and a revision does not tell two apart.
ReadsAreCurrent ==
  lease # None /\ lease.edit = None /\ reply # None =>
    (reply.result = "ok" => reply.project \in during)

\* The lease comes back, also when the engine thread returns with the request in
\* its channel: a command waits for its answer without a timeout.
LeaseReturns == lease # None ~> lease = None
=============================================================================
