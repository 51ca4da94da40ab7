------------------------------ MODULE SqlGuard ------------------------------
(***************************************************************************)
(* How a datasource's policy is enforced inside gorm (db/sql/gorm/guard):  *)
(* an install publishes the policy in the state the handle's plugin keeps, *)
(* guards the pool the handle was opened with, and registers callbacks.    *)
(* A statement is checked by the callbacks, which see only the SQL it was  *)
(* given, and again by the pool it is sent on, if that pool is guarded.    *)
(*                                                                         *)
(* Two installs may run at once, on handles that share one plugin, and     *)
(* handles, transactions and pinned connections may have been derived from *)
(* the opened handle before either.  What a text is, and which check       *)
(* refuses it, is SqlPolicy's subject; here a text is its class.           *)
(***************************************************************************)
EXTENDS FiniteSets, Naturals

CONSTANT Derived          \* handles a program may derive, besides the opened

VARIABLES
    published,   \* sendPolicy: the policies every guarded pool checks
    prepared,    \* gorm was opened with PrepareStmt
    handle,      \* handle -> what it is, whether its pool is guarded, and the
                 \* policies promised of what is sent on that pool directly
    hooked,      \* policies whose callbacks are registered
    install,     \* policy -> where its install is, on which handle, what it loaded
    statement,   \* the statement on its way, or NoStatement
    sentOn       \* ghost: the statement that reached the server last, and what it was owed, if anything

guardVars == <<published, prepared, handle, hooked, install, statement, sentOn>>

ROnly == "readOnly"
Owned == "externalSchema"
DSPolicies == {ROnly, Owned}
Handles == {"opened"} \cup Derived

-----------------------------------------------------------------------------
(* Texts by what the guards say of them.  "calls" is a query whose words    *)
(* the deep check refuses and whose shape is a plain query's.               *)

Texts == {"query", "locks", "calls", "rows", "schema", "savepoint"}
DeepRefused == {"locks", "calls", "rows", "schema", "savepoint"}
ShapesRefused == {"locks", "rows", "schema", "savepoint"}
SchemaTexts == {"schema"}

isGormSavepoint(text) == text = "savepoint"

-----------------------------------------------------------------------------
(* A statement: the gorm processor that runs it, the text, whether the text *)
(* was given before the callbacks run (db.Raw, db.Exec) and whether an      *)
(* engine marked it as its dialect's.  "direct" is sent on the ConnPool.    *)

NoStatement == [at |-> "none"]
Writers == {"create", "update", "delete"}

\* The query, row and raw processors are given the same callbacks: "query" stands for them.
Statements ==
    [via : {"query"}, text : Texts, preset : {TRUE}, marked : {FALSE}]
      \cup [via : {"query"}, text : {"calls"}, preset : {TRUE}, marked : {TRUE}]
      \cup [via : {"create"}, text : {"rows", "schema"}, preset : BOOLEAN, marked : {FALSE}]
      \cup [via : {"query"}, text : {"query", "locks", "schema"},
            preset : {FALSE}, marked : {FALSE}]
      \cup [via : {"direct"}, text : Texts, preset : {FALSE}, marked : {FALSE}]

\* The check a guarded pool makes of each statement as it is sent.
check(text) ==
    \/ ROnly \in published /\ ~isGormSavepoint(text) /\ text \in ShapesRefused
    \/ Owned \in published /\ text \in SchemaTexts

\* What the callbacks add to the statement when they run.
guardReads(s) ==
    /\ s.preset /\ ~isGormSavepoint(s.text)
    /\ s.text \in IF s.marked THEN ShapesRefused ELSE DeepRefused

refuseWrites(s) == s.via \in Writers

guardSchema(s) == s.preset /\ s.text \in SchemaTexts

CallbackRefuses(s) ==
    \/ ROnly \in hooked /\ (refuseWrites(s) \/ guardReads(s))
    \/ Owned \in hooked /\ guardSchema(s)

-----------------------------------------------------------------------------
Idling == [at |-> "idle"]
NoHandle == [kind |-> "none", guarded |-> FALSE, promised |-> {}]

GuardInit ==
    /\ published = {}
    /\ prepared \in BOOLEAN
    /\ handle = [h \in Handles |->
          IF h = "opened" THEN [NoHandle EXCEPT !.kind = "opened"] ELSE NoHandle]
    /\ hooked = {}
    /\ install = [p \in DSPolicies |-> Idling]
    /\ statement = NoStatement
    /\ sentOn = {}

\* A session of the opened handle shares its pool; a transaction begun on a
\* guarded pool is guarded like it.
Derive(h, kind) ==
    /\ handle[h].kind = "none"
    /\ handle' = [handle EXCEPT ![h] = [handle["opened"] EXCEPT !.kind = kind]]
    /\ UNCHANGED <<published, prepared, hooked, install, statement, sentOn>>

\* db.Connection pins a *sql.Conn the guard has never seen.
Connection(h) ==
    /\ handle[h].kind = "none"
    /\ handle' = [handle EXCEPT ![h].kind = "conn"]
    /\ UNCHANGED <<published, prepared, hooked, install, statement, sentOn>>

\* enable: load the policy, and swap in the one with p added if nobody else
\* has swapped in between; one that is set already is left as it is.
StartInstall(p, h) ==
    /\ install[p] = Idling /\ handle[h].kind \in {"opened", "session"}
    /\ install' = [install EXCEPT ![p] =
          IF p \in published THEN [at |-> "guard", on |-> h]
          ELSE [at |-> "swap", on |-> h, loaded |-> published]]
    /\ UNCHANGED <<published, prepared, handle, hooked, statement, sentOn>>

\* Fault: the policy computed from what was loaded is stored without comparing.
EnableUnswapped(p) ==
    /\ install[p].at = "swap"
    /\ published' = install[p].loaded \cup {p}
    /\ install' = [install EXCEPT ![p] = [at |-> "guard", on |-> install[p].on]]
    /\ UNCHANGED <<prepared, handle, hooked, statement, sentOn>>

Enable(p) ==
    /\ install[p].at = "swap"
    /\ IF published = install[p].loaded
       THEN /\ published' = published \cup {p}
            /\ install' = [install EXCEPT ![p] = [at |-> "guard", on |-> install[p].on]]
       ELSE /\ install' = [install EXCEPT ![p].loaded = published]
            /\ UNCHANGED published
    /\ UNCHANGED <<prepared, handle, hooked, statement, sentOn>>

\* Under PrepareStmt the pool inside the prepared-statement layer is guarded in
\* place, for every handle that points to the layer.
GuardHandle(p) ==
    /\ install[p].at = "guard"
    /\ handle' = [h \in Handles |->
          [handle[h] EXCEPT !.guarded =
              @ \/ h = install[p].on
                \/ (prepared /\ handle[h].kind \in {"opened", "session"})]]
    /\ install' = [install EXCEPT ![p].at = "hook"]
    /\ UNCHANGED <<published, prepared, hooked, statement, sentOn>>

\* The callbacks belong to every handle; the install returns.
Hook(p) ==
    /\ install[p].at = "hook"
    /\ hooked' = hooked \cup {p}
    /\ handle' = [handle EXCEPT ![install[p].on].promised = @ \cup {p}]
    /\ install' = [install EXCEPT ![p] = Idling]
    /\ UNCHANGED <<published, prepared, statement, sentOn>>

\* gorm runs the callbacks: the guard's wrap the statement's pool before they
\* check what it was given, and nothing is sent once one has refused.
Callbacks(h, s) ==
    /\ statement = NoStatement /\ sentOn = {} /\ handle[h].kind # "none" /\ s.via # "direct"
    /\ ~CallbackRefuses(s)
    /\ statement' = [at |-> "sending", s |-> s, owed |-> hooked,
                     guarded |-> handle[h].guarded \/ hooked # {}]
    /\ UNCHANGED <<published, prepared, handle, hooked, install, sentOn>>

Direct(h, s) ==
    /\ statement = NoStatement /\ sentOn = {} /\ handle[h].kind # "none" /\ s.via = "direct"
    /\ statement' = [at |-> "sending", s |-> s, owed |-> handle[h].promised,
                     guarded |-> handle[h].guarded]
    /\ UNCHANGED <<published, prepared, handle, hooked, install, sentOn>>

Send ==
    /\ statement # NoStatement
    /\ statement' = NoStatement
    /\ sentOn' = IF statement.owed = {} \/ (statement.guarded /\ check(statement.s.text)) THEN sentOn
                 ELSE {[s |-> statement.s, owed |-> statement.owed]}
    /\ UNCHANGED <<published, prepared, handle, hooked, install>>

\* Its result is read: what was sent is looked at once.
Returns ==
    /\ sentOn # {}
    /\ sentOn' = {}
    /\ UNCHANGED <<published, prepared, handle, hooked, install, statement>>

GuardNext ==
    \/ \E h \in Derived : \E kind \in {"session", "tx"} : Derive(h, kind)
    \/ \E h \in Derived : Connection(h)
    \/ \E p \in DSPolicies : \E h \in Handles : StartInstall(p, h)
    \/ \E p \in DSPolicies : Enable(p) \/ GuardHandle(p) \/ Hook(p)
    \/ \E h \in Handles : \E s \in Statements : Callbacks(h, s) \/ Direct(h, s)
    \/ Send
    \/ Returns

GuardSpec == GuardInit /\ [][GuardNext]_guardVars

-----------------------------------------------------------------------------
Breaks(p, s) ==
    \/ p = ROnly /\ s.text \in {"locks", "rows", "schema"}
    \/ p = ROnly /\ s.text = "calls" /\ s.preset /\ ~s.marked
    \/ p = Owned /\ s.text \in SchemaTexts

(* An installed policy refuses before the server sees it.  Once an install  *)
(* has returned, no statement gorm runs on any handle that shares the       *)
(* plugin, whenever it was derived, reaches the server when the policy      *)
(* refuses it; nor does one sent directly on the pool of a handle that was  *)
(* installed on, or derived after that.  Two installs at once lose neither  *)
(* policy.                                                                  *)
NothingRefusedIsSent ==
    \A x \in sentOn : \A p \in x.owed : ~Breaks(p, x.s)
=============================================================================
