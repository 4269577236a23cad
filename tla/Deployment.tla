----------------------------- MODULE Deployment -----------------------------
(***************************************************************************)
(* Deploys of the API and the worker around one database: the steps of     *)
(* .github/workflows/deploy.yaml, alembic as alembic/env.py configures it  *)
(* (one transaction around all the pending scripts), the checks the API    *)
(* runs before it serves (main.py, startup_checks.py), and an operator who *)
(* runs alembic by hand (docs/runbooks/manual-database-migration.md).      *)
(*                                                                         *)
(* A version of the code is named by the head revision of its scripts.     *)
(* The workflow has no concurrency group, so deploys may overlap.          *)
(***************************************************************************)
EXTENDS Schema, FiniteSets

CONSTANTS
    Deploys,            \* runs of the workflow that may be under way at once
    Operator,           \* the operator's shell
    Codes,              \* versions that get deployed
    Goals               \* bound: the revisions an operator takes the schema back to

ASSUME DeploymentAssumption ==
    /\ IsFiniteSet(Deploys) /\ Operator \notin Deploys
    /\ Codes \subseteq Revisions \ {0} /\ Goals \subseteq Revisions

VARIABLES
    database,           \* what is committed: schema and revision
    runner,             \* runner[r]: who runs alembic, and how far it is
    api,                \* the API container: its code, and whether it serves
    worker,             \* the code of the worker container, 0 before the first
    downgraded          \* the operator has taken the schema back at least once

vars == <<database, runner, api, worker, downgraded>>

Runners == Deploys \cup {Operator}

NoWork == [schema |-> {}, revision |-> 0]

\* A runner before it starts; one that has ended keeps only how.
NewRunner == [pc |-> "idle", code |-> 0, goal |-> 0, at |-> 0, work |-> NoWork]

\* A new database, or one from before the admin role that is at 0007.
Init ==
    /\ database \in {[schema |-> SchemaAt[0], revision |-> 0],
                     [schema |-> LegacySchemaAt[7], revision |-> 7]}
    /\ runner = [r \in Runners |-> NewRunner]
    /\ api = [code |-> 0, state |-> "none"]
    /\ worker = 0
    /\ downgraded = FALSE

-----------------------------------------------------------------------------
(* Alembic. *)

Open(r) == runner[r].work # NoWork

Ended(how) == [NewRunner EXCEPT !.pc = how]

\* The workflow pulls the images and runs `alembic upgrade head` of the new code.
StartDeploy(d, c) ==
    /\ runner[d].pc \in {"idle", "unknown_revision"}
    /\ runner' = [runner EXCEPT ![d] = [NewRunner EXCEPT !.pc = "begin", !.code = c, !.goal = c]]
    /\ UNCHANGED <<database, api, worker, downgraded>>

\* `alembic upgrade head` or `alembic downgrade <goal>` inside the API container.
StartByHand(goal) ==
    /\ runner[Operator].pc \notin {"begin", "scripts", "stuck"}
    /\ api.code # 0 /\ goal <= api.code
    /\ goal = api.code \/ goal < database.revision
    /\ runner' = [runner EXCEPT ![Operator] =
                      [NewRunner EXCEPT !.pc = "begin", !.code = api.code, !.goal = goal]]
    /\ UNCHANGED <<database, api, worker, downgraded>>

\* alembic_version is read.  A revision without a script ends the command.
Begin(r) ==
    /\ runner[r].pc = "begin"
    /\ runner' = IF database.revision <= runner[r].code
                 THEN [runner EXCEPT ![r].pc = "scripts", ![r].at = database.revision]
                 ELSE [runner EXCEPT ![r] = Ended("unknown_revision")]
    /\ UNCHANGED <<database, api, worker, downgraded>>

NextScript(r) ==
    IF runner[r].goal > runner[r].at THEN Upgrades[runner[r].at + 1] ELSE Downgrades[runner[r].at]

NextRevision(r) ==
    IF runner[r].goal > runner[r].at THEN runner[r].at + 1 ELSE runner[r].at - 1

\* What the transaction sees: the first statement takes the locks.
Visible(r) ==
    IF Open(r) THEN {runner[r].work.schema}
    ELSE {database.schema} \cup
         (IF Table("chunks") \in database.schema /\ Required("chunks", "embedding") \notin database.schema
          THEN {database.schema \cup {UnembeddedChunks}} ELSE {})

\* The revision the row of alembic_version still has for this transaction.
VisibleRevision(r) == IF Open(r) THEN runner[r].work.revision ELSE database.revision

\* The next script and the update of alembic_version.  Another transaction
\* that has run statements keeps this one waiting for its locks.  A statement
\* is refused when the admin role is missing or another migration came first;
\* "stuck" is a script that its own schema refuses.
RunScript(r) ==
    /\ runner[r].pc = "scripts" /\ runner[r].at # runner[r].goal
    /\ \A o \in Runners \ {r} : ~Open(o)
    /\ \E schema \in Visible(r) :
         LET after == Run(schema, NextScript(r)) IN
         runner' =
            IF VisibleRevision(r) = runner[r].at /\ after # Refused
            THEN [runner EXCEPT ![r].at = NextRevision(r),
                                ![r].work = [schema |-> after, revision |-> NextRevision(r)]]
            ELSE [runner EXCEPT ![r] = Ended(IF /\ VisibleRevision(r) = runner[r].at
                                                /\ Role("unstash_admin") \in schema
                                             THEN "stuck" ELSE "idle")]
    /\ UNCHANGED <<database, api, worker, downgraded>>

\* The last script has run: the transaction commits, the workflow goes on.
Commit(r) ==
    /\ runner[r].pc = "scripts" /\ runner[r].at = runner[r].goal
    /\ database' = IF Open(r)
                   THEN [runner[r].work EXCEPT !.schema = @ \ {UnembeddedChunks}]
                   ELSE database
    /\ downgraded' = (downgraded \/ database'.revision < database.revision)
    /\ runner' = [runner EXCEPT ![r] = IF r = Operator THEN Ended("idle")
                                       ELSE [Ended("up") EXCEPT !.code = runner[r].code]]
    /\ UNCHANGED <<api, worker>>

\* The connection or the job is lost: the transaction rolls back, every script
\* of it, and the shell of the workflow stops at the failed command.
Abort(r) ==
    /\ runner[r].pc \in {"begin", "scripts"}
    /\ runner' = [runner EXCEPT ![r] = Ended("idle")]
    /\ UNCHANGED <<database, api, worker, downgraded>>

\* An operator creates the role init-db.sh did not.
CreateAdminRole ==
    /\ Role("unstash_admin") \notin database.schema
    /\ \A r \in Runners : ~Open(r)
    /\ database' = [database EXCEPT !.schema = @ \cup {Role("unstash_admin")}]
    /\ UNCHANGED <<runner, api, worker, downgraded>>

-----------------------------------------------------------------------------
(* The containers. *)

\* Mutant: the containers are replaced before the migrations have run.
UpEarly(d) ==
    /\ runner[d].pc \in {"begin", "up"}
    /\ runner' = [runner EXCEPT ![d] = IF @.pc = "up" THEN Ended("idle") ELSE @]
    /\ api' = IF api.code = runner[d].code THEN api
              ELSE [code |-> runner[d].code, state |-> "starting"]
    /\ worker' = runner[d].code
    /\ UNCHANGED <<database, downgraded>>

\* `docker compose up -d` replaces the containers whose image changed.
Up(d) ==
    /\ runner[d].pc = "up"
    /\ runner' = [runner EXCEPT ![d] = Ended("idle")]
    /\ api' = IF api.code = runner[d].code THEN api
              ELSE [code |-> runner[d].code, state |-> "starting"]
    /\ worker' = runner[d].code
    /\ UNCHANGED <<database, downgraded>>

\* check_required_extensions and check_schema_at_head of version c.
StartupChecks(c) ==
    /\ RequiredExtensions \subseteq database.schema
    /\ database.revision = c

\* The lifespan of the API: it serves if every check passes.  A check that fails
\* (these, or a secret, the width of the embeddings, a superuser's connection)
\* ends the process, which the container's restart policy starts again: it
\* stays "starting".  The workflow's last step only reports which it is.
StartServing ==
    /\ api.state = "starting"
    /\ StartupChecks(api.code)
    /\ api' = [api EXCEPT !.state = "serving"]
    /\ UNCHANGED <<database, runner, worker, downgraded>>

\* The process ends and is started again: restart: unless-stopped.
Restart ==
    /\ api.state = "serving"
    /\ api' = [api EXCEPT !.state = "starting"]
    /\ UNCHANGED <<database, runner, worker, downgraded>>

Next ==
    \/ \E d \in Deploys :
          \/ \E c \in Codes : StartDeploy(d, c)
          \/ Up(d)
    \/ \E goal \in Goals \cup Codes : StartByHand(goal)
    \/ \E r \in Runners : Begin(r) \/ RunScript(r) \/ Commit(r) \/ Abort(r)
    \/ CreateAdminRole
    \/ StartServing \/ Restart

Spec == Init /\ [][Next]_vars

-----------------------------------------------------------------------------
(* Properties. *)

\* The tables whose rows belong to an organisation.  api_tokens is exempt
\* (0009): a token is looked up before the request has an organisation.
TenantTables(S) == {t \in Tables(S) : Reference(t, "org_id", "organisations") \in S} \ {"api_tokens"}

\* The schemas there are: the committed one and the one of an open transaction,
\* which a command with that revision for its goal commits.
Schemas == {database} \cup {runner[r].work : r \in {o \in Runners : Open(o)}}

\* From 0006 on every schema isolates the organisations: a table with org_id
\* has row-level security enabled and the uniform policy, the tables of later
\* scripts included.
TenantsIsolated ==
    \A db \in Schemas : db.revision >= 6 =>
        \A t \in TenantTables(db.schema) : TenantIsolation(t) \subseteq db.schema

\* From 0008 on the admin role reaches every table, the later ones included,
\* also in a database that was initialised before the role existed; the
\* application role reaches every table at every revision.
RolesReachTables ==
    \A db \in Schemas : \A t \in Tables(db.schema) :
        /\ Grant(t, "unstash_app") \in db.schema
        /\ db.revision >= 8 => Grant(t, "unstash_admin") \in db.schema

\* What the scripts manage: not roles and rows, and before 0008 not the admin
\* role's grants.
Managed(S, r) ==
    {o \in S : /\ o[1] \notin {"role", "rows"}
               /\ r < 8 => ~(o[1] \in {"grant", "default"} /\ o[3] = "unstash_admin")}

\* Whatever mix of upgrades, downgrades, aborts and overlapping deploys led to
\* it, a schema is the one its revision has after upgrades alone; and no script
\* is refused by the schema its predecessor left, in either direction: what can
\* stop a migration is the missing admin role, another migration that came
\* first, or the connection.
HistoryIndependent ==
    /\ \A db \in Schemas :
          Managed(db.schema, db.revision) = Managed(SchemaAt[db.revision], db.revision)
    /\ \A r \in Runners : runner[r].pc # "stuck"

\* Code written for schema `old` works on schema `new`: what it names is still
\* there and granted, its INSERTs need nothing more, and no policy asks for a
\* setting it does not make.
CodeRuns(old, new) ==
    /\ {o \in old : o[1] \in {"table", "column", "grant"}} \subseteq new
    /\ \A o \in new : o[1] = "required" /\ o[2] \in Tables(old) => o \in old
    /\ \A o \in new : o[1] = "policy" /\ o[2] \in Tables(old) =>
          o[4] = "" \/ \E p \in old : p[1] = "policy" /\ p[2] = o[2] /\ p[4] = o[4]

\* Until an operator takes the schema back, the API that serves and the worker
\* have a schema that is no older than their code and that their code runs on:
\* through the window between the commit of the migrations and `up -d`, through
\* overlapping deploys, failed ones and restarts.  The worker checks nothing
\* when it starts; only the order of the workflow's steps protects it.
RunningCodeHasSchema ==
    ~downgraded =>
        \A c \in (IF api.state = "serving" THEN {api.code} ELSE {}) \cup ({worker} \ {0}) :
            c <= database.revision /\ CodeRuns(SchemaAt[c], database.schema)

=============================================================================
