------------------------------- MODULE Schema -------------------------------
(***************************************************************************)
(* The database schema and the migrations that build it: docker/init-db.sh *)
(* and the scripts of alembic/versions, upgrade and downgrade.             *)
(*                                                                         *)
(* A schema is the set of its objects, each a tuple that starts with its   *)
(* kind and, from there on, the table it belongs to.  Of a table only the  *)
(* references, the columns added later, the columns an INSERT has to       *)
(* supply anew, the indexes, the row-level security and the grants are     *)
(* objects: the other columns come and go with the table.                  *)
(*                                                                         *)
(* A script is a sequence of statements and a statement a record: what it  *)
(* does, to which objects.  Revision r is the r-th script of the chain.    *)
(***************************************************************************)
EXTENDS Naturals, Sequences

Table(t) == <<"table", t>>
Column(t, c) == <<"column", t, c>>
Required(t, c) == <<"required", t, c>>          \* NOT NULL and no default
Reference(t, c, to) == <<"fk", t, c, to>>
Index(t, names) == {<<"index", t, n>> : n \in names}
Grant(t, role) == <<"grant", t, role>>
DefaultGrant(role) == <<"default", "public", role>>
Role(role) == <<"role", "cluster", role>>
Extension(e) == <<"extension", "database", e>>

\* ENABLE ROW LEVEL SECURITY and the uniform policy.  A policy names the
\* settings a query has to have made: reading one that is unset raises.
Policy(t, name, needs) == <<"policy", t, name, needs>>
TenantIsolation(t) == {<<"rls", t>>, Policy(t, "tenant_isolation", "app.current_org_id")}

\* Chunks whose embedding is NULL: rows, not schema, and in a migration's way.
UnembeddedChunks == <<"rows", "chunks">>

Tables(S) == {o[2] : o \in {x \in S : x[1] = "table"}}
ReferencedBy(t, S) == {o[2] : o \in {x \in S : x[1] = "fk" /\ x[4] = t}}

-----------------------------------------------------------------------------
(* Statements. *)

Create(O) == [op |-> "create", on |-> O]
Drop(O) == [op |-> "drop", on |-> O]
DropIfExists(O) == [op |-> "drop_if_exists", on |-> O]
DropTable(t) == [op |-> "drop_table", on |-> {Table(t)}]

\* GRANT and REVOKE on all the tables there are, and the default for new ones.
GrantAll(role) == [op |-> "grant", on |-> {DefaultGrant(role)}]
RevokeAll(role) == [op |-> "revoke", on |-> {DefaultGrant(role)}]

\* create_table: the table, one column and constraint per reference.
CreateTable(t, references) ==
    Create({Table(t)} \cup {Reference(t, r[1], r[2]) : r \in references})

\* Whether Postgres accepts statement s on schema S.
Accepts(S, s) ==
    CASE s.op = "create" ->
            /\ s.on \cap S = {}
            /\ \A o \in s.on : o[1] \notin {"role", "extension"} => o[2] \in Tables(S \cup s.on)
            /\ \A o \in s.on : o[1] = "fk" => o[4] \in Tables(S \cup s.on)
            /\ Required("chunks", "embedding") \in s.on => UnembeddedChunks \notin S
      [] s.op = "drop" -> s.on \subseteq S
      [] s.op = "drop_if_exists" -> TRUE
      [] s.op = "drop_table" -> \A o \in s.on : o \in S /\ ReferencedBy(o[2], S) \subseteq {o[2]}
      [] s.op \in {"grant", "revoke"} -> \A o \in s.on : Role(o[3]) \in S

\* The schema after s.  A new table gets the default privileges; a table or a
\* column takes its own objects with it.
Execute(S, s) ==
    CASE s.op = "create" ->
            S \cup s.on \cup {Grant(t, o[3]) : t \in Tables(s.on), o \in {x \in S : x[1] = "default"}}
      [] s.op \in {"drop", "drop_if_exists"} ->
            {o \in S \ s.on : \A c \in s.on : c[1] = "column" =>
                ~(o[1] \in {"fk", "required"} /\ o[2] = c[2] /\ o[3] = c[3])}
      [] s.op = "drop_table" -> {o \in S : \A t \in s.on : o[2] # t[2]}
      [] s.op = "grant" -> S \cup s.on \cup {Grant(t, o[3]) : t \in Tables(S), o \in s.on}
      [] s.op = "revoke" -> S \ (s.on \cup {Grant(t, o[3]) : t \in Tables(S), o \in s.on})

\* Not a schema: a statement of the script was refused.
Refused == {<<"refused">>}

\* Schema S after the statements of script p.
Run(S, p) ==
    LET after[i \in 0 .. Len(p)] ==
            IF i = 0 THEN S
            ELSE LET before == after[i - 1] IN
                 IF before = Refused \/ ~Accepts(before, p[i]) THEN Refused ELSE Execute(before, p[i])
    IN  after[Len(p)]

-----------------------------------------------------------------------------
(* docker/init-db.sh.  The admin role and its default privileges came later: *)
(* a database initialised before that has neither.                           *)

RequiredExtensions == {Extension(e) : e \in {"citext", "vector", "vectorscale", "pg_search"}}

LegacyDatabase == RequiredExtensions \cup {Role("unstash_app"), DefaultGrant("unstash_app")}

FreshDatabase == LegacyDatabase \cup {Role("unstash_admin"), DefaultGrant("unstash_admin")}

-----------------------------------------------------------------------------
(* The scripts. *)

OfOrganisation == <<"org_id", "organisations">>
OfUser == <<"user_id", "users">>

Up0001 ==
    << CreateTable("organisations", {}),
       CreateTable("users", {}),
       CreateTable("org_memberships", {OfOrganisation, OfUser}),
       Create(Index("org_memberships", {"org_id", "user_id"})) >>

Down0001 ==
    << Drop(Index("org_memberships", {"org_id", "user_id"})),
       DropTable("org_memberships"), DropTable("users"), DropTable("organisations") >>

DocumentIndexes ==
    Index("documents", {"org_created_at", "org_status", "org_content_hash", "connector_resource"})

Up0002 ==
    << CreateTable("documents", {OfOrganisation}),
       Create(DocumentIndexes),
       CreateTable("chunks", {OfOrganisation, <<"document_id", "documents">>}),
       Create({Required("chunks", "embedding")}),
       Create(Index("chunks", {"org_document_index", "embedding_diskann", "text_bm25"})) >>

Down0002 ==
    << DropIfExists(Index("chunks", {"text_bm25", "embedding_diskann"})),
       Drop(Index("chunks", {"org_document_index"})),
       DropTable("chunks"),
       Drop(DocumentIndexes),
       DropTable("documents") >>

Up0003 ==
    << CreateTable("connectors", {OfOrganisation}),
       Create(Index("connectors", {"org_status"})),
       Create({Reference("documents", "connector_id", "connectors")}) >>

\* Mutant: the documents keep their reference to the table that is dropped.
Down0003KeepsReference == << Drop(Index("connectors", {"org_status"})), DropTable("connectors") >>

Down0003 ==
    << Drop({Reference("documents", "connector_id", "connectors")}),
       Drop(Index("connectors", {"org_status"})),
       DropTable("connectors") >>

Up0004 ==
    << CreateTable("search_logs",
           {OfOrganisation, OfUser, <<"top_document_id", "documents">>,
            <<"clicked_document_id", "documents">>}),
       Create(Index("search_logs", {"org_created_at"})) >>

Down0004 == << Drop(Index("search_logs", {"org_created_at"})), DropTable("search_logs") >>

Up0005 ==
    << CreateTable("job_progress", {OfOrganisation}),
       Create(Index("job_progress", {"org_status"})),
       CreateTable("audit_log", {OfOrganisation, <<"actor_user_id", "users">>}),
       Create(Index("audit_log", {"org_created_at", "actor_created_at"})) >>

Down0005 ==
    << Drop(Index("audit_log", {"org_created_at", "actor_created_at"})), DropTable("audit_log"),
       Drop(Index("job_progress", {"org_status"})), DropTable("job_progress") >>

TenantScopedTables ==
    {"org_memberships", "documents", "chunks", "connectors", "search_logs", "job_progress",
     "audit_log"}

Up0006 == << Create(UNION {TenantIsolation(t) : t \in TenantScopedTables}) >>

Down0006 == << DropIfExists(UNION {TenantIsolation(t) : t \in TenantScopedTables}) >>

Up0007 ==
    << CreateTable("access_tokens", {OfUser}), Create(Index("access_tokens", {"created_at"})) >>

Down0007 == << Drop(Index("access_tokens", {"created_at"})), DropTable("access_tokens") >>

\* Mutant: 0008 grants on the tables there are and leaves the default alone.
Up0008GrantsOnce == << Create({Grant(t, "unstash_admin") : t \in TenantScopedTables}) >>

Up0008 == << GrantAll("unstash_admin") >>

Down0008 == << RevokeAll("unstash_admin") >>

Up0009 ==
    << CreateTable("api_tokens", {OfUser, OfOrganisation}), Create(Index("api_tokens", {"user_id"})) >>

Down0009 == << Drop(Index("api_tokens", {"user_id"})), DropTable("api_tokens") >>

Provenance == {Column("documents", c) : c \in {"pipeline_version", "pipeline_config"}}

Up0010 == << Create(Provenance) >>

Down0010 == << Drop(Provenance) >>

Up0011 == << Drop({Required("chunks", "embedding")}) >>

Down0011 == << DropIfExists({UnembeddedChunks}), Create({Required("chunks", "embedding")}) >>

Up0012 ==
    << CreateTable("document_metadata", {OfOrganisation, <<"document_id", "documents">>}),
       Create(Index("document_metadata", {"org_document"})),
       Create(TenantIsolation("document_metadata")) >>

Down0012 ==
    << DropIfExists({Policy("document_metadata", "tenant_isolation", "app.current_org_id")}),
       Drop(Index("document_metadata", {"org_document"})),
       DropTable("document_metadata") >>

Up0013 == << Create({Column("organisations", "daily_upload_limit")}) >>

Down0013 == << Drop({Column("organisations", "daily_upload_limit")}) >>

\* The BM25 index is recreated under its name with another tokenizer.
Stemmed == <<"index", "chunks", "text_bm25", "stemmer=swedish">>

Up0014 == << DropIfExists(Index("chunks", {"text_bm25"})), Create({Stemmed}) >>

\* Mutant: the stemmed index is dropped and the plain one not restored.
Down0014DropsOnly == << DropIfExists({Stemmed}) >>

Down0014 == << DropIfExists({Stemmed}), Create(Index("chunks", {"text_bm25"})) >>

Feedback == {Column("search_logs", c) : c \in {"results", "ranking_config", "clicks"}}

\* Mutant: the columns are NOT NULL and the server_default is forgotten.
Up0015NoDefault == << Create(Feedback \cup {Required("search_logs", "clicks")}) >>

Up0015 == << Create(Feedback) >>

Down0015 == << Drop(Feedback) >>

\* Its predicate reads app.current_user_id with missing_ok.
OwnMembershipsRead == Policy("org_memberships", "own_memberships_read", "")

Up0016 == << Create({OwnMembershipsRead}) >>

Down0016 == << DropIfExists({OwnMembershipsRead}) >>

ClusterOfDocument == {Reference("documents", "cluster_id", "clusters")}

Up0017 ==
    << CreateTable("clustering_runs", {OfOrganisation}),
       Create(Index("clustering_runs", {"org_created_at"})),
       CreateTable("clusters", {OfOrganisation, <<"run_id", "clustering_runs">>}),
       Create(Index("clusters", {"org_run"})),
       Create({Column("documents", "cluster_id")}),
       Create(ClusterOfDocument),
       Create(Index("documents", {"org_cluster"})),
       Create(TenantIsolation("clustering_runs")),
       Create(TenantIsolation("clusters")) >>

Down0017 ==
    << Drop(Index("documents", {"org_cluster"})),
       Drop(ClusterOfDocument),
       Drop({Column("documents", "cluster_id")}),
       DropIfExists({Policy(t, "tenant_isolation", "app.current_org_id") :
                        t \in {"clusters", "clustering_runs"}}),
       Drop(Index("clusters", {"org_run"})), DropTable("clusters"),
       Drop(Index("clustering_runs", {"org_created_at"})), DropTable("clustering_runs") >>

\* Mutant: the new table does not enable its own row-level security.
Up0018NoPolicy ==
    << CreateTable("llm_calls", {OfOrganisation}), Create(Index("llm_calls", {"org_created_at"})) >>

Up0018 ==
    << CreateTable("llm_calls", {OfOrganisation}),
       Create(Index("llm_calls", {"org_created_at"})),
       Create(TenantIsolation("llm_calls")) >>

Down0018 ==
    << DropIfExists({Policy("llm_calls", "tenant_isolation", "app.current_org_id")}),
       Drop(Index("llm_calls", {"org_created_at"})),
       DropTable("llm_calls") >>

Upgrades ==
    << Up0001, Up0002, Up0003, Up0004, Up0005, Up0006, Up0007, Up0008, Up0009,
       Up0010, Up0011, Up0012, Up0013, Up0014, Up0015, Up0016, Up0017, Up0018 >>

Downgrades ==
    << Down0001, Down0002, Down0003, Down0004, Down0005, Down0006, Down0007, Down0008, Down0009,
       Down0010, Down0011, Down0012, Down0013, Down0014, Down0015, Down0016, Down0017, Down0018 >>

Revisions == 0 .. Len(Upgrades)

\* The schema at each revision of a database that only ever upgraded.
SchemaAt ==
    LET at[r \in Revisions] == IF r = 0 THEN FreshDatabase ELSE Run(at[r - 1], Upgrades[r])
    IN  at

\* The same for a database initialised before the admin role, up to 0007.
LegacySchemaAt ==
    LET at[r \in 0 .. 7] == IF r = 0 THEN LegacyDatabase ELSE Run(at[r - 1], Upgrades[r])
    IN  at

=============================================================================
