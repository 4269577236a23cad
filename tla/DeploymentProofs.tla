-------------------------- MODULE DeploymentProofs --------------------------
(***************************************************************************)
(* Proofs about Deployment, for any number of overlapping deploys and any  *)
(* versions of the code.                                                   *)
(*                                                                         *)
(* A schema is said exactly, revision by revision: IsAt(S, r) names the    *)
(* objects that the scripts up to r have made, and the grants that go with *)
(* them.  Every upgrade leads from a schema of r - 1 to one of r, and      *)
(* every downgrade back (UpgradeLeads, DowngradeLeads); what is shown of a *)
(* script is read off its statements, the rest is the same for all.  So    *)
(* every schema there is, committed or not, is one of its revision         *)
(* (SchemasInv), and the safety properties follow from what a revision     *)
(* has.  The code that runs needs a second invariant, of how far each      *)
(* runner is (RunnersInv).                                                 *)
(***************************************************************************)
EXTENDS Deployment, OrderTheorems, TLAPS

-----------------------------------------------------------------------------
(* What each revision consists of.                                         *)
\* The script that creates table t.
Creator(t) ==
    CASE t \in {"organisations", "users", "org_memberships"} -> 1
      [] t \in {"documents", "chunks"} -> 2
      [] t = "connectors" -> 3
      [] t = "search_logs" -> 4
      [] t \in {"job_progress", "audit_log"} -> 5
      [] t = "access_tokens" -> 7
      [] t = "api_tokens" -> 9
      [] t = "document_metadata" -> 12
      [] t \in {"clustering_runs", "clusters"} -> 17
      [] t = "llm_calls" -> 18
      [] OTHER -> 0

\* The script that creates object o: the one of its table, unless a later
\* script adds it.
Birth(o) ==
    IF o[1] = "fk" /\ o[3] = "connector_id" THEN 3
    ELSE IF o[1] = "policy" /\ o[3] = "own_memberships_read" THEN 16
    ELSE IF o[1] \in {"rls", "policy"} /\ o[2] \in TenantScopedTables THEN 6
    ELSE IF o[1] = "column" /\ o[2] = "organisations" THEN 13
    ELSE IF o[1] = "column" /\ o[2] = "search_logs" THEN 15
    ELSE IF o[1] = "index" /\ Len(o) = 4 THEN 14
    ELSE IF o[1] \in {"column", "fk"} /\ o[3] = "cluster_id" THEN 17
    ELSE IF o[1] = "index" /\ o[3] = "org_cluster" THEN 17
    ELSE IF o[1] = "column" THEN 10
    ELSE Creator(o[2])

\* The objects script r creates.
Made(r) ==
    UNION {Upgrades[r][i].on : i \in {j \in 1 .. Len(Upgrades[r]) : Upgrades[r][j].op = "create"}}

\* The index of 0002 that 0014 replaces.
Plain == <<"index", "chunks", "text_bm25">>

\* The objects at revision r: what the scripts have created, but for the two
\* things that 0011 and 0014 drop.
ObjectsAt(r) ==
    {o \in RequiredExtensions \cup UNION {Made(q) : q \in 1 .. r} :
        /\ r >= 11 => o # Required("chunks", "embedding")
        /\ r >= 14 => o # Plain}

\* A schema without its roles, rows, grants and default privileges.
Objects(S) == {o \in S : o[1] \notin {"role", "rows", "grant", "default"}}

\* The roles anything is granted to.
BothRoles == {"unstash_app", "unstash_admin"}

\* The role has every table, and the default for the tables to come.
Granted(S, role) ==
    /\ DefaultGrant(role) \in S
    /\ \A t \in Tables(S) : Grant(t, role) \in S

\* The application role has all its grants, the admin role too from 0008 on (and
\* any of them before), and nobody has others.
Grants(S, r) ==
    /\ Granted(S, "unstash_app")
    /\ r >= 8 => Granted(S, "unstash_admin")
    /\ \A o \in S :
          /\ o[1] = "grant" => \E t \in Tables(S), role \in BothRoles : o = Grant(t, role)
          /\ o[1] = "default" => \E role \in BothRoles : o = DefaultGrant(role)

\* S is a schema of revision r.
IsAt(S, r) ==
    /\ Objects(S) = ObjectsAt(r)
    /\ Grants(S, r)
    /\ UnembeddedChunks \in S => r >= 11

\* The scripts by their revision.
LEMMA ScriptsAre ==
    /\ Len(Upgrades) = 18 /\ Len(Downgrades) = 18
    /\ Upgrades[1] = Up0001 /\ Downgrades[1] = Down0001
    /\ Upgrades[2] = Up0002 /\ Downgrades[2] = Down0002
    /\ Upgrades[3] = Up0003 /\ Downgrades[3] = Down0003
    /\ Upgrades[4] = Up0004 /\ Downgrades[4] = Down0004
    /\ Upgrades[5] = Up0005 /\ Downgrades[5] = Down0005
    /\ Upgrades[6] = Up0006 /\ Downgrades[6] = Down0006
    /\ Upgrades[7] = Up0007 /\ Downgrades[7] = Down0007
    /\ Upgrades[8] = Up0008 /\ Downgrades[8] = Down0008
    /\ Upgrades[9] = Up0009 /\ Downgrades[9] = Down0009
    /\ Upgrades[10] = Up0010 /\ Downgrades[10] = Down0010
    /\ Upgrades[11] = Up0011 /\ Downgrades[11] = Down0011
    /\ Upgrades[12] = Up0012 /\ Downgrades[12] = Down0012
    /\ Upgrades[13] = Up0013 /\ Downgrades[13] = Down0013
    /\ Upgrades[14] = Up0014 /\ Downgrades[14] = Down0014
    /\ Upgrades[15] = Up0015 /\ Downgrades[15] = Down0015
    /\ Upgrades[16] = Up0016 /\ Downgrades[16] = Down0016
    /\ Upgrades[17] = Up0017 /\ Downgrades[17] = Down0017
    /\ Upgrades[18] = Up0018 /\ Downgrades[18] = Down0018
  BY DEF Upgrades, Downgrades

\* The columns that a downgrade drops and nothing refers to.
DroppedColumns ==
    {"pipeline_version", "pipeline_config", "daily_upload_limit", "results", "ranking_config",
     "clicks"}

\* The tables with an organisation that later scripts than 0006 create.
LaterTenantTables == {"document_metadata", "clustering_runs", "clusters", "llm_calls"}

\* What is known of an object that script r creates.
Object(o, r) ==
    /\ o[1] \in {"table", "column", "required", "fk", "index", "rls", "policy"}
    /\ Birth(o) = r
    /\ Creator(o[2]) \in 1 .. r
    /\ o[1] = "table" => o = Table(o[2]) /\ Creator(o[2]) = r
    /\ o[1] = "fk" =>
          /\ Creator(o[4]) \in 1 .. r
          /\ o[3] = "org_id" =>
                /\ Creator(o[2]) = r
                /\ o[2] \in TenantScopedTables \cup LaterTenantTables \cup {"api_tokens"}
    /\ o[1] = "fk" /\ Creator(o[4]) = r =>
          \/ r = 1 /\ o[2] = "org_memberships"
          \/ r = 2 /\ o[2] = "chunks" /\ o[4] = "documents"
          \/ r = 3 /\ o \in {Reference("documents", "connector_id", "connectors")}
          \/ r = 17 /\ o[2] = "clusters" /\ o[4] = "clustering_runs"
          \/ r = 17 /\ o \in ClusterOfDocument
    /\ o[1] = "required" => o = Required("chunks", "embedding")
    /\ o[1] = "policy" => r = 6 \/ (r = 16 /\ o[4] = "") \/ Creator(o[2]) = r
    /\ o[1] \in {"fk", "required"} => o[3] \notin DroppedColumns

\* What the upgrades create is what Object says: 18 scripts, one step for each.
LEMMA ObjectsOfScripts ==
    \A r \in 1 .. 18 : \A o \in Made(r) : Object(o, r)
  <1> USE DEF Create, Table, Reference, Required, Index, Column, OfOrganisation, OfUser,
          TenantIsolation, Policy, CreateTable, OwnMembershipsRead, Stemmed, Creator, Birth,
          TenantScopedTables, Object, DroppedColumns, LaterTenantTables
  <1>1. \A i \in 1 .. Len(Up0001) : Up0001[i].op = "create" => \A o \in Up0001[i].on : Object(o, 1)
    BY DEF Up0001, Drop, DropIfExists, GrantAll
  <1>2. \A i \in 1 .. Len(Up0002) : Up0002[i].op = "create" => \A o \in Up0002[i].on : Object(o, 2)
    BY DEF Up0002, Drop, DropIfExists, GrantAll, DocumentIndexes
  <1>3. \A i \in 1 .. Len(Up0003) : Up0003[i].op = "create" => \A o \in Up0003[i].on : Object(o, 3)
    BY DEF Up0003, Drop, DropIfExists, GrantAll
  <1>4. \A i \in 1 .. Len(Up0004) : Up0004[i].op = "create" => \A o \in Up0004[i].on : Object(o, 4)
    BY DEF Up0004, Drop, DropIfExists, GrantAll
  <1>5. \A i \in 1 .. Len(Up0005) : Up0005[i].op = "create" => \A o \in Up0005[i].on : Object(o, 5)
    BY DEF Up0005, Drop, DropIfExists, GrantAll
  <1>6. \A i \in 1 .. Len(Up0006) : Up0006[i].op = "create" => \A o \in Up0006[i].on : Object(o, 6)
    BY DEF Up0006, Drop, DropIfExists, GrantAll
  <1>7. \A i \in 1 .. Len(Up0007) : Up0007[i].op = "create" => \A o \in Up0007[i].on : Object(o, 7)
    BY DEF Up0007, Drop, DropIfExists, GrantAll
  <1>8. \A i \in 1 .. Len(Up0008) : Up0008[i].op = "create" => \A o \in Up0008[i].on : Object(o, 8)
    BY DEF Up0008, Drop, DropIfExists, GrantAll
  <1>9. \A i \in 1 .. Len(Up0009) : Up0009[i].op = "create" => \A o \in Up0009[i].on : Object(o, 9)
    BY DEF Up0009, Drop, DropIfExists, GrantAll
  <1>10. \A i \in 1 .. Len(Up0010) : Up0010[i].op = "create" => \A o \in Up0010[i].on : Object(o, 10)
    BY DEF Up0010, Drop, DropIfExists, GrantAll, Provenance
  <1>11. \A i \in 1 .. Len(Up0011) : Up0011[i].op = "create" => \A o \in Up0011[i].on : Object(o, 11)
    BY DEF Up0011, Drop, DropIfExists, GrantAll
  <1>12. \A i \in 1 .. Len(Up0012) : Up0012[i].op = "create" => \A o \in Up0012[i].on : Object(o, 12)
    BY DEF Up0012, Drop, DropIfExists, GrantAll
  <1>13. \A i \in 1 .. Len(Up0013) : Up0013[i].op = "create" => \A o \in Up0013[i].on : Object(o, 13)
    BY DEF Up0013, Drop, DropIfExists, GrantAll
  <1>14. \A i \in 1 .. Len(Up0014) : Up0014[i].op = "create" => \A o \in Up0014[i].on : Object(o, 14)
    BY DEF Up0014, Drop, DropIfExists, GrantAll
  <1>15. \A i \in 1 .. Len(Up0015) : Up0015[i].op = "create" => \A o \in Up0015[i].on : Object(o, 15)
    BY DEF Up0015, Drop, DropIfExists, GrantAll, Feedback
  <1>16. \A i \in 1 .. Len(Up0016) : Up0016[i].op = "create" => \A o \in Up0016[i].on : Object(o, 16)
    <2>1. Object(<<"policy", "org_memberships", "own_memberships_read", "">>, 16)
      OBVIOUS
    <2>2. Object(OwnMembershipsRead, 16)
      BY <2>1
    <2> HIDE DEF Object, OwnMembershipsRead
    <2> QED
      BY <2>2 DEF Up0016
  <1>17. \A i \in 1 .. Len(Up0017) : Up0017[i].op = "create" => \A o \in Up0017[i].on : Object(o, 17)
    BY DEF Up0017, Drop, DropIfExists, GrantAll, ClusterOfDocument
  <1>18. \A i \in 1 .. Len(Up0018) : Up0018[i].op = "create" => \A o \in Up0018[i].on : Object(o, 18)
    BY DEF Up0018, Drop, DropIfExists, GrantAll
  <1> HIDE DEF Object
  <1> SUFFICES ASSUME NEW r \in 1 .. 18,
                      NEW i \in 1 .. Len(Upgrades[r]), Upgrades[r][i].op = "create",
                      NEW o \in Upgrades[r][i].on
               PROVE  Object(o, r)
    BY DEF Made
  <1>19. r <= 9 \/ r > 9
    OBVIOUS
  <1>20. CASE r <= 9
    <2>1. \/ r = 1 \/ r = 2 \/ r = 3 \/ r = 4 \/ r = 5 \/ r = 6 \/ r = 7 \/ r = 8 \/ r = 9
      BY <1>20
    <2> QED
      BY <1>1, <1>2, <1>3, <1>4, <1>5, <1>6, <1>7, <1>8, <1>9, <2>1, ScriptsAre
  <1>21. CASE r > 9
    <2>1. \/ r = 10 \/ r = 11 \/ r = 12 \/ r = 13 \/ r = 14 \/ r = 15 \/ r = 16 \/ r = 17 \/ r = 18
      BY <1>21
    <2> QED
      BY <1>10, <1>11, <1>12, <1>13, <1>14, <1>15, <1>16, <1>17, <1>18, <2>1, ScriptsAre
  <1> QED
    BY <1>19, <1>20, <1>21

-----------------------------------------------------------------------------
(* What the scripts consist of, read off one script after the other.       *)
\* A revision is one of 18.
LEMMA RevisionsFrom1 ==
    \A r \in 1 .. 18 :
        \/ r = 1 \/ r = 2 \/ r = 3 \/ r = 4 \/ r = 5 \/ r = 6 \/ r = 7 \/ r = 8 \/ r = 9 \/ r = 10
        \/ r = 11 \/ r = 12 \/ r = 13 \/ r = 14 \/ r = 15 \/ r = 16 \/ r = 17 \/ r = 18
  OBVIOUS

\* The policy of 0016.
LEMMA OwnMembershipsReadIs ==
    /\ OwnMembershipsRead[1] = "policy" /\ OwnMembershipsRead[2] = "org_memberships"
    /\ Birth(OwnMembershipsRead) = 16
  BY DEF OwnMembershipsRead, Policy, Birth

\* Script p only creates: every object once, and after the tables it needs.
Creates(p, r) ==
    \A i \in 1 .. Len(p) :
        /\ p[i].op = "create"
        /\ \A o \in p[i].on :
              /\ \A j \in 1 .. i - 1 : o \notin p[j].on
              /\ Creator(o[2]) = r => \E j \in 1 .. i : Table(o[2]) \in p[j].on
              /\ o[1] = "fk" /\ Creator(o[4]) = r => \E j \in 1 .. i : Table(o[4]) \in p[j].on

\* The upgrades other than 0008, 0011 and 0014 only create.
LEMMA UpgradesCreate ==
    \A r \in 1 .. 18 \ {8, 11, 14} : Creates(Upgrades[r], r)
  <1> USE DEF Create, Table, Reference, Required, Index, Column, OfOrganisation, OfUser,
          TenantIsolation, Policy, CreateTable, Creator, Creates
  <1>1. Creates(Up0001, 1)
    BY DEF Up0001
  <1>2. Creates(Up0002, 2)
    BY DEF Up0002, DocumentIndexes
  <1>3. Creates(Up0003, 3)
    BY DEF Up0003
  <1>4. Creates(Up0004, 4)
    BY DEF Up0004
  <1>5. Creates(Up0005, 5)
    BY DEF Up0005
  <1>6. Creates(Up0006, 6)
    BY DEF Up0006, TenantScopedTables
  <1>7. Creates(Up0007, 7)
    BY DEF Up0007
  <1>8. Creates(Up0009, 9)
    BY DEF Up0009
  <1>9. Creates(Up0010, 10)
    BY DEF Up0010, Provenance
  <1>10. Creates(Up0012, 12)
    BY DEF Up0012
  <1>11. Creates(Up0013, 13)
    BY DEF Up0013
  <1>12. Creates(Up0015, 15)
    BY DEF Up0015, Feedback
  <1>13. Creates(Up0016, 16)
    BY OwnMembershipsReadIs DEF Up0016
  <1>14. Creates(Up0017, 17)
    BY DEF Up0017, ClusterOfDocument
  <1>15. Creates(Up0018, 18)
    BY DEF Up0018
  <1> HIDE DEF Creates
  <1> SUFFICES ASSUME NEW r \in 1 .. 18 \ {8, 11, 14} PROVE Creates(Upgrades[r], r)
    OBVIOUS
  <1> QED
    BY <1>1, <1>2, <1>3, <1>4, <1>5, <1>6, <1>7, <1>8, <1>9, <1>10, <1>11, <1>12, <1>13, <1>14,
       <1>15, ScriptsAre, RevisionsFrom1

\* The fields of a CREATE.
LEMMA CreateIs == \A O : Create(O).op = "create" /\ Create(O).on = O
  BY DEF Create

\* What a statement of a script creates is among what the script made.
LEMMA StatementMade ==
    ASSUME NEW r, NEW p, Upgrades[r] = p, NEW i \in 1 .. Len(p), p[i].op = "create"
    PROVE  p[i].on \subseteq Made(r)
  <1>1. i \in {j \in 1 .. Len(Upgrades[r]) : Upgrades[r][j].op = "create"}
    OBVIOUS
  <1> QED
    BY <1>1 DEF Made

\* Every table is made by the script that is its creator.
LEMMA TableMade ==
    \A t : Creator(t) # 0 => Creator(t) \in 1 .. 18 /\ Table(t) \in Made(Creator(t))
  <1> DEFINE In(p, i, t) == i \in 1 .. Len(p) /\ p[i].op = "create" /\ Table(t) \in p[i].on
  <1>1. In(Up0001, 1, "organisations") /\ In(Up0001, 2, "users") /\ In(Up0001, 3, "org_memberships")
    BY DEF Up0001, CreateTable, Create
  <1>2. In(Up0002, 1, "documents") /\ In(Up0002, 3, "chunks")
    BY DEF Up0002, CreateTable, Create
  <1>3. In(Up0003, 1, "connectors")
    BY DEF Up0003, CreateTable, Create
  <1>4. In(Up0004, 1, "search_logs")
    BY DEF Up0004, CreateTable, Create
  <1>5. In(Up0005, 1, "job_progress") /\ In(Up0005, 3, "audit_log")
    BY DEF Up0005, CreateTable, Create
  <1>6. In(Up0007, 1, "access_tokens")
    BY DEF Up0007, CreateTable, Create
  <1>7. In(Up0009, 1, "api_tokens")
    BY DEF Up0009, CreateTable, Create
  <1>8. In(Up0012, 1, "document_metadata")
    BY DEF Up0012, CreateTable, Create
  <1>9. In(Up0017, 1, "clustering_runs") /\ In(Up0017, 3, "clusters")
    BY DEF Up0017, CreateTable, Create
  <1>10. In(Up0018, 1, "llm_calls")
    BY DEF Up0018, CreateTable, Create
  <1> HIDE DEF In
  <1>11. ASSUME NEW r \in 1 .. 18, NEW t, NEW i, In(Upgrades[r], i, t) PROVE Table(t) \in Made(r)
    BY <1>11, StatementMade DEF In
  <1>12. Table("organisations") \in Made(1) /\ Table("users") \in Made(1)
        /\ Table("org_memberships") \in Made(1)
    BY <1>1, <1>11, ScriptsAre
  <1>13. Table("documents") \in Made(2) /\ Table("chunks") \in Made(2)
    BY <1>2, <1>11, ScriptsAre
  <1>14. Table("connectors") \in Made(3)
    BY <1>3, <1>11, ScriptsAre
  <1>15. Table("search_logs") \in Made(4)
    BY <1>4, <1>11, ScriptsAre
  <1>16. Table("job_progress") \in Made(5) /\ Table("audit_log") \in Made(5)
    BY <1>5, <1>11, ScriptsAre
  <1>17. Table("access_tokens") \in Made(7)
    BY <1>6, <1>11, ScriptsAre
  <1>18. Table("api_tokens") \in Made(9)
    BY <1>7, <1>11, ScriptsAre
  <1>19. Table("document_metadata") \in Made(12)
    BY <1>8, <1>11, ScriptsAre
  <1>20. Table("clustering_runs") \in Made(17) /\ Table("clusters") \in Made(17)
    BY <1>9, <1>11, ScriptsAre
  <1>21. Table("llm_calls") \in Made(18)
    BY <1>10, <1>11, ScriptsAre
  <1> QED
    BY <1>12, <1>13, <1>14, <1>15, <1>16, <1>17, <1>18, <1>19, <1>20, <1>21 DEF Creator

\* The isolation of a table comes with 0006, of a later table with the table.
LEMMA IsolationMade ==
    /\ \A t \in TenantScopedTables : TenantIsolation(t) \subseteq Made(6)
    /\ \A t \in LaterTenantTables : Creator(t) > 6 /\ TenantIsolation(t) \subseteq Made(Creator(t))
  <1>1. ASSUME NEW t \in TenantScopedTables, NEW o \in TenantIsolation(t) PROVE o \in Made(6)
    <2>1. 1 \in 1 .. Len(Up0006)
          /\ Up0006[1] = Create(UNION {TenantIsolation(x) : x \in TenantScopedTables})
      BY DEF Up0006
    <2>2. /\ 1 \in 1 .. Len(Up0006) /\ Up0006[1].op = "create"
          /\ Up0006[1].on = UNION {TenantIsolation(x) : x \in TenantScopedTables}
      BY <2>1, CreateIs
    <2>3. UNION {TenantIsolation(x) : x \in TenantScopedTables} \subseteq Made(6)
      BY <2>2, ScriptsAre, StatementMade
    <2> QED
      BY <1>1, <2>3
  <1>2. TenantIsolation("document_metadata") \subseteq Made(12)
    <2>1. 3 \in 1 .. Len(Up0012) /\ Up0012[3] = Create(TenantIsolation("document_metadata"))
      BY DEF Up0012
    <2>2. /\ 3 \in 1 .. Len(Up0012) /\ Up0012[3].op = "create"
          /\ Up0012[3].on = TenantIsolation("document_metadata")
      BY <2>1, CreateIs
    <2> QED
      BY <2>2, ScriptsAre, StatementMade
  <1>3. TenantIsolation("clustering_runs") \subseteq Made(17)
        /\ TenantIsolation("clusters") \subseteq Made(17)
    <2>1. /\ 8 \in 1 .. Len(Up0017) /\ 9 \in 1 .. Len(Up0017)
          /\ Up0017[8] = Create(TenantIsolation("clustering_runs"))
          /\ Up0017[9] = Create(TenantIsolation("clusters"))
      BY DEF Up0017
    <2>2. /\ 8 \in 1 .. Len(Up0017) /\ Up0017[8].op = "create"
          /\ Up0017[8].on = TenantIsolation("clustering_runs")
          /\ 9 \in 1 .. Len(Up0017) /\ Up0017[9].op = "create"
          /\ Up0017[9].on = TenantIsolation("clusters")
      BY <2>1, CreateIs
    <2> QED
      BY <2>2, ScriptsAre, StatementMade
  <1>4. TenantIsolation("llm_calls") \subseteq Made(18)
    <2>1. 3 \in 1 .. Len(Up0018) /\ Up0018[3] = Create(TenantIsolation("llm_calls"))
      BY DEF Up0018
    <2>2. /\ 3 \in 1 .. Len(Up0018) /\ Up0018[3].op = "create"
          /\ Up0018[3].on = TenantIsolation("llm_calls")
      BY <2>1, CreateIs
    <2> QED
      BY <2>2, ScriptsAre, StatementMade
  <1> QED
    BY <1>1, <1>2, <1>3, <1>4 DEF LaterTenantTables, Creator

\* Statement s takes object o away: by name, with its column or with its table.
Removes(s, o) ==
    \/ s.op \in {"drop", "drop_if_exists"}
       /\ \/ o \in s.on
          \/ \E c \in s.on : /\ c[1] = "column" /\ o[1] \in {"fk", "required"}
                           /\ o[2] = c[2] /\ o[3] = c[3]
    \/ s.op = "drop_table" /\ \E t \in s.on : o[2] = t[2]

\* Every statement of script p takes away something that script q created.
Undoes(p, r) ==
    \A i \in 1 .. Len(p) :
        /\ p[i].op \in {"drop", "drop_if_exists", "drop_table"}
        /\ \A o \in p[i].on :
              /\ Birth(o) = r
              /\ o[1] = "table" <=> p[i].op = "drop_table"
              /\ o[1] = "column" => o[3] \in DroppedColumns \cup {"cluster_id"}

\* A statement of script p that needs its objects finds them: no earlier one has
\* taken them away.
UndoesOnce(p) ==
    \A i \in 1 .. Len(p) : p[i].op # "drop_if_exists" =>
        \A o \in p[i].on : \A j \in 1 .. i - 1 : ~Removes(p[j], o)

\* Everything script q created is named by a statement of script p, or its table is.
UndoesAll(p, q) ==
    /\ \A i \in 1 .. Len(p) : \A o \in p[i].on : \E k \in 1 .. Len(q) : o \in q[k].on
    /\ \A k \in 1 .. Len(q) : \A o \in q[k].on :
          \E i \in 1 .. Len(p) : o \in p[i].on \/ Table(o[2]) \in p[i].on

\* The downgrades other than 0008, 0011 and 0014 drop what their upgrade created.
LEMMA DowngradesUndo ==
    \A r \in 1 .. 18 \ {8, 11, 14} : Undoes(Downgrades[r], r)
  <1> USE DEF Create, Table, Reference, Required, Index, Column, OfOrganisation, OfUser,
          TenantIsolation, Policy, CreateTable, Drop, DropIfExists, DropTable, Creator, Birth,
          TenantScopedTables, DroppedColumns, Undoes
  <1>1. Undoes(Down0001, 1)
    BY DEF Down0001
  <1>2. Undoes(Down0002, 2)
    BY DEF Down0002, DocumentIndexes
  <1>3. Undoes(Down0003, 3)
    BY DEF Down0003
  <1>4. Undoes(Down0004, 4)
    BY DEF Down0004
  <1>5. Undoes(Down0005, 5)
    BY DEF Down0005
  <1>6. Undoes(Down0006, 6)
    BY DEF Down0006
  <1>7. Undoes(Down0007, 7)
    BY DEF Down0007
  <1>8. Undoes(Down0009, 9)
    BY DEF Down0009
  <1>9. Undoes(Down0010, 10)
    BY DEF Down0010, Provenance
  <1>10. Undoes(Down0012, 12)
    BY DEF Down0012
  <1>11. Undoes(Down0013, 13)
    BY DEF Down0013
  <1>12. Undoes(Down0015, 15)
    BY DEF Down0015, Feedback
  <1>13. Undoes(Down0016, 16)
    BY OwnMembershipsReadIs DEF Down0016
  <1>14. Undoes(Down0017, 17)
    BY DEF Down0017, ClusterOfDocument
  <1>15. Undoes(Down0018, 18)
    BY DEF Down0018
  <1> HIDE DEF Undoes
  <1> SUFFICES ASSUME NEW r \in 1 .. 18 \ {8, 11, 14} PROVE Undoes(Downgrades[r], r)
    OBVIOUS
  <1> QED
    BY <1>1, <1>2, <1>3, <1>4, <1>5, <1>6, <1>7, <1>8, <1>9, <1>10, <1>11, <1>12, <1>13, <1>14,
       <1>15, ScriptsAre, RevisionsFrom1

\* And no downgrade drops anything twice.
LEMMA DowngradesUndoOnce ==
    \A r \in 1 .. 18 \ {8, 11, 14} : UndoesOnce(Downgrades[r])
  <1> USE DEF Create, Table, Reference, Required, Index, Column, OfOrganisation, OfUser,
          TenantIsolation, Policy, CreateTable, Drop, DropIfExists, DropTable, Removes, UndoesOnce
  <1>1. UndoesOnce(Down0001)
    BY DEF Down0001
  <1>2. UndoesOnce(Down0002)
    BY DEF Down0002, DocumentIndexes
  <1>3. UndoesOnce(Down0003)
    BY DEF Down0003
  <1>4. UndoesOnce(Down0004)
    BY DEF Down0004
  <1>5. UndoesOnce(Down0005)
    BY DEF Down0005
  <1>6. UndoesOnce(Down0006)
    BY DEF Down0006, TenantScopedTables
  <1>7. UndoesOnce(Down0007)
    BY DEF Down0007
  <1>8. UndoesOnce(Down0009)
    BY DEF Down0009
  <1>9. UndoesOnce(Down0010)
    BY DEF Down0010, Provenance
  <1>10. UndoesOnce(Down0012)
    BY DEF Down0012
  <1>11. UndoesOnce(Down0013)
    BY DEF Down0013
  <1>12. UndoesOnce(Down0015)
    BY DEF Down0015, Feedback
  <1>13. UndoesOnce(Down0016)
    BY DEF Down0016
  <1>14. UndoesOnce(Down0017)
    BY DEF Down0017, ClusterOfDocument
  <1>15. UndoesOnce(Down0018)
    BY DEF Down0018
  <1> HIDE DEF UndoesOnce
  <1> SUFFICES ASSUME NEW r \in 1 .. 18 \ {8, 11, 14} PROVE UndoesOnce(Downgrades[r])
    OBVIOUS
  <1> QED
    BY <1>1, <1>2, <1>3, <1>4, <1>5, <1>6, <1>7, <1>8, <1>9, <1>10, <1>11, <1>12, <1>13, <1>14,
       <1>15, ScriptsAre, RevisionsFrom1

\* And all of it: what the upgrade created is dropped, or its table is.
LEMMA DowngradesUndoAll ==
    \A r \in 1 .. 18 \ {8, 11, 14} : UndoesAll(Downgrades[r], Upgrades[r])
  <1> USE DEF Create, Table, Reference, Required, Index, Column, OfOrganisation, OfUser,
          TenantIsolation, Policy, CreateTable, Drop, DropIfExists, DropTable, UndoesAll
  <1>1. UndoesAll(Down0001, Up0001)
    <2>1. /\ \E i \in 1 .. Len(Down0001) : Table("organisations") \in Down0001[i].on
          /\ \E i \in 1 .. Len(Down0001) : Table("users") \in Down0001[i].on
          /\ \E i \in 1 .. Len(Down0001) : Table("org_memberships") \in Down0001[i].on
      BY DEF Down0001
    <2>2. \A k \in 1 .. Len(Up0001) : \A o \in Up0001[k].on : o[2] \in {"organisations", "users", "org_memberships"}
      BY DEF Up0001
    <2>3. \A i \in 1 .. Len(Down0001) : \A o \in Down0001[i].on :
              \E k \in 1 .. Len(Up0001) : o \in Up0001[k].on
      BY DEF Up0001, Down0001
    <2> QED
      BY <2>1, <2>2, <2>3
  <1>2. UndoesAll(Down0002, Up0002)
    <2>1. /\ \E i \in 1 .. Len(Down0002) : Table("documents") \in Down0002[i].on
          /\ \E i \in 1 .. Len(Down0002) : Table("chunks") \in Down0002[i].on
      BY DEF Down0002
    <2>2. \A k \in 1 .. Len(Up0002) : \A o \in Up0002[k].on : o[2] \in {"documents", "chunks"}
      BY DEF Up0002, DocumentIndexes
    <2>3. \A i \in 1 .. Len(Down0002) : \A o \in Down0002[i].on :
              \E k \in 1 .. Len(Up0002) : o \in Up0002[k].on
      BY DEF Up0002, Down0002, DocumentIndexes
    <2> QED
      BY <2>1, <2>2, <2>3
  <1>3. UndoesAll(Down0003, Up0003)
    BY DEF Up0003, Down0003
  <1>4. UndoesAll(Down0004, Up0004)
    BY DEF Up0004, Down0004
  <1>5. UndoesAll(Down0005, Up0005)
    <2>1. /\ \E i \in 1 .. Len(Down0005) : Table("job_progress") \in Down0005[i].on
          /\ \E i \in 1 .. Len(Down0005) : Table("audit_log") \in Down0005[i].on
      BY DEF Down0005
    <2>2. \A k \in 1 .. Len(Up0005) : \A o \in Up0005[k].on : o[2] \in {"job_progress", "audit_log"}
      BY DEF Up0005
    <2>3. \A i \in 1 .. Len(Down0005) : \A o \in Down0005[i].on :
              \E k \in 1 .. Len(Up0005) : o \in Up0005[k].on
      BY DEF Up0005, Down0005
    <2> QED
      BY <2>1, <2>2, <2>3
  <1>6. UndoesAll(Down0006, Up0006)
    BY DEF Up0006, Down0006
  <1>7. UndoesAll(Down0007, Up0007)
    BY DEF Up0007, Down0007
  <1>8. UndoesAll(Down0009, Up0009)
    BY DEF Up0009, Down0009
  <1>9. UndoesAll(Down0010, Up0010)
    BY DEF Up0010, Down0010, Provenance
  <1>10. UndoesAll(Down0012, Up0012)
    BY DEF Up0012, Down0012
  <1>11. UndoesAll(Down0013, Up0013)
    BY DEF Up0013, Down0013
  <1>12. UndoesAll(Down0015, Up0015)
    BY DEF Up0015, Down0015, Feedback
  <1>13. UndoesAll(Down0016, Up0016)
    BY DEF Up0016, Down0016
  <1>14. UndoesAll(Down0017, Up0017)
    <2>1. /\ Len(Down0017) = 8 /\ Len(Up0017) = 9
          /\ Down0017[1].on = Index("documents", {"org_cluster"}) /\ Up0017[7].on = Down0017[1].on
          /\ Down0017[2].on = ClusterOfDocument /\ Up0017[6].on = Down0017[2].on
          /\ Down0017[3].on = {Column("documents", "cluster_id")} /\ Up0017[5].on = Down0017[3].on
          /\ Down0017[5].on = Index("clusters", {"org_run"}) /\ Up0017[4].on = Down0017[5].on
          /\ Down0017[6].on = {Table("clusters")} /\ Down0017[6].on \subseteq Up0017[3].on
          /\ Down0017[7].on = Index("clustering_runs", {"org_created_at"})
          /\ Up0017[2].on = Down0017[7].on
          /\ Down0017[8].on = {Table("clustering_runs")} /\ Down0017[8].on \subseteq Up0017[1].on

          /\ Up0017[8].on = TenantIsolation("clustering_runs")

          /\ Up0017[9].on = TenantIsolation("clusters")
          /\ Down0017[4].on \subseteq Up0017[8].on \cup Up0017[9].on
      BY DEF Up0017, Down0017
    <2>2. /\ \A o \in Up0017[1].on \cup Up0017[2].on \cup Up0017[8].on : o[2] = "clustering_runs"
          /\ \A o \in Up0017[3].on \cup Up0017[4].on \cup Up0017[9].on : o[2] = "clusters"
      BY DEF Up0017
    <2>3. ASSUME NEW i \in 1 .. Len(Down0017), NEW o \in Down0017[i].on
          PROVE  \E k \in 1 .. Len(Up0017) : o \in Up0017[k].on
      <3>1. i = 1 \/ i = 2 \/ i = 3 \/ i = 4 \/ i = 5 \/ i = 6 \/ i = 7 \/ i = 8
        BY <2>1
      <3> HIDE DEF Index, Table, Column, TenantIsolation
      <3> QED
        BY <2>1, <3>1
    <2>4. ASSUME NEW k \in 1 .. Len(Up0017), NEW o \in Up0017[k].on
          PROVE  \E i \in 1 .. Len(Down0017) : o \in Down0017[i].on \/ Table(o[2]) \in Down0017[i].on
      <3>1. k = 1 \/ k = 2 \/ k = 3 \/ k = 4 \/ k = 5 \/ k = 6 \/ k = 7 \/ k = 8 \/ k = 9
        BY <2>1
      <3> HIDE DEF Index, Table, Column, TenantIsolation
      <3> QED
        BY <2>1, <2>2, <3>1
    <2> QED
      BY <2>3, <2>4
  <1>15. UndoesAll(Down0018, Up0018)
    BY DEF Up0018, Down0018
  <1> HIDE DEF UndoesAll
  <1> SUFFICES ASSUME NEW r \in 1 .. 18 \ {8, 11, 14} PROVE UndoesAll(Downgrades[r], Upgrades[r])
    OBVIOUS
  <1> QED
    BY <1>1, <1>2, <1>3, <1>4, <1>5, <1>6, <1>7, <1>8, <1>9, <1>10, <1>11, <1>12, <1>13, <1>14,
       <1>15, ScriptsAre, RevisionsFrom1

\* A table is dropped after the references of other tables to it.
LEMMA ReferencesFirst ==
    ASSUME NEW r \in 1 .. 18 \ {8, 11, 14}, NEW i \in 1 .. Len(Downgrades[r]),
           Downgrades[r][i].op = "drop_table", NEW o \in Downgrades[r][i].on,
           NEW f, Object(f, r), f[1] = "fk", Creator(f[4]) = r, f[4] = o[2], f[2] # o[2]
    PROVE  \E j \in 1 .. i - 1 : Removes(Downgrades[r][j], f)
  <1> DEFINE p == Downgrades[r]
  <1>1. /\ \A t : DropTable(t).op = "drop_table" /\ DropTable(t).on = {Table(t)}
        /\ \A O : Drop(O).op = "drop" /\ Drop(O).on = O
        /\ \A O : DropIfExists(O).op = "drop_if_exists"
        /\ \A t : Table(t)[2] = t
    BY DEF DropTable, Drop, DropIfExists, Table
  <1>2. /\ i \in 1 .. Len(p) /\ p[i].op = "drop_table" /\ o \in p[i].on
        /\ r = 1 => p = Down0001
        /\ r = 2 => p = Down0002
        /\ r = 3 => p = Down0003
        /\ r = 17 => p = Down0017
    BY ScriptsAre
  <1>3. \/ r = 1 /\ f[2] = "org_memberships"
        \/ r = 2 /\ f[2] = "chunks" /\ f[4] = "documents"
        \/ r = 3 /\ f \in {Reference("documents", "connector_id", "connectors")}
        \/ r = 17 /\ f[2] = "clusters" /\ f[4] = "clustering_runs"
        \/ r = 17 /\ f \in ClusterOfDocument
    BY DEF Object
  <1> HIDE DEF p
  <1>4. CASE r = 1 /\ f[2] = "org_memberships"
    <2>1. /\ Len(Down0001) = 4 /\ Down0001[1].op = "drop"
          /\ Down0001[2] = DropTable("org_memberships")
      BY <1>1 DEF Down0001
    <2>2. i \in 1 .. 4
      BY <1>2, <1>4, <2>1
    <2>3. i # 1 /\ i # 2
      BY <1>1, <1>2, <1>4, <2>1
    <2>4. Removes(p[2], f)
      BY <1>1, <1>2, <1>4, <2>1 DEF Removes
    <2> QED
      BY <2>2, <2>3, <2>4 DEF p
  <1>5. CASE r = 2 /\ f[2] = "chunks" /\ f[4] = "documents"
    <2>1. /\ Len(Down0002) = 5 /\ Down0002[1].op = "drop_if_exists" /\ Down0002[2].op = "drop"
          /\ Down0002[3] = DropTable("chunks")
      BY <1>1 DEF Down0002
    <2>2. i \in 1 .. 5
      BY <1>2, <1>5, <2>1
    <2>3. i # 1 /\ i # 2
      BY <1>1, <1>2, <1>5, <2>1
    <2>4. p[3].op = "drop_table" /\ p[3].on = {Table("chunks")}
      <3>1. p[3] = DropTable("chunks")
        BY <1>2, <1>5, <2>1
      <3> QED
        BY <1>1, <3>1
    <2>5. i # 3
      <3> SUFFICES ASSUME i = 3 PROVE FALSE
        OBVIOUS
      <3>1. o \in p[3].on
        BY <1>2
      <3>2. o[2] = "chunks"
        BY <1>1, <2>4, <3>1
      <3> QED
        BY <1>5, <3>2
    <2>6. Removes(p[3], f)
      BY <1>1, <1>5, <2>4 DEF Removes
    <2> QED
      BY <2>2, <2>3, <2>5, <2>6 DEF p
  <1>6. CASE r = 3 /\ f \in {Reference("documents", "connector_id", "connectors")}
    <2>1. /\ Len(Down0003) = 3
          /\ Down0003[1] = Drop({Reference("documents", "connector_id", "connectors")})
      BY DEF Down0003
    <2>2. i \in 1 .. 3
      BY <1>2, <1>6, <2>1
    <2>3. i # 1
      BY <1>1, <1>2, <1>6, <2>1
    <2>4. Removes(p[1], f)
      BY <1>1, <1>2, <1>6, <2>1 DEF Removes
    <2> QED
      BY <2>2, <2>3, <2>4 DEF p
  <1>7. CASE r = 17 /\ f[2] = "clusters" /\ f[4] = "clustering_runs"
    <2>1. /\ Len(Down0017) = 8 /\ Down0017[1].op = "drop" /\ Down0017[2].op = "drop"
          /\ Down0017[3].op = "drop" /\ Down0017[4].op = "drop_if_exists" /\ Down0017[5].op = "drop"
          /\ Down0017[6] = DropTable("clusters")
      BY <1>1 DEF Down0017
    <2>2. i \in 1 .. 8
      BY <1>2, <1>7, <2>1
    <2>3. i # 1 /\ i # 2 /\ i # 3 /\ i # 4 /\ i # 5
      BY <1>1, <1>2, <1>7, <2>1
    <2>4. p[6].op = "drop_table" /\ p[6].on = {Table("clusters")}
      <3>1. p[6] = DropTable("clusters")
        BY <1>2, <1>7, <2>1
      <3> QED
        BY <1>1, <3>1
    <2>5. i # 6
      <3> SUFFICES ASSUME i = 6 PROVE FALSE
        OBVIOUS
      <3>1. o \in p[6].on
        BY <1>2
      <3>2. o[2] = "clusters"
        BY <1>1, <2>4, <3>1
      <3> QED
        BY <1>7, <3>2
    <2>6. Removes(p[6], f)
      BY <1>1, <1>7, <2>4 DEF Removes
    <2> QED
      BY <2>2, <2>3, <2>5, <2>6 DEF p
  <1>8. CASE r = 17 /\ f \in ClusterOfDocument
    <2>1. Len(Down0017) = 8 /\ Down0017[1].op = "drop" /\ Down0017[2] = Drop(ClusterOfDocument)
      BY <1>1 DEF Down0017
    <2>2. i \in 1 .. 8
      BY <1>2, <1>8, <2>1
    <2>3. i # 1 /\ i # 2
      BY <1>1, <1>2, <1>8, <2>1
    <2>4. Removes(p[2], f)
      BY <1>1, <1>2, <1>8, <2>1 DEF Removes
    <2> QED
      BY <2>2, <2>3, <2>4 DEF p
  <1> QED
    BY <1>3, <1>4, <1>5, <1>6, <1>7, <1>8 DEF p

-----------------------------------------------------------------------------
(* What one statement does to a schema.                                    *)
\* One statement of a script, after a schema.
After(S, s) == IF S = Refused \/ ~Accepts(S, s) THEN Refused ELSE Execute(S, s)

\* Run goes through the statements one after the other.
LEMMA RunIsChain ==
    ASSUME NEW S, NEW p, Len(p) \in Nat
    PROVE  \E w : /\ w[0] = S /\ w[Len(p)] = Run(S, p)
                  /\ \A i \in 1 .. Len(p) : w[i] = After(w[i - 1], p[i])
  <1> DEFINE n == Len(p)
             Step(g, m) == [i \in 0 .. m |-> IF i = 0 THEN S ELSE After(g[i - 1], p[i])]
             w == CHOOSE g : g = Step(g, n)
             Built == {m \in Nat : \E g : g = Step(g, m)}
  <1>1. Run(S, p) = w[n]
    BY Zenon DEF Run, After
  <1>2. 0 \in Built
    <2> DEFINE g == [i \in 0 .. 0 |-> S]
    <2>1. g = Step(g, 0)
      OBVIOUS
    <2> QED
      BY <2>1
  <1>3. ASSUME NEW m \in Nat, m \in Built PROVE m + 1 \in Built
    <2>1. PICK g : g = Step(g, m)
      BY <1>3
    <2> DEFINE h == Step(g, m + 1)
    <2>2. \A i \in 0 .. m : h[i] = g[i]
      BY <2>1
    <2>3. \A i \in 0 .. m + 1 : i # 0 => i - 1 \in 0 .. m
      OBVIOUS
    <2>4. h = Step(h, m + 1)
      BY <2>2, <2>3
    <2> HIDE DEF h, Step
    <2> QED
      BY <2>4
  <1>4. n \in Built
    <2> HIDE DEF Built
    <2> QED
      BY <1>2, <1>3, SetInduction
  <1>5. w = Step(w, n)
    BY <1>4
  <1> HIDE DEF w
  <1>6. w[0] = S /\ \A i \in 1 .. n : w[i] = After(w[i - 1], p[i])
    BY <1>5
  <1> QED
    BY <1>1, <1>6

\* The kinds of objects, and the tables they belong to.
LEMMA Kinds ==
    /\ \A t, role : Grant(t, role)[1] = "grant" /\ Grant(t, role)[2] = t /\ Grant(t, role)[3] = role
    /\ \A role : /\ DefaultGrant(role)[1] = "default" /\ DefaultGrant(role)[2] = "public"
                 /\ DefaultGrant(role)[3] = role
    /\ \A role : Role(role)[1] = "role" /\ Role(role)[2] = "cluster" /\ Role(role)[3] = role
    /\ \A t : Table(t)[1] = "table" /\ Table(t)[2] = t
    /\ \A t, c : Required(t, c)[1] = "required" /\ Required(t, c)[2] = t
    /\ \A e : Extension(e)[1] = "extension" /\ Extension(e)[2] = "database"
    /\ UnembeddedChunks[1] = "rows" /\ Plain[1] = "index"
  BY DEF Grant, DefaultGrant, Role, Table, Required, Extension, UnembeddedChunks, Plain

\* A table is the object of that kind.
LEMMA TableIsObject == \A S, t : t \in Tables(S) <=> \E o \in S : o[1] = "table" /\ o[2] = t
  BY DEF Tables

\* A schema with grants is not the refusal.
LEMMA GrantsIsSchema == \A S, q : Grants(S, q) => S # Refused
  <1> SUFFICES ASSUME NEW S, NEW q, Grants(S, q) PROVE S # Refused
    OBVIOUS
  <1>1. DefaultGrant("unstash_app") \in S
    BY DEF Grants, Granted
  <1>2. \A o \in Refused : o[1] = "refused"
    BY DEF Refused
  <1> QED
    BY <1>1, <1>2, Kinds

\* A CREATE adds its objects, and the grants of its tables to the roles with the
\* default privileges.
LEMMA CreateStep ==
    ASSUME NEW S, NEW s, NEW q, Grants(S, q), s.op = "create",
           \A o \in s.on : o[1] \notin {"role", "rows", "grant", "default"}
    PROVE  /\ Objects(Execute(S, s)) = Objects(S) \cup s.on
           /\ Grants(Execute(S, s), q)
           /\ \A o : o[1] \in {"role", "rows"} => (o \in Execute(S, s) <=> o \in S)
  <1> DEFINE T == Execute(S, s)
  <1>1. T = S \cup s.on \cup {Grant(t, o[3]) : t \in Tables(s.on), o \in {x \in S : x[1] = "default"}}
    BY DEF Execute
  <1>2. \A o : o \in T <=> \/ o \in S \/ o \in s.on
                           \/ \E t \in Tables(s.on), d \in S : d[1] = "default" /\ o = Grant(t, d[3])
    BY <1>1
  <1> HIDE DEF T
  <1>3. Objects(T) = Objects(S) \cup s.on
    BY <1>2, Kinds DEF Objects
  <1>4. \A o : o[1] \in {"role", "rows"} => (o \in T <=> o \in S)
    BY <1>2, Kinds
  <1>5. \A t : t \in Tables(T) <=> t \in Tables(S) \/ t \in Tables(s.on)
    BY <1>2, Kinds, TableIsObject
  <1>6. ASSUME NEW role, Granted(S, role) PROVE Granted(T, role)
    BY <1>2, <1>5, <1>6, Kinds DEF Granted
  <1>7. ASSUME NEW o \in T, o[1] = "default" PROVE \E role \in BothRoles : o = DefaultGrant(role)
    BY <1>2, <1>7, Kinds DEF Grants
  <1>8. ASSUME NEW o \in T, o[1] = "grant"
        PROVE  \E t \in Tables(T), role \in BothRoles : o = Grant(t, role)
    <2>1. CASE o \in S
      BY <1>5, <1>8, <2>1 DEF Grants
    <2>2. CASE o \notin S
      <3>1. PICK t \in Tables(s.on), d \in S : d[1] = "default" /\ o = Grant(t, d[3])
        BY <1>2, <1>8, <2>2
      <3>2. d[3] \in BothRoles
        BY <3>1, Kinds DEF Grants
      <3> QED
        BY <1>5, <3>1, <3>2
    <2> QED
      BY <2>1, <2>2
  <1>9. Grants(T, q)
    BY <1>6, <1>7, <1>8 DEF Grants
  <1> QED
    BY <1>3, <1>4, <1>9 DEF T

\* A DROP takes its objects and what depends on them, and leaves no grant behind on
\* a table that is gone.
LEMMA RemoveStep ==
    ASSUME NEW S, NEW s, NEW q, Grants(S, q),
           s.op \in {"drop", "drop_if_exists", "drop_table"},
           \A o \in s.on : /\ o[1] \notin {"role", "grant", "default"}
                           /\ o[1] = "table" <=> s.op = "drop_table"
                           /\ s.op = "drop_table" => o[2] # "public"
    PROVE  /\ \A o : o \in Execute(S, s) <=> o \in S /\ ~Removes(s, o)
           /\ Grants(Execute(S, s), q)
  <1> DEFINE T == Execute(S, s)
  <1>1. \A o : o \in T <=> o \in S /\ ~Removes(s, o)
    BY DEF Execute, Removes
  <1> HIDE DEF T
  <1>2. \A t : t \in Tables(T) => t \in Tables(S) /\ \A role : ~Removes(s, Grant(t, role))
    BY <1>1, Kinds, TableIsObject DEF Removes
  <1>3. \A role : ~Removes(s, DefaultGrant(role))
    BY Kinds DEF Removes
  <1>4. ASSUME NEW role, Granted(S, role) PROVE Granted(T, role)
    BY <1>1, <1>2, <1>3, <1>4 DEF Granted
  <1>5. ASSUME NEW o \in T, o[1] = "default" PROVE \E role \in BothRoles : o = DefaultGrant(role)
    BY <1>1, <1>5 DEF Grants
  <1>6. ASSUME NEW o \in T, o[1] = "grant"
        PROVE  \E t \in Tables(T), role \in BothRoles : o = Grant(t, role)
    <2>1. o \in S /\ ~Removes(s, o)
      BY <1>1
    <2>2. PICK t \in Tables(S), role \in BothRoles : o = Grant(t, role)
      BY <1>6, <2>1 DEF Grants
    <2>3. PICK x \in S : x[1] = "table" /\ x[2] = t
      BY TableIsObject
    <2>4. ~Removes(s, x)
      BY <2>1, <2>2, <2>3, Kinds DEF Removes
    <2>5. t \in Tables(T)
      BY <1>1, <2>3, <2>4, TableIsObject
    <2> QED
      BY <2>2, <2>5
  <1>7. Grants(T, q)
    BY <1>4, <1>5, <1>6 DEF Grants
  <1> QED
    BY <1>1, <1>7 DEF T

\* The extensions come with the database.
LEMMA ExtensionsAre == \A o \in RequiredExtensions : o[1] = "extension" /\ Birth(o) = 0
  BY DEF RequiredExtensions, Extension, Birth, Creator

\* An object of a revision comes with the database or from the script of its birth.
LEMMA AtRevision ==
    ASSUME NEW r \in 0 .. 18, NEW o \in ObjectsAt(r)
    PROVE  \/ o \in RequiredExtensions
           \/ Birth(o) \in 1 .. r /\ o \in Made(Birth(o)) /\ Object(o, Birth(o))
  <1> SUFFICES ASSUME NEW q \in 1 .. r, o \in Made(q)
               PROVE  Birth(o) = q /\ Object(o, q)
    BY DEF ObjectsAt
  <1>1. Object(o, q)
    BY ObjectsOfScripts
  <1> QED
    BY <1>1 DEF Object

\* The tables of a revision are those whose creator has run.
LEMMA TablesAt ==
    ASSUME NEW r \in 0 .. 18, NEW S, Objects(S) = ObjectsAt(r)
    PROVE  \A t : /\ t \in Tables(S) <=> Creator(t) \in 1 .. r
                  /\ t \in Tables(S) <=> Table(t) \in S
  <1> SUFFICES ASSUME NEW t
               PROVE  /\ t \in Tables(S) => Creator(t) \in 1 .. r
                      /\ Creator(t) \in 1 .. r => Table(t) \in S
                      /\ Table(t) \in S => t \in Tables(S)
    OBVIOUS
  <1>1. Table(t) \in S => t \in Tables(S)
    BY TableIsObject, Kinds
  <1>2. ASSUME t \in Tables(S) PROVE Creator(t) \in 1 .. r
    <2>1. PICK o \in S : o[1] = "table" /\ o[2] = t
      BY <1>2, TableIsObject
    <2>2. o \in ObjectsAt(r)
      BY <2>1 DEF Objects
    <2>3. Birth(o) \in 1 .. r /\ Object(o, Birth(o))
      BY <2>1, <2>2, AtRevision, ExtensionsAre
    <2> QED
      BY <2>1, <2>3 DEF Object
  <1>3. ASSUME Creator(t) \in 1 .. r PROVE Table(t) \in S
    <2>1. Table(t) \in Made(Creator(t))
      BY <1>3, TableMade
    <2>2. Table(t) # Required("chunks", "embedding") /\ Table(t) # Plain
      BY Kinds
    <2>3. Table(t) \in ObjectsAt(r)
      BY <1>3, <2>1, <2>2 DEF ObjectsAt
    <2> QED
      BY <2>3 DEF Objects
  <1> QED
    BY <1>1, <1>2, <1>3

-----------------------------------------------------------------------------
(* Upgrades that only create: all but 0008, 0011 and 0014.                 *)
\* The scripts are finite.
LEMMA ScriptLengths ==
    \A r \in 1 .. 18 : Len(Upgrades[r]) \in Nat /\ Len(Downgrades[r]) \in Nat
  <1>1. /\ Len(Up0001) = 4 /\ Len(Up0002) = 5 /\ Len(Up0003) = 3 /\ Len(Up0004) = 2 /\ Len(Up0005) = 4
        /\ Len(Up0006) = 1 /\ Len(Up0007) = 2 /\ Len(Up0008) = 1 /\ Len(Up0009) = 2 /\ Len(Up0010) = 1
        /\ Len(Up0011) = 1 /\ Len(Up0012) = 3 /\ Len(Up0013) = 1 /\ Len(Up0014) = 2 /\ Len(Up0015) = 1
        /\ Len(Up0016) = 1 /\ Len(Up0017) = 9 /\ Len(Up0018) = 3
    BY DEF Up0001, Up0002, Up0003, Up0004, Up0005, Up0006, Up0007, Up0008, Up0009, Up0010, Up0011,
           Up0012, Up0013, Up0014, Up0015, Up0016, Up0017, Up0018
  <1>2. /\ Len(Down0001) = 4 /\ Len(Down0002) = 5 /\ Len(Down0003) = 3 /\ Len(Down0004) = 2
        /\ Len(Down0005) = 4 /\ Len(Down0006) = 1 /\ Len(Down0007) = 2 /\ Len(Down0008) = 1
        /\ Len(Down0009) = 2 /\ Len(Down0010) = 1 /\ Len(Down0011) = 2 /\ Len(Down0012) = 3
        /\ Len(Down0013) = 1 /\ Len(Down0014) = 2 /\ Len(Down0015) = 1 /\ Len(Down0016) = 1
        /\ Len(Down0017) = 8 /\ Len(Down0018) = 3
    BY DEF Down0001, Down0002, Down0003, Down0004, Down0005, Down0006, Down0007, Down0008,
       Down0009,
           Down0010, Down0011, Down0012, Down0013, Down0014, Down0015, Down0016, Down0017, Down0018
  <1> QED
    BY <1>1, <1>2, ScriptsAre, RevisionsFrom1

\* The objects the first i statements of script p create.
MadeBy(p, i) == UNION {p[j].on : j \in 1 .. i}

\* What a schema in the middle of a script that only creates looks like.
Amid(S, T, p, i, q) ==
    /\ Objects(T) = Objects(S) \cup MadeBy(p, i)
    /\ Grants(T, q)
    /\ \A o : o[1] \in {"role", "rows"} => (o \in T <=> o \in S)

\* What the statements of such an upgrade name.
LEMMA CreatesOfRevision ==
    ASSUME NEW r \in 1 .. 18 \ {8, 11, 14}, NEW i \in 1 .. Len(Upgrades[r]), NEW o \in Upgrades[r][i].on
    PROVE  Upgrades[r][i].op = "create" /\ o \in Made(r) /\ Object(o, r)
  <1>1. Upgrades[r][i].op = "create"
    BY UpgradesCreate DEF Creates
  <1>2. o \in Made(r)
    BY <1>1, StatementMade
  <1> QED
    BY <1>1, <1>2, ObjectsOfScripts

\* No statement of such an upgrade is refused: what it creates is not there yet,
\* and the tables it needs are.
LEMMA CreateIsAccepted ==
    ASSUME NEW r \in 1 .. 18 \ {8, 11, 14}, NEW S, IsAt(S, r - 1), NEW q,
           NEW i \in 1 .. Len(Upgrades[r]), NEW T, Amid(S, T, Upgrades[r], i - 1, q)
    PROVE  Accepts(T, Upgrades[r][i])
  <1> DEFINE p == Upgrades[r]
             s == Upgrades[r][i]
  <1>1. i \in Nat \ {0}
    <2>1. Len(Upgrades[r]) \in Nat
      BY ScriptLengths
    <2> QED
      BY <2>1
  <1>2. s.op = "create" /\ \A o \in s.on : o \in Made(r) /\ Object(o, r)
    BY UpgradesCreate, CreatesOfRevision DEF Creates
  <1>3. \A o \in s.on : /\ \A j \in 1 .. i - 1 : o \notin p[j].on
                        /\ Creator(o[2]) = r => \E j \in 1 .. i : Table(o[2]) \in p[j].on
                        /\ o[1] = "fk" /\ Creator(o[4]) = r => \E j \in 1 .. i : Table(o[4]) \in p[j].on
    BY UpgradesCreate DEF Creates
  <1>4. ASSUME NEW t, Creator(t) \in 1 .. r, Creator(t) = r => \E j \in 1 .. i : Table(t) \in p[j].on
        PROVE  t \in Tables(T \cup s.on)
    <2>1. CASE Creator(t) = r
      <3>1. PICK j \in 1 .. i : Table(t) \in p[j].on
        BY <1>4, <2>1
      <3>2. Table(t) \in MadeBy(p, i - 1) \/ Table(t) \in s.on
        BY <1>1, <3>1 DEF MadeBy
      <3>3. Table(t) \in T \cup s.on
        BY <3>2 DEF Amid, Objects
      <3> QED
        BY <3>3, TableIsObject, Kinds
    <2>2. CASE Creator(t) # r
      <3>1. Creator(t) \in 1 .. r - 1 /\ r - 1 \in 0 .. 18
        BY <1>4, <2>2
      <3>2. Table(t) \in S
        BY <3>1, TablesAt DEF IsAt
      <3>3. Table(t) \in T
        BY <3>2, Kinds DEF Amid, Objects
      <3> QED
        BY <3>3, TableIsObject, Kinds
    <2> QED
      BY <2>1, <2>2
  <1>5. ASSUME NEW o \in s.on, o \in T PROVE FALSE
    <2>1. o \in Objects(T)
      BY <1>2, <1>5 DEF Objects, Object
    <2>2. o \notin MadeBy(p, i - 1)
      BY <1>3 DEF MadeBy
    <2>3. o \in ObjectsAt(r - 1)
      BY <2>1, <2>2 DEF Amid, IsAt
    <2>4. Birth(o) = r
      BY <1>2 DEF Object
    <2>5. r - 1 \in 0 .. 18
      OBVIOUS
    <2>6. Birth(o) = 0 \/ Birth(o) \in 1 .. r - 1
      BY <2>3, <2>5, AtRevision, ExtensionsAre
    <2> QED
      BY <2>4, <2>6
  <1>6. Required("chunks", "embedding") \in s.on => UnembeddedChunks \notin T
    <2> SUFFICES ASSUME Required("chunks", "embedding") \in s.on PROVE UnembeddedChunks \notin T
      OBVIOUS
    <2>1. Birth(Required("chunks", "embedding")) = r
      BY <1>2 DEF Object
    <2>2. Birth(Required("chunks", "embedding")) = 2
      BY DEF Birth, Required, Creator
    <2>3. UnembeddedChunks \notin S
      BY <2>1, <2>2 DEF IsAt
    <2> QED
      BY <2>3, Kinds DEF Amid
  <1>7. \A o \in s.on : o[2] \in Tables(T \cup s.on)
    BY <1>2, <1>3, <1>4 DEF Object
  <1>8. \A o \in s.on : o[1] = "fk" => o[4] \in Tables(T \cup s.on)
    BY <1>2, <1>3, <1>4 DEF Object
  <1>9. s.on \cap T = {}
    BY <1>5
  <1> HIDE DEF s
  <1>10. Accepts(T, s)
    BY <1>2, <1>6, <1>7, <1>8, <1>9 DEF Accepts
  <1> QED
    BY <1>10 DEF s

\* Such an upgrade adds what its statements create, and the grants that go with it.
LEMMA UpgradeCreates ==
    ASSUME NEW r \in 1 .. 18 \ {8, 11, 14}, NEW S, IsAt(S, r - 1)
    PROVE  Amid(S, Run(S, Upgrades[r]), Upgrades[r], Len(Upgrades[r]), r - 1)
  <1> DEFINE p == Upgrades[r]
             n == Len(Upgrades[r])
             q == r - 1
  <1>1. n \in Nat
    BY ScriptLengths
  <1>2. PICK w : /\ w[0] = S /\ w[n] = Run(S, p)
                 /\ \A i \in 1 .. n : w[i] = After(w[i - 1], p[i])
    <2> HIDE DEF p
    <2>1. Len(p) \in Nat
      BY <1>1 DEF p
    <2> QED
      BY <2>1, RunIsChain DEF p
  <1>3. Grants(S, q)
    BY DEF IsAt, Grants
  <1> DEFINE P == {i \in Nat : i <= n => Amid(S, w[i], p, i, q)}
  <1>4. 0 \in P
    <2>1. MadeBy(p, 0) = {}
      BY DEF MadeBy
    <2>2. Amid(S, w[0], p, 0, q)
      BY <1>2, <1>3, <2>1 DEF Amid
    <2> QED
      BY <2>2
  <1> HIDE DEF q
  <1>5. ASSUME NEW i \in Nat, i \in P PROVE i + 1 \in P
    <2> SUFFICES ASSUME i + 1 <= n PROVE Amid(S, w[i + 1], p, i + 1, q)
      OBVIOUS
    <2>1. i + 1 \in 1 .. n /\ (i + 1) - 1 = i /\ Amid(S, w[i], p, i, q)
      BY <1>1, <1>5
    <2> DEFINE s == p[i + 1]
    <2>2. Accepts(w[i], s)
      BY <2>1, CreateIsAccepted
    <2>3. w[i] # Refused
      BY <2>1, GrantsIsSchema DEF Amid
    <2>4. w[i + 1] = Execute(w[i], s)
      BY <1>2, <2>1, <2>2, <2>3 DEF After
    <2>5. s.op = "create" /\ \A o \in s.on : o[1] \notin {"role", "rows", "grant", "default"}
      <3>1. s.op = "create"
        BY <2>1, UpgradesCreate DEF Creates
      <3>2. \A o \in s.on : Object(o, r)
        BY <2>1, CreatesOfRevision
      <3> QED
        BY <3>1, <3>2 DEF Object
    <2>6. /\ Objects(w[i + 1]) = Objects(w[i]) \cup s.on
          /\ Grants(w[i + 1], q)
          /\ \A o : o[1] \in {"role", "rows"} => (o \in w[i + 1] <=> o \in w[i])
      <3>1. Grants(w[i], q)
        BY <2>1 DEF Amid
      <3> DEFINE v == w[i]
      <3>2. Grants(v, q)
        BY <3>1
      <3> HIDE DEF s, v
      <3>3. /\ Objects(Execute(v, s)) = Objects(v) \cup s.on
            /\ Grants(Execute(v, s), q)
            /\ \A o : o[1] \in {"role", "rows"} => (o \in Execute(v, s) <=> o \in v)
        BY <1>3, <2>5, <3>2, CreateStep
      <3> QED
        BY <2>4, <3>3 DEF v
    <2>7. MadeBy(p, i + 1) = MadeBy(p, i) \cup s.on
      <3>1. \A j : j \in 1 .. i + 1 <=> j \in 1 .. i \/ j = i + 1
        OBVIOUS
      <3> QED
        BY <3>1 DEF MadeBy
    <2> QED
      BY <2>1, <2>6, <2>7 DEF Amid
  <1>6. n \in P
    <2> HIDE DEF P
    <2> QED
      BY <1>1, <1>4, <1>5, SetInduction
  <1> QED
    BY <1>1, <1>2, <1>6 DEF q

-----------------------------------------------------------------------------
(* The scripts that do something else.                                     *)
\* A script of one statement.
LEMMA RunOne == \A S, p : Len(p) = 1 => Run(S, p) = After(S, p[1])
  <1> SUFFICES ASSUME NEW S, NEW p, Len(p) = 1 PROVE Run(S, p) = After(S, p[1])
    OBVIOUS
  <1>1. Len(p) \in Nat
    OBVIOUS
  <1>2. PICK w : /\ w[0] = S /\ w[Len(p)] = Run(S, p)
                 /\ \A i \in 1 .. Len(p) : w[i] = After(w[i - 1], p[i])
    BY <1>1, RunIsChain
  <1>3. 1 - 1 = 0 /\ 1 \in 1 .. 1
    OBVIOUS
  <1> QED
    BY <1>2, <1>3

\* A script of two statements.
LEMMA RunTwo == \A S, p : Len(p) = 2 => Run(S, p) = After(After(S, p[1]), p[2])
  <1> SUFFICES ASSUME NEW S, NEW p, Len(p) = 2 PROVE Run(S, p) = After(After(S, p[1]), p[2])
    OBVIOUS
  <1>1. Len(p) \in Nat
    OBVIOUS
  <1>2. PICK w : /\ w[0] = S /\ w[Len(p)] = Run(S, p)
                 /\ \A i \in 1 .. Len(p) : w[i] = After(w[i - 1], p[i])
    BY <1>1, RunIsChain
  <1>3. 1 - 1 = 0 /\ 2 - 1 = 1 /\ 1 \in 1 .. 2 /\ 2 \in 1 .. 2
    OBVIOUS
  <1> QED
    BY <1>2, <1>3

\* 0008, 0011 and 0014, the scripts that do more or something else than create.
LEMMA SpecialScripts ==
    /\ Len(Up0008) = 1 /\ Up0008[1] = GrantAll("unstash_admin")
    /\ Len(Down0008) = 1 /\ Down0008[1] = RevokeAll("unstash_admin")
    /\ Len(Up0011) = 1 /\ Up0011[1] = Drop({Required("chunks", "embedding")})
    /\ Len(Down0011) = 2 /\ Down0011[1] = DropIfExists({UnembeddedChunks})
    /\ Down0011[2] = Create({Required("chunks", "embedding")})
    /\ Len(Up0014) = 2 /\ Up0014[1] = DropIfExists({Plain}) /\ Up0014[2] = Create({Stemmed})
    /\ Len(Down0014) = 2 /\ Down0014[1] = DropIfExists({Stemmed}) /\ Down0014[2] = Create({Plain})
  <1>1. Index("chunks", {"text_bm25"}) = {Plain}
    BY DEF Index, Plain
  <1> QED
    BY <1>1 DEF Up0008, Down0008, Up0011, Down0011, Up0014, Down0014

\* The fields of the other statements.
LEMMA StatementIs ==
    \A O, role :
        /\ Drop(O).op = "drop" /\ Drop(O).on = O
        /\ DropIfExists(O).op = "drop_if_exists" /\ DropIfExists(O).on = O
        /\ GrantAll(role).op = "grant" /\ GrantAll(role).on = {DefaultGrant(role)}
        /\ RevokeAll(role).op = "revoke" /\ RevokeAll(role).on = {DefaultGrant(role)}
  BY DEF Drop, DropIfExists, GrantAll, RevokeAll

\* What 0008, 0011 and 0014 create, and what they drop.
LEMMA SpecialMade ==
    /\ Made(8) = {} /\ Made(11) = {} /\ Made(14) = {Stemmed}
    /\ Birth(Required("chunks", "embedding")) = 2 /\ Required("chunks", "embedding") \in Made(2)
    /\ Birth(Plain) = 2 /\ Plain \in Made(2)
    /\ Birth(Stemmed) = 14
  <1>1. Made(8) = {} /\ Made(11) = {}
    BY ScriptsAre, SpecialScripts, StatementIs DEF Made
  <1>2. Made(14) = {Stemmed}
    <2>1. \A i \in 1 .. Len(Up0014) : Up0014[i].op = "create" => Up0014[i].on = {Stemmed}
      BY SpecialScripts, StatementIs, CreateIs
    <2>2. 2 \in 1 .. Len(Up0014) /\ Up0014[2].op = "create" /\ Up0014[2].on = {Stemmed}
      BY SpecialScripts, CreateIs
    <2>3. Stemmed \in Made(14)
      BY <2>2, ScriptsAre, StatementMade
    <2>4. \A o \in Made(14) : o = Stemmed
      BY <2>1, ScriptsAre DEF Made
    <2> QED
      BY <2>3, <2>4
  <1>3. Required("chunks", "embedding") \in Made(2) /\ Plain \in Made(2)
    <2>1. /\ 4 \in 1 .. Len(Up0002) /\ Up0002[4] = Create({Required("chunks", "embedding")})
          /\ 5 \in 1 .. Len(Up0002)
          /\ Up0002[5] = Create(Index("chunks", {"org_document_index", "embedding_diskann", "text_bm25"}))
      BY DEF Up0002
    <2>2. Plain \in Index("chunks", {"org_document_index", "embedding_diskann", "text_bm25"})
      BY DEF Index, Plain
    <2>3. /\ Up0002[4].op = "create" /\ Required("chunks", "embedding") \in Up0002[4].on
          /\ Up0002[5].op = "create" /\ Plain \in Up0002[5].on
      BY <2>1, <2>2, CreateIs
    <2> QED
      BY <2>1, <2>3, ScriptsAre, StatementMade
  <1>4. Birth(Required("chunks", "embedding")) = 2 /\ Birth(Plain) = 2
    BY DEF Birth, Required, Plain, Creator
  <1>5. Birth(Stemmed) = 14
    BY DEF Birth, Stemmed
  <1> QED
    BY <1>1, <1>2, <1>3, <1>4, <1>5

\* From one revision to the next.
LEMMA ObjectsGrow ==
    /\ \A r \in 1 .. 18 \ {11, 14} : ObjectsAt(r) = ObjectsAt(r - 1) \cup Made(r)
    /\ ObjectsAt(11) = ObjectsAt(10) \ {Required("chunks", "embedding")}
    /\ ObjectsAt(14) = (ObjectsAt(13) \ {Plain}) \cup {Stemmed}
  <1>1. ASSUME NEW r \in 1 .. 18, NEW o, o \in Made(r)
        PROVE  /\ r # 2 => o # Required("chunks", "embedding") /\ o # Plain
               /\ o = Stemmed => r = 14
    <2>1. Birth(o) = r
      BY <1>1, ObjectsOfScripts DEF Object
    <2> QED
      BY <2>1, SpecialMade
  <1>2. \A r \in 1 .. 18 : UNION {Made(q) : q \in 1 .. r} =
                               (UNION {Made(q) : q \in 1 .. r - 1}) \cup Made(r)
    <2> SUFFICES ASSUME NEW r \in 1 .. 18
                 PROVE  UNION {Made(q) : q \in 1 .. r} =
                        (UNION {Made(q) : q \in 1 .. r - 1}) \cup Made(r)
      OBVIOUS
    <2>1. \A q : q \in 1 .. r <=> q \in 1 .. r - 1 \/ q = r
      OBVIOUS
    <2> QED
      BY <2>1
  <1>3. ASSUME NEW r \in 1 .. 18 \ {11, 14} PROVE ObjectsAt(r) = ObjectsAt(r - 1) \cup Made(r)
    <2>1. /\ r >= 11 <=> r - 1 >= 11
          /\ r >= 14 <=> r - 1 >= 14
      OBVIOUS
    <2>2. \A o \in Made(r) : /\ r >= 11 => o # Required("chunks", "embedding")
                             /\ r >= 14 => o # Plain
      BY <1>1
    <2> QED
      BY <1>2, <2>1, <2>2 DEF ObjectsAt
  <1>4. ObjectsAt(11) = ObjectsAt(10) \ {Required("chunks", "embedding")}
    <2>1. UNION {Made(q) : q \in 1 .. 11} = UNION {Made(q) : q \in 1 .. 10}
      <3>1. UNION {Made(q) : q \in 1 .. 11} = (UNION {Made(q) : q \in 1 .. 11 - 1}) \cup Made(11)
        BY <1>2
      <3> QED
        BY <3>1, SpecialMade
    <2> QED
      BY <2>1 DEF ObjectsAt
  <1>5. ObjectsAt(14) = (ObjectsAt(13) \ {Plain}) \cup {Stemmed}
    <2>1. UNION {Made(q) : q \in 1 .. 14} = (UNION {Made(q) : q \in 1 .. 13}) \cup {Stemmed}
      <3>1. UNION {Made(q) : q \in 1 .. 14} = (UNION {Made(q) : q \in 1 .. 14 - 1}) \cup Made(14)
        BY <1>2
      <3> QED
        BY <3>1, SpecialMade
    <2>2. Stemmed # Plain /\ Stemmed # Required("chunks", "embedding")
      BY SpecialMade
    <2> QED
      BY <2>1, <2>2 DEF ObjectsAt
  <1> QED
    BY <1>3, <1>4, <1>5

-----------------------------------------------------------------------------
(* Every upgrade.                                                          *)
\* Schema T is what a script that takes S to revision r is to leave.
Reaches(S, T, r) ==
    /\ IsAt(T, r) /\ T # Refused
    /\ Role("unstash_admin") \in S => Role("unstash_admin") \in T

\* An upgrade that only creates leads from a schema of its predecessor to one of its
\* own revision.
LEMMA UpgradeNormal ==
    ASSUME NEW r \in 1 .. 18 \ {8, 11, 14}, NEW S, IsAt(S, r - 1)
    PROVE  Reaches(S, Run(S, Upgrades[r]), r)
  <1> DEFINE p == Upgrades[r]
             T == Run(S, Upgrades[r])
  <1>1. Amid(S, T, p, Len(p), r - 1)
    BY UpgradeCreates
  <1>2. MadeBy(p, Len(p)) = Made(r)
    BY UpgradesCreate DEF MadeBy, Made, Creates
  <1>3. Objects(T) = ObjectsAt(r)
    <2>1. Objects(S) = ObjectsAt(r - 1)
      BY DEF IsAt
    <2>2. ObjectsAt(r) = ObjectsAt(r - 1) \cup Made(r)
      BY ObjectsGrow
    <2> QED
      BY <1>1, <1>2, <2>1, <2>2 DEF Amid
  <1>4. Grants(T, r)
    BY <1>1 DEF Amid, Grants
  <1>5. UnembeddedChunks \in T => r >= 11
    BY <1>1, Kinds DEF Amid, IsAt
  <1>6. Role("unstash_admin") \in S => Role("unstash_admin") \in T
    BY <1>1, Kinds DEF Amid
  <1> HIDE DEF T
  <1>7. IsAt(T, r)
    BY <1>3, <1>4, <1>5 DEF IsAt
  <1>8. T # Refused
    BY <1>4, GrantsIsSchema
  <1> QED
    BY <1>6, <1>7, <1>8 DEF T, Reaches

\* Of roles and rows alone no object of a revision is made.
LEMMA ObjectsOfRevision ==
    ASSUME NEW r \in 0 .. 18, NEW S, Objects(S) = ObjectsAt(r)
    PROVE  \A o \in ObjectsAt(r) : o \in S /\ o[1] \notin {"role", "rows", "grant", "default"}
  BY DEF Objects

\* 0008 grants the admin role every table there is, or is refused where the role is
\* missing.
LEMMA Upgrade8 ==
    ASSUME NEW S, IsAt(S, 7)
    PROVE  IF Role("unstash_admin") \in S THEN Reaches(S, Run(S, Upgrades[8]), 8)
           ELSE Run(S, Upgrades[8]) = Refused
  <1> DEFINE a == "unstash_admin"
             s == GrantAll(a)
             T == Execute(S, s)
  <1>1. Run(S, Upgrades[8]) = After(S, s)
    BY RunOne, ScriptsAre, SpecialScripts
  <1>2. s.op = "grant" /\ s.on = {DefaultGrant(a)}
    BY StatementIs
  <1> HIDE DEF s
  <1>3. Accepts(S, s) <=> Role(a) \in S
    BY <1>2, Kinds DEF Accepts
  <1>4. S # Refused
    BY GrantsIsSchema DEF IsAt
  <1>5. \A o : o \in T <=> o \in S \/ o = DefaultGrant(a) \/ \E t \in Tables(S) : o = Grant(t, a)
    <2>1. T = S \cup s.on \cup {Grant(t, o[3]) : t \in Tables(S), o \in s.on}
      BY <1>2 DEF Execute
    <2> QED
      BY <1>2, <2>1, Kinds
  <1> HIDE DEF T
  <1>6. Objects(T) = ObjectsAt(8)
    <2>1. Objects(T) = Objects(S)
      BY <1>5, Kinds DEF Objects
    <2>2. ObjectsAt(8) = ObjectsAt(8 - 1) \cup Made(8)
      BY ObjectsGrow
    <2> QED
      BY <2>1, <2>2, SpecialMade DEF IsAt
  <1>7. \A t : t \in Tables(T) <=> t \in Tables(S)
    BY <1>5, Kinds, TableIsObject
  <1>8. Grants(T, 8)
    <2>1. Granted(T, "unstash_app")
      BY <1>5, <1>7 DEF IsAt, Grants, Granted
    <2>2. Granted(T, "unstash_admin")
      BY <1>5, <1>7 DEF Granted
    <2>3. \A o \in T : o[1] = "default" => \E role \in BothRoles : o = DefaultGrant(role)
      BY <1>5, Kinds DEF IsAt, Grants, BothRoles
    <2>4. \A o \in T : o[1] = "grant" => \E t \in Tables(T), role \in BothRoles : o = Grant(t, role)
      BY <1>5, <1>7, Kinds DEF IsAt, Grants, BothRoles
    <2> QED
      BY <2>1, <2>2, <2>3, <2>4 DEF Grants
  <1>9. UnembeddedChunks \notin T
    BY <1>5, Kinds DEF IsAt
  <1>10. IsAt(T, 8) /\ T # Refused
    BY <1>6, <1>8, <1>9, GrantsIsSchema DEF IsAt
  <1> QED
    BY <1>1, <1>3, <1>4, <1>5, <1>10 DEF After, Reaches, T

\* One statement that takes a single object away.
LEMMA RemoveOne ==
    ASSUME NEW S, NEW s, NEW q, Grants(S, q), s.op \in {"drop", "drop_if_exists"},
           NEW x, s.on = {x}, x[1] \in {"index", "required", "rows"}
    PROVE  /\ Execute(S, s) = S \ {x}
           /\ Grants(Execute(S, s), q)
  <1>1. Execute(S, s) = S \ {x}
    BY DEF Execute
  <1>2. Grants(Execute(S, s), q)
    BY RemoveStep
  <1> QED
    BY <1>1, <1>2

\* 0011 takes the NOT NULL off the embeddings.
LEMMA Upgrade11 ==
    ASSUME NEW S, IsAt(S, 10)
    PROVE  Reaches(S, Run(S, Upgrades[11]), 11)
  <1> DEFINE x == Required("chunks", "embedding")
             s == Drop({x})
             T == Execute(S, s)
  <1>1. Run(S, Upgrades[11]) = After(S, s)
    BY RunOne, ScriptsAre, SpecialScripts
  <1>2. s.op = "drop" /\ s.on = {x} /\ x[1] = "required"
    BY StatementIs, Kinds
  <1> HIDE DEF x, s
  <1>3. Grants(S, 10)
    BY DEF IsAt
  <1>4. T = S \ {x} /\ Grants(T, 10)
    BY <1>2, <1>3, RemoveOne
  <1>5. x \in S
    <2>1. x \in ObjectsAt(10)
      BY SpecialMade DEF ObjectsAt, x
    <2> QED
      BY <2>1 DEF IsAt, Objects
  <1>6. After(S, s) = T
    BY <1>2, <1>3, <1>5, GrantsIsSchema DEF After, Accepts
  <1>7. Objects(T) = ObjectsAt(11)
    <2>1. Objects(T) = Objects(S) \ {x}
      BY <1>4 DEF Objects
    <2> QED
      BY <2>1, ObjectsGrow DEF IsAt, x
  <1>8. IsAt(T, 11)
    BY <1>4, <1>7 DEF IsAt, Grants
  <1>9. Role("unstash_admin") \in S => Role("unstash_admin") \in T
    BY <1>2, <1>4, Kinds
  <1> HIDE DEF T
  <1>10. T # Refused
    BY <1>4, GrantsIsSchema
  <1> QED
    BY <1>1, <1>6, <1>8, <1>9, <1>10 DEF Reaches

\* One statement that creates a single object of the chunks.
LEMMA CreateOne ==
    ASSUME NEW V, NEW r, Grants(V, r), Table("chunks") \in V,
           NEW c, c.op = "create", NEW y, c.on = {y},
           y[1] \in {"index", "required"}, y[2] = "chunks", y \notin V,
           y = Required("chunks", "embedding") => UnembeddedChunks \notin V
    PROVE  /\ After(V, c) = Execute(V, c)
           /\ Objects(Execute(V, c)) = Objects(V) \cup {y}
           /\ Grants(Execute(V, c), r)
           /\ \A o : o[1] \in {"role", "rows"} => (o \in Execute(V, c) <=> o \in V)
  <1>1. "chunks" \in Tables(V \cup {y})
    BY TableIsObject, Kinds
  <1>2. Accepts(V, c)
    BY <1>1 DEF Accepts
  <1>3. After(V, c) = Execute(V, c)
    BY <1>2, GrantsIsSchema DEF After
  <1>4. \A o \in c.on : o[1] \notin {"role", "rows", "grant", "default"}
    OBVIOUS
  <1>5. /\ Objects(Execute(V, c)) = Objects(V) \cup c.on
        /\ Grants(Execute(V, c), r)
        /\ \A o : o[1] \in {"role", "rows"} => (o \in Execute(V, c) <=> o \in V)
    BY <1>4, CreateStep
  <1> QED
    BY <1>3, <1>5

\* One object of the chunks replaced by another, in two statements.
LEMMA Replace ==
    ASSUME NEW S, NEW r, Grants(S, r), Table("chunks") \in S,
           NEW x, x[1] \in {"index", "rows"}, NEW y, y[1] \in {"index", "required"}, y[2] = "chunks",
           y \notin S, y = Required("chunks", "embedding") => x = UnembeddedChunks
    PROVE  LET T == After(After(S, DropIfExists({x})), Create({y})) IN
           /\ Objects(T) = (Objects(S) \ {x}) \cup {y}
           /\ Grants(T, r)
           /\ UnembeddedChunks \in T <=> UnembeddedChunks \in S /\ x # UnembeddedChunks
           /\ Role("unstash_admin") \in S => Role("unstash_admin") \in T
  <1> DEFINE s == DropIfExists({x})
             c == Create({y})
             V == Execute(S, s)
             T == Execute(V, c)
  <1>1. /\ s.op = "drop_if_exists" /\ s.on = {x}
        /\ c.op = "create" /\ c.on = {y}
    BY StatementIs, CreateIs
  <1>2. After(After(S, s), c) = After(After(S, DropIfExists({x})), Create({y}))
    OBVIOUS
  <1> HIDE DEF s, c
  <1>3. V = S \ {x} /\ Grants(V, r)
    BY <1>1, RemoveOne
  <1>4. After(S, s) = V
    BY <1>1, GrantsIsSchema DEF After, Accepts
  <1> HIDE DEF V
  <1>5. Table("chunks") \in V /\ y \notin V
    BY <1>3, Kinds
  <1>6. y = Required("chunks", "embedding") => UnembeddedChunks \notin V
    BY <1>3
  <1>7. /\ After(V, c) = T
        /\ Objects(T) = Objects(V) \cup {y}
        /\ Grants(T, r)
        /\ \A o : o[1] \in {"role", "rows"} => (o \in T <=> o \in V)
    <2>1. c.op = "create" /\ c.on = {y} /\ Grants(V, r)
      BY <1>1, <1>3
    <2>2. /\ After(V, c) = Execute(V, c)
          /\ Objects(Execute(V, c)) = Objects(V) \cup {y}
          /\ Grants(Execute(V, c), r)
          /\ \A o : o[1] \in {"role", "rows"} => (o \in Execute(V, c) <=> o \in V)
      BY <1>5, <1>6, <2>1, CreateOne, Zenon
    <2> QED
      BY <2>2
  <1> HIDE DEF T
  <1>8. Objects(V) = Objects(S) \ {x}
    BY <1>3 DEF Objects
  <1>9. UnembeddedChunks \in T <=> UnembeddedChunks \in V
    BY <1>7, Kinds
  <1>10. Role("unstash_admin") \in T <=> Role("unstash_admin") \in V
    BY <1>7, Kinds
  <1>11. Role("unstash_admin") # x
    BY Kinds
  <1> QED
    BY <1>2, <1>3, <1>4, <1>7, <1>8, <1>9, <1>10, <1>11

\* 0014 replaces the text index of the chunks.
LEMMA Upgrade14 ==
    ASSUME NEW S, IsAt(S, 13)
    PROVE  Reaches(S, Run(S, Upgrades[14]), 14)
  <1> DEFINE T == After(After(S, DropIfExists({Plain})), Create({Stemmed}))
  <1>1. Run(S, Upgrades[14]) = T
    BY RunTwo, ScriptsAre, SpecialScripts
  <1>2. Stemmed[1] = "index" /\ Stemmed[2] = "chunks"
    BY DEF Stemmed
  <1>3. Stemmed # Required("chunks", "embedding") /\ Plain # UnembeddedChunks
    BY <1>2, Kinds
  <1>4. Stemmed \notin S
    <2>1. Stemmed \in S => Stemmed \in ObjectsAt(13)
      BY <1>2 DEF IsAt, Objects
    <2> QED
      BY <2>1, AtRevision, SpecialMade, ExtensionsAre
  <1>5. Grants(S, 13) /\ Table("chunks") \in S
    BY TablesAt DEF IsAt, Creator
  <1>6. T = After(After(S, DropIfExists({Plain})), Create({Stemmed}))
    OBVIOUS
  <1> HIDE DEF T
  <1>7. /\ Objects(T) = (Objects(S) \ {Plain}) \cup {Stemmed}
        /\ Grants(T, 13)
        /\ UnembeddedChunks \in T <=> UnembeddedChunks \in S /\ Plain # UnembeddedChunks
        /\ Role("unstash_admin") \in S => Role("unstash_admin") \in T
    BY <1>2, <1>3, <1>4, <1>5, <1>6, Replace, Kinds
  <1>8. IsAt(T, 14)
    BY <1>7, ObjectsGrow DEF IsAt, Grants
  <1> QED
    BY <1>1, <1>7, <1>8, GrantsIsSchema DEF Reaches, T

\* No upgrade is refused by a schema of its predecessor, but 0008 by a missing role,
\* and what it leaves is a schema of its own revision.
LEMMA UpgradeLeads ==
    ASSUME NEW r \in 1 .. 18, NEW S, IsAt(S, r - 1)
    PROVE  IF r = 8 /\ Role("unstash_admin") \notin S THEN Run(S, Upgrades[r]) = Refused
           ELSE Reaches(S, Run(S, Upgrades[r]), r)
  <1>1. CASE r \notin {8, 11, 14}
    BY <1>1, UpgradeNormal
  <1>2. CASE r = 8
    BY <1>2, Upgrade8
  <1>3. CASE r = 11
    BY <1>3, Upgrade11
  <1>4. CASE r = 14
    BY <1>4, Upgrade14
  <1> QED
    BY <1>1, <1>2, <1>3, <1>4

-----------------------------------------------------------------------------
(* Downgrades that only drop.                                              *)
\* What the downgrades need to know of an object.
LEMMA ObjectHas ==
    \A o, r : Object(o, r) => /\ o[1] \notin {"role", "rows", "grant", "default", "extension"}
                             /\ Birth(o) = r /\ Creator(o[2]) \in 1 .. r
  BY DEF Object

\* What the statements of a downgrade name.
LEMMA DowngradeObjects ==
    ASSUME NEW r \in 1 .. 18 \ {8, 11, 14}, NEW i \in 1 .. Len(Downgrades[r]),
           NEW o \in Downgrades[r][i].on
    PROVE  /\ Downgrades[r][i].op \in {"drop", "drop_if_exists", "drop_table"}
           /\ o \in Made(r) /\ Object(o, r) /\ Birth(o) = r
           /\ o[1] = "table" <=> Downgrades[r][i].op = "drop_table"
           /\ o[1] = "column" => o[3] \in DroppedColumns \cup {"cluster_id"}
           /\ o[2] # "public"
  <1>1. \E k \in 1 .. Len(Upgrades[r]) : o \in Upgrades[r][k].on
    BY DowngradesUndoAll DEF UndoesAll
  <1>2. o \in Made(r) /\ Object(o, r)
    BY <1>1, CreatesOfRevision
  <1>3. /\ Downgrades[r][i].op \in {"drop", "drop_if_exists", "drop_table"}
        /\ Birth(o) = r
        /\ o[1] = "table" <=> Downgrades[r][i].op = "drop_table"
        /\ o[1] = "column" => o[3] \in DroppedColumns \cup {"cluster_id"}
    BY DowngradesUndo DEF Undoes
  <1>4. Creator("public") = 0
    BY DEF Creator
  <1>5. o[2] # "public"
    BY <1>2, <1>4, ObjectHas
  <1> QED
    BY <1>2, <1>3, <1>5

\* A downgrade takes nothing away that an earlier script made.
LEMMA DowngradeSpares ==
    ASSUME NEW r \in 1 .. 18 \ {8, 11, 14}, NEW o \in ObjectsAt(r - 1), NEW j \in 1 .. Len(Downgrades[r])
    PROVE  ~Removes(Downgrades[r][j], o)
  <1> DEFINE s == Downgrades[r][j]
  <1>1. r - 1 \in 0 .. 18
    OBVIOUS
  <1>2. \/ o \in RequiredExtensions
        \/ Birth(o) \in 1 .. r - 1 /\ Object(o, Birth(o))
    BY <1>1, AtRevision
  <1>3. \/ Birth(o) # r /\ o[1] = "extension"
        \/ Birth(o) < r /\ Object(o, Birth(o))
    BY <1>2, ExtensionsAre
  <1>4. \A x \in s.on : Object(x, r) /\ Birth(x) = r
    BY DowngradeObjects
  <1>5. o \notin s.on
    BY <1>3, <1>4
  <1>6. ASSUME NEW c \in s.on, c[1] = "column", o[1] \in {"fk", "required"}, o[2] = c[2], o[3] = c[3]
        PROVE  FALSE
    <2>1. Birth(o) < r /\ Object(o, Birth(o))
      BY <1>3, <1>6
    <2>2. c[3] = "cluster_id"
      <3>1. c[3] \in DroppedColumns \cup {"cluster_id"}
        BY <1>6, DowngradeObjects
      <3>2. o[3] \notin DroppedColumns
        BY <1>6, <2>1 DEF Object
      <3> QED
        BY <1>6, <3>1, <3>2
    <2>3. o[1] # "required"
      <3>1. Required("chunks", "embedding")[3] = "embedding"
        BY DEF Required
      <3> QED
        BY <1>6, <2>1, <2>2, <3>1 DEF Object
    <2>4. Birth(o) = 17
      BY <1>6, <2>2, <2>3 DEF Birth
    <2>5. Birth(c) # 18
      BY <1>6, <2>2 DEF Birth
    <2> QED
      BY <1>4, <1>6, <2>1, <2>4, <2>5
  <1>7. ASSUME s.op = "drop_table", NEW t \in s.on, o[2] = t[2] PROVE FALSE
    <2>1. t[1] = "table"
      BY <1>7, DowngradeObjects
    <2>2. Creator(o[2]) = r
      BY <1>4, <1>7, <2>1 DEF Object
    <2>3. Creator("database") = 0
      BY DEF Creator
    <2>4. o \in RequiredExtensions => o[2] = "database"
      BY Kinds DEF RequiredExtensions
    <2> QED
      BY <1>2, <2>2, <2>3, <2>4, ObjectHas
  <1> QED
    BY <1>5, <1>6, <1>7 DEF Removes

\* What a schema in the middle of a downgrade looks like.
AmidDown(S, T, p, i, q) ==
    /\ \A o : o[1] \notin {"role", "rows", "grant", "default"} =>
                (o \in T <=> o \in S /\ \A j \in 1 .. i : ~Removes(p[j], o))
    /\ Grants(T, q)
    /\ UnembeddedChunks \in T => UnembeddedChunks \in S
    /\ \A role : Role(role) \in S => Role(role) \in T

\* No statement of such a downgrade is refused: what it drops is still there, and
\* no other table refers to a table it drops.
LEMMA DowngradeIsAccepted ==
    ASSUME NEW r \in 1 .. 18 \ {8, 11, 14}, NEW S, IsAt(S, r), NEW q,
           NEW i \in 1 .. Len(Downgrades[r]), NEW T, AmidDown(S, T, Downgrades[r], i - 1, q)
    PROVE  Accepts(T, Downgrades[r][i])
  <1> DEFINE s == Downgrades[r][i]
  <1>1. /\ s.op \in {"drop", "drop_if_exists", "drop_table"}
        /\ \A o \in s.on : o \in Made(r) /\ Object(o, r)
        /\ \A o \in s.on : o[1] = "table" <=> s.op = "drop_table"
    BY DowngradeObjects, DowngradesUndo DEF Undoes
  <1>2. ASSUME NEW o \in s.on, s.op # "drop_if_exists" PROVE o \in T
    <2>1. o \in ObjectsAt(r)
      BY <1>1, ObjectsGrow
    <2>2. \A j \in 1 .. i - 1 : ~Removes(Downgrades[r][j], o)
      BY <1>2, DowngradesUndoOnce DEF UndoesOnce
    <2>3. o \in S /\ o[1] \notin {"role", "rows", "grant", "default"}
      BY <2>1, ObjectsOfRevision DEF IsAt
    <2> QED
      BY <2>2, <2>3 DEF AmidDown
  <1>3. ASSUME NEW o \in s.on, s.op = "drop_table", NEW f \in T, f[1] = "fk", f[4] = o[2]
        PROVE  f[2] = o[2]
    <2>1. f \in S /\ \A j \in 1 .. i - 1 : ~Removes(Downgrades[r][j], f)
      BY <1>3 DEF AmidDown
    <2>2. f \in ObjectsAt(r)
      BY <1>3, <2>1 DEF IsAt, Objects
    <2>3. Birth(f) \in 1 .. r /\ Object(f, Birth(f))
      <3>1. r \in 0 .. 18
        OBVIOUS
      <3>2. f \notin RequiredExtensions
        BY <1>3, ExtensionsAre
      <3> QED
        BY <2>2, <3>1, <3>2, AtRevision
    <2>4. Creator(o[2]) = r
      BY <1>1, <1>3 DEF Object
    <2>5. Creator(f[4]) = r /\ Object(f, r)
      <3>1. Creator(f[4]) \in 1 .. Birth(f)
        BY <1>3, <2>3 DEF Object
      <3>2. Birth(f) = r
        BY <1>3, <2>3, <2>4, <3>1
      <3> QED
        BY <1>3, <2>3, <2>4, <3>2
    <2> QED
      BY <1>3, <2>1, <2>5, ReferencesFirst
  <1>4. s.op = "drop_table" => \A o \in s.on : ReferencedBy(o[2], T) \subseteq {o[2]}
    BY <1>3 DEF ReferencedBy
  <1> HIDE DEF s
  <1>5. Accepts(T, s)
    BY <1>1, <1>2, <1>4 DEF Accepts
  <1> QED
    BY <1>5 DEF s

\* Such a downgrade takes away what its statements name, and what depends on it.
LEMMA DowngradeDrops ==
    ASSUME NEW r \in 1 .. 18 \ {8, 11, 14}, NEW S, IsAt(S, r)
    PROVE  AmidDown(S, Run(S, Downgrades[r]), Downgrades[r], Len(Downgrades[r]), r)
  <1> DEFINE p == Downgrades[r]
             n == Len(p)
             q == r
  <1>1. n \in Nat
    BY ScriptLengths
  <1>2. PICK w : /\ w[0] = S /\ w[n] = Run(S, p)
                 /\ \A i \in 1 .. n : w[i] = After(w[i - 1], p[i])
    <2> HIDE DEF p
    <2> QED
      BY <1>1, RunIsChain
  <1>3. Grants(S, q)
    BY DEF IsAt, Grants
  <1> DEFINE P == {i \in Nat : i <= n => AmidDown(S, w[i], p, i, q)}
  <1>4. 0 \in P
    <2>1. AmidDown(S, w[0], p, 0, q)
      BY <1>2, <1>3 DEF AmidDown
    <2> QED
      BY <2>1
  <1> HIDE DEF q
  <1>5. ASSUME NEW i \in Nat, i \in P PROVE i + 1 \in P
    <2> SUFFICES ASSUME i + 1 <= n PROVE AmidDown(S, w[i + 1], p, i + 1, q)
      OBVIOUS
    <2>1. i + 1 \in 1 .. n /\ (i + 1) - 1 = i /\ AmidDown(S, w[i], p, i, q)
      BY <1>1, <1>5
    <2> DEFINE s == p[i + 1]
               v == w[i]
    <2>2. Accepts(v, s)
      BY <2>1, DowngradeIsAccepted
    <2>3. Grants(v, q)
      BY <2>1 DEF AmidDown
    <2>4. w[i + 1] = Execute(v, s)
      BY <1>2, <2>1, <2>2, <2>3, GrantsIsSchema DEF After
    <2>5. s.op \in {"drop", "drop_if_exists", "drop_table"}
      BY <2>1, DowngradesUndo DEF Undoes
    <2>6. \A o \in s.on : /\ Object(o, r)
                          /\ o[1] = "table" <=> s.op = "drop_table"
                          /\ o[2] # "public"
      BY <2>1, DowngradeObjects
    <2>7. \A o \in s.on : /\ o[1] \notin {"role", "grant", "default", "rows"}
                          /\ o[1] = "table" <=> s.op = "drop_table"
                          /\ s.op = "drop_table" => o[2] # "public"
      BY <2>6, ObjectHas
    <2> HIDE DEF s, v
    <2>8. /\ \A o : o \in Execute(v, s) <=> o \in v /\ ~Removes(s, o)
          /\ Grants(Execute(v, s), q)
      BY <2>3, <2>5, <2>7, RemoveStep
    <2>9. \A role : ~Removes(s, Role(role))
      <3>1. Creator("cluster") = 0
        BY DEF Creator
      <3>2. \A o \in s.on : Creator(o[2]) # 0
        BY <2>6, ObjectHas
      <3> QED
        BY <2>7, <3>1, <3>2, Kinds DEF Removes
    <2>10. \A o : o[1] \notin {"role", "rows", "grant", "default"} =>
                  (o \in w[i + 1] <=> o \in S /\ \A j \in 1 .. i + 1 : ~Removes(p[j], o))
      <3>1. \A j : j \in 1 .. i + 1 <=> j \in 1 .. i \/ j = i + 1
        OBVIOUS
      <3> QED
        BY <2>1, <2>4, <2>8, <3>1 DEF AmidDown, s, v
    <2>11. UnembeddedChunks \in w[i + 1] => UnembeddedChunks \in S
      BY <2>1, <2>4, <2>8 DEF AmidDown, v
    <2>12. \A role : Role(role) \in S => Role(role) \in w[i + 1]
      BY <2>1, <2>4, <2>8, <2>9 DEF AmidDown, v
    <2> QED
      BY <2>4, <2>8, <2>10, <2>11, <2>12 DEF AmidDown
  <1>6. n \in P
    <2> HIDE DEF P
    <2> QED
      BY <1>1, <1>4, <1>5, SetInduction
  <1> QED
    BY <1>1, <1>2, <1>6 DEF q

\* A downgrade that only drops leads from a schema of its revision to one of its
\* predecessor.
LEMMA DowngradeNormal ==
    ASSUME NEW r \in 1 .. 18 \ {8, 11, 14}, NEW S, IsAt(S, r)
    PROVE  Reaches(S, Run(S, Downgrades[r]), r - 1)
  <1> DEFINE p == Downgrades[r]
             n == Len(Downgrades[r])
             T == Run(S, Downgrades[r])
  <1>1. AmidDown(S, T, p, n, r)
    BY DowngradeDrops
  <1>2. ASSUME NEW o \in ObjectsAt(r - 1) PROVE o \in Objects(T)
    <2>1. o \in ObjectsAt(r)
      BY ObjectsGrow
    <2>2. o \in S /\ o[1] \notin {"role", "rows", "grant", "default"}
      BY <2>1, ObjectsOfRevision DEF IsAt
    <2>3. \A j \in 1 .. n : ~Removes(p[j], o)
      BY DowngradeSpares
    <2> QED
      BY <1>1, <2>2, <2>3 DEF AmidDown, Objects
  <1>3. ASSUME NEW o \in Objects(T) PROVE o \in ObjectsAt(r - 1)
    <2>1. o \in S /\ o[1] \notin {"role", "rows", "grant", "default"}
          /\ \A j \in 1 .. n : ~Removes(p[j], o)
      BY <1>1 DEF AmidDown, Objects
    <2>2. o \in ObjectsAt(r)
      BY <2>1 DEF IsAt, Objects
    <2>3. SUFFICES ASSUME o \in Made(r) PROVE FALSE
      BY <2>2, ObjectsGrow
    <2>4. PICK k \in 1 .. Len(Upgrades[r]) : o \in Upgrades[r][k].on
      BY <2>3 DEF Made
    <2>5. PICK i \in 1 .. n : o \in p[i].on \/ Table(o[2]) \in p[i].on
      BY <2>4, DowngradesUndoAll DEF UndoesAll
    <2>6. CASE o \in p[i].on
      <3>1. /\ p[i].op \in {"drop", "drop_if_exists", "drop_table"}
        BY <2>6, DowngradeObjects
      <3>2. Removes(p[i], o)
        BY <2>6, <3>1 DEF Removes
      <3> QED
        BY <2>1, <3>2
    <2>7. CASE Table(o[2]) \in p[i].on
      <3>1. p[i].op = "drop_table"
        BY <2>7, DowngradeObjects, Kinds
      <3>2. Removes(p[i], o)
        BY <2>7, <3>1, Kinds DEF Removes
      <3> QED
        BY <2>1, <3>2
    <2> QED
      BY <2>5, <2>6, <2>7
  <1>4. Grants(T, r - 1)
    BY <1>1 DEF AmidDown, Grants
  <1>5. UnembeddedChunks \in T => r - 1 >= 11
    BY <1>1 DEF AmidDown, IsAt
  <1>6. Role("unstash_admin") \in S => Role("unstash_admin") \in T
    BY <1>1 DEF AmidDown
  <1> HIDE DEF T
  <1>7. Objects(T) = ObjectsAt(r - 1)
    BY <1>2, <1>3
  <1>8. IsAt(T, r - 1) /\ T # Refused
    BY <1>4, <1>5, <1>7, GrantsIsSchema DEF IsAt
  <1> QED
    BY <1>6, <1>8 DEF T, Reaches

-----------------------------------------------------------------------------
(* Every downgrade.                                                        *)
\* The downgrade of 0008 revokes what 0008 granted, and the grants on later tables.
LEMMA Downgrade8 ==
    ASSUME NEW S, IsAt(S, 8)
    PROVE  IF Role("unstash_admin") \in S THEN Reaches(S, Run(S, Downgrades[8]), 7)
           ELSE Run(S, Downgrades[8]) = Refused
  <1> DEFINE a == "unstash_admin"
             s == RevokeAll(a)
             T == Execute(S, s)
  <1>1. Run(S, Downgrades[8]) = After(S, s)
    BY RunOne, ScriptsAre, SpecialScripts
  <1>2. s.op = "revoke" /\ s.on = {DefaultGrant(a)}
    BY StatementIs
  <1> HIDE DEF s
  <1>3. Accepts(S, s) <=> Role(a) \in S
    BY <1>2, Kinds DEF Accepts
  <1>4. S # Refused
    BY GrantsIsSchema DEF IsAt
  <1>5. \A o : o \in T <=> o \in S /\ o # DefaultGrant(a) /\ \A t \in Tables(S) : o # Grant(t, a)
    <2>1. T = S \ (s.on \cup {Grant(t, o[3]) : t \in Tables(S), o \in s.on})
      BY <1>2 DEF Execute
    <2> QED
      BY <1>2, <2>1, Kinds
  <1> HIDE DEF T
  <1>6. Objects(T) = ObjectsAt(7)
    <2>1. Objects(T) = Objects(S)
      BY <1>5, Kinds DEF Objects
    <2>2. ObjectsAt(8) = ObjectsAt(8 - 1) \cup Made(8)
      BY ObjectsGrow
    <2> QED
      BY <2>1, <2>2, SpecialMade DEF IsAt
  <1>7. \A t : t \in Tables(T) <=> t \in Tables(S)
    BY <1>5, Kinds, TableIsObject
  <1>8. Grants(T, 7)
    <2>1. Granted(T, "unstash_app")
      <3>1. /\ DefaultGrant("unstash_app") # DefaultGrant(a)
            /\ \A t, x : Grant(t, "unstash_app") # Grant(x, a)
            /\ \A t : Grant(t, "unstash_app") # DefaultGrant(a)
            /\ \A x : DefaultGrant("unstash_app") # Grant(x, a)
        BY Kinds
      <3> QED
        BY <1>5, <1>7, <3>1 DEF IsAt, Grants, Granted
    <2>2. \A o \in T : o[1] = "default" => \E role \in BothRoles : o = DefaultGrant(role)
      BY <1>5 DEF IsAt, Grants
    <2>3. \A o \in T : o[1] = "grant" => \E t \in Tables(T), role \in BothRoles : o = Grant(t, role)
      BY <1>5, <1>7 DEF IsAt, Grants
    <2> QED
      BY <2>1, <2>2, <2>3 DEF Grants
  <1>9. UnembeddedChunks \notin T
    BY <1>5 DEF IsAt
  <1>10. IsAt(T, 7) /\ T # Refused
    BY <1>6, <1>8, <1>9, GrantsIsSchema DEF IsAt
  <1>11. Role(a) \in S => Role(a) \in T
    BY <1>5, Kinds
  <1> QED
    BY <1>1, <1>3, <1>4, <1>10, <1>11 DEF After, Reaches, T

\* The downgrade of 0011 deletes the chunks without an embedding first: nothing is
\* left that the NOT NULL could refuse.
LEMMA Downgrade11 ==
    ASSUME NEW S, IsAt(S, 11)
    PROVE  Reaches(S, Run(S, Downgrades[11]), 10)
  <1> DEFINE x == UnembeddedChunks
             y == Required("chunks", "embedding")
             T == After(After(S, DropIfExists({x})), Create({y}))
  <1>1. Run(S, Downgrades[11]) = T
    BY RunTwo, ScriptsAre, SpecialScripts
  <1>2. x[1] = "rows" /\ y[1] = "required" /\ y[2] = "chunks"
    BY Kinds
  <1>3. y \notin S
    BY <1>2 DEF IsAt, Objects, ObjectsAt
  <1>4. Grants(S, 11) /\ Table("chunks") \in S
    BY TablesAt DEF IsAt, Creator
  <1>5. T = After(After(S, DropIfExists({x})), Create({y}))
    OBVIOUS
  <1> HIDE DEF x, y, T
  <1>6. y = Required("chunks", "embedding") => x = UnembeddedChunks
    BY DEF x
  <1>7. /\ Objects(T) = (Objects(S) \ {x}) \cup {y}
        /\ Grants(T, 11)
        /\ UnembeddedChunks \in T <=> UnembeddedChunks \in S /\ x # UnembeddedChunks
        /\ Role("unstash_admin") \in S => Role("unstash_admin") \in T
    BY <1>2, <1>3, <1>4, <1>5, <1>6, Replace
  <1>8. Objects(T) = ObjectsAt(10)
    <2>1. y \in ObjectsAt(10)
      BY SpecialMade DEF ObjectsAt, y
    <2>2. x \notin Objects(S)
      BY <1>2 DEF Objects
    <2> QED
      BY <1>7, <2>1, <2>2, ObjectsGrow DEF IsAt, y
  <1>9. IsAt(T, 10)
    BY <1>7, <1>8 DEF IsAt, Grants, x
  <1> QED
    BY <1>1, <1>7, <1>9, GrantsIsSchema DEF Reaches, T

\* The downgrade of 0014 puts the old index back.
LEMMA Downgrade14 ==
    ASSUME NEW S, IsAt(S, 14)
    PROVE  Reaches(S, Run(S, Downgrades[14]), 13)
  <1> DEFINE T == After(After(S, DropIfExists({Stemmed})), Create({Plain}))
  <1>1. Run(S, Downgrades[14]) = T
    BY RunTwo, ScriptsAre, SpecialScripts
  <1>2. Stemmed[1] = "index" /\ Plain[1] = "index" /\ Plain[2] = "chunks"
    BY DEF Stemmed, Plain
  <1>3. Plain # Required("chunks", "embedding") /\ Stemmed # UnembeddedChunks
    BY <1>2, Kinds
  <1>4. Plain \notin S
    BY <1>2 DEF IsAt, Objects, ObjectsAt
  <1>5. Grants(S, 14) /\ Table("chunks") \in S
    BY TablesAt DEF IsAt, Creator
  <1>6. T = After(After(S, DropIfExists({Stemmed})), Create({Plain}))
    OBVIOUS
  <1> HIDE DEF T
  <1>7. /\ Objects(T) = (Objects(S) \ {Stemmed}) \cup {Plain}
        /\ Grants(T, 14)
        /\ UnembeddedChunks \in T <=> UnembeddedChunks \in S /\ Stemmed # UnembeddedChunks
        /\ Role("unstash_admin") \in S => Role("unstash_admin") \in T
    BY <1>2, <1>3, <1>4, <1>5, <1>6, Replace
  <1>8. Objects(T) = ObjectsAt(13)
    <2>1. Plain \in ObjectsAt(13)
      BY <1>2, <1>3, SpecialMade DEF ObjectsAt
    <2>2. Stemmed \notin ObjectsAt(13)
      BY AtRevision, SpecialMade, ExtensionsAre
    <2> QED
      BY <1>7, <2>1, <2>2, ObjectsGrow DEF IsAt
  <1>9. IsAt(T, 13)
    BY <1>7, <1>8 DEF IsAt, Grants
  <1> QED
    BY <1>1, <1>7, <1>9, GrantsIsSchema DEF Reaches, T

\* No downgrade is refused by a schema of its revision, but that of 0008 by a missing
\* role, and what it leaves is a schema of the revision before.
LEMMA DowngradeLeads ==
    ASSUME NEW r \in 1 .. 18, NEW S, IsAt(S, r)
    PROVE  IF r = 8 /\ Role("unstash_admin") \notin S THEN Run(S, Downgrades[r]) = Refused
           ELSE Reaches(S, Run(S, Downgrades[r]), r - 1)
  <1>1. CASE r \notin {8, 11, 14}
    BY <1>1, DowngradeNormal
  <1>2. CASE r = 8
    BY <1>2, Downgrade8
  <1>3. CASE r = 11
    BY <1>3, Downgrade11
  <1>4. CASE r = 14
    BY <1>4, Downgrade14
  <1> QED
    BY <1>1, <1>2, <1>3, <1>4

-----------------------------------------------------------------------------
(* The chain of upgrades, and what is no part of a revision.               *)
\* The revisions, and the database before the first.
LEMMA RevisionsAre == Revisions = 0 .. 18
  BY ScriptsAre DEF Revisions

\* The chain of upgrades, from a fresh database and from one without the admin
\* role, is the one its definition says.
LEMMA SchemaAtIsChain ==
    /\ SchemaAt[0] = FreshDatabase
    /\ \A r \in 1 .. 18 : SchemaAt[r] = Run(SchemaAt[r - 1], Upgrades[r])
  <1> DEFINE Step(g, m) == [r \in 0 .. m |-> IF r = 0 THEN FreshDatabase
                                              ELSE Run(g[r - 1], Upgrades[r])]
             w == CHOOSE g : g = Step(g, 18)
             Built == {m \in Nat : \E g : g = Step(g, m)}
  <1>1. SchemaAt = w
    <2>1. Revisions = 0 .. 18
      BY RevisionsAre
    <2> QED
      BY <2>1, Zenon DEF SchemaAt
  <1>2. 0 \in Built
    <2> DEFINE g == [i \in 0 .. 0 |-> FreshDatabase]
    <2>1. g = Step(g, 0)
      OBVIOUS
    <2> QED
      BY <2>1
  <1>3. ASSUME NEW m \in Nat, m \in Built PROVE m + 1 \in Built
    <2>1. PICK g : g = Step(g, m)
      BY <1>3
    <2> DEFINE h == Step(g, m + 1)
    <2>2. \A i \in 0 .. m : h[i] = g[i]
      BY <2>1
    <2>3. \A i \in 0 .. m + 1 : i # 0 => i - 1 \in 0 .. m
      OBVIOUS
    <2>4. h = Step(h, m + 1)
      BY <2>2, <2>3
    <2> HIDE DEF h, Step
    <2> QED
      BY <2>4
  <1>4. 18 \in Built
    <2> HIDE DEF Built
    <2> QED
      BY <1>2, <1>3, SetInduction
  <1>5. w = Step(w, 18)
    BY <1>4
  <1> HIDE DEF w
  <1> QED
    BY <1>1, <1>5

\* The same for a database without the admin role, which only gets to 0007.
LEMMA LegacySchemaAtIsChain ==
    /\ LegacySchemaAt[0] = LegacyDatabase
    /\ \A r \in 1 .. 7 : LegacySchemaAt[r] = Run(LegacySchemaAt[r - 1], Upgrades[r])
  <1> DEFINE Step(g, m) == [r \in 0 .. m |-> IF r = 0 THEN LegacyDatabase
                                              ELSE Run(g[r - 1], Upgrades[r])]
             w == CHOOSE g : g = Step(g, 7)
             Built == {m \in Nat : \E g : g = Step(g, m)}
  <1>1. LegacySchemaAt = w
    BY Zenon DEF LegacySchemaAt
  <1>2. 0 \in Built
    <2> DEFINE g == [i \in 0 .. 0 |-> LegacyDatabase]
    <2>1. g = Step(g, 0)
      OBVIOUS
    <2> QED
      BY <2>1
  <1>3. ASSUME NEW m \in Nat, m \in Built PROVE m + 1 \in Built
    <2>1. PICK g : g = Step(g, m)
      BY <1>3
    <2> DEFINE h == Step(g, m + 1)
    <2>2. \A i \in 0 .. m : h[i] = g[i]
      BY <2>1
    <2>3. \A i \in 0 .. m + 1 : i # 0 => i - 1 \in 0 .. m
      OBVIOUS
    <2>4. h = Step(h, m + 1)
      BY <2>2, <2>3
    <2> HIDE DEF h, Step
    <2> QED
      BY <2>4
  <1>4. 7 \in Built
    <2> HIDE DEF Built
    <2> QED
      BY <1>2, <1>3, SetInduction
  <1>5. w = Step(w, 7)
    BY <1>4
  <1> HIDE DEF w
  <1> QED
    BY <1>1, <1>5

\* A new database, with the admin role or without, is at revision 0.
LEMMA NewDatabases == IsAt(FreshDatabase, 0) /\ IsAt(LegacyDatabase, 0)
  <1>1. \A o \in RequiredExtensions : o[1] = "extension"
    BY ExtensionsAre
  <1>2. ObjectsAt(0) = RequiredExtensions
    BY DEF ObjectsAt
  <1>3. \A o \in FreshDatabase : \/ o \in RequiredExtensions
                                 \/ o[1] = "role"
                                 \/ \E role \in BothRoles : o = DefaultGrant(role)
    BY Kinds DEF FreshDatabase, LegacyDatabase, BothRoles
  <1>4. ASSUME NEW S, LegacyDatabase \subseteq S, S \subseteq FreshDatabase
        PROVE  IsAt(S, 0)
    <2>1. RequiredExtensions \subseteq S /\ DefaultGrant("unstash_app") \in S
      BY <1>4 DEF LegacyDatabase
    <2>2. \A o \in S : \/ o \in RequiredExtensions
                       \/ o[1] = "role"
                       \/ \E role \in BothRoles : o = DefaultGrant(role)
      BY <1>3, <1>4
    <2>3. \A o \in S : o[1] \in {"extension", "role", "default"}
      BY <1>1, <2>2, Kinds
    <2>4. Objects(S) = RequiredExtensions
      BY <1>1, <2>1, <2>2, Kinds DEF Objects
    <2>5. \A t : t \notin Tables(S)
      BY <2>3, TableIsObject
    <2>6. Granted(S, "unstash_app")
      BY <2>1, <2>5 DEF Granted
    <2>7. \A o \in S : o[1] = "default" => \E role \in BothRoles : o = DefaultGrant(role)
      BY <1>1, <2>2
    <2>8. Grants(S, 0)
      BY <2>3, <2>6, <2>7 DEF Grants
    <2>9. UnembeddedChunks \notin S
      BY <2>3, Kinds
    <2> QED
      BY <1>2, <2>4, <2>8, <2>9 DEF IsAt
  <1> QED
    BY <1>4 DEF FreshDatabase

\* Upgrades alone lead from revision to revision, by induction.
LEMMA UpgradedSchemas ==
    \A r \in 0 .. 18 : IsAt(SchemaAt[r], r) /\ Role("unstash_admin") \in SchemaAt[r]
  <1> DEFINE Good == {r \in Nat : r \in 0 .. 18 =>
                          IsAt(SchemaAt[r], r) /\ Role("unstash_admin") \in SchemaAt[r]}
  <1>1. 0 \in Good
    BY NewDatabases, SchemaAtIsChain DEF FreshDatabase
  <1>2. ASSUME NEW m \in Nat, m \in Good PROVE m + 1 \in Good
    <2> SUFFICES ASSUME m + 1 \in 0 .. 18
                 PROVE  /\ IsAt(SchemaAt[m + 1], m + 1)
                        /\ Role("unstash_admin") \in SchemaAt[m + 1]
      OBVIOUS
    <2>1. IsAt(SchemaAt[m], m) /\ Role("unstash_admin") \in SchemaAt[m]
      BY <1>2
    <2>2. PICK r : r = m + 1
      OBVIOUS
    <2>3. r \in 1 .. 18 /\ r - 1 = m
      BY <2>2
    <2>4. SchemaAt[r] = Run(SchemaAt[m], Upgrades[r])
      BY <2>3, SchemaAtIsChain
    <2>5. Reaches(SchemaAt[m], Run(SchemaAt[m], Upgrades[r]), r)
      BY <2>1, <2>3, UpgradeLeads
    <2> QED
      BY <2>1, <2>2, <2>4, <2>5 DEF Reaches
  <1> HIDE DEF Good
  <1>3. \A r \in Nat : r \in Good
    BY <1>1, <1>2, SetInduction
  <1> QED
    BY <1>3 DEF Good

\* And to 0007 in a database without the admin role.
LEMMA LegacySchemas == IsAt(LegacySchemaAt[7], 7)
  <1> DEFINE Good == {r \in Nat : r \in 0 .. 7 => IsAt(LegacySchemaAt[r], r)}
  <1>1. 0 \in Good
    BY NewDatabases, LegacySchemaAtIsChain
  <1>2. ASSUME NEW m \in Nat, m \in Good PROVE m + 1 \in Good
    <2> SUFFICES ASSUME m + 1 \in 0 .. 7 PROVE IsAt(LegacySchemaAt[m + 1], m + 1)
      OBVIOUS
    <2>1. IsAt(LegacySchemaAt[m], m)
      BY <1>2
    <2>2. PICK r : r = m + 1
      OBVIOUS
    <2>3. r \in 1 .. 18 /\ r - 1 = m /\ r # 8 /\ r \in 1 .. 7
      BY <2>2
    <2>4. LegacySchemaAt[r] = Run(LegacySchemaAt[m], Upgrades[r])
      BY <2>3, LegacySchemaAtIsChain
    <2>5. Reaches(LegacySchemaAt[m], Run(LegacySchemaAt[m], Upgrades[r]), r)
      BY <2>1, <2>3, UpgradeLeads
    <2> QED
      BY <2>2, <2>4, <2>5 DEF Reaches
  <1> HIDE DEF Good
  <1>3. \A r \in Nat : r \in Good
    BY <1>1, <1>2, SetInduction
  <1> QED
    BY <1>3 DEF Good

\* Roles and rows are no part of a revision, but for the rows that have no
\* embedding: before 0011 there are none.
LEMMA RowsAndRoles ==
    ASSUME NEW S, NEW X, NEW r, IsAt(S, r),
           \A o : o \in X /\ o \notin S => o[1] \in {"rows", "role"},
           \A o : o \in S /\ o \notin X => o[1] \in {"rows", "role"},
           UnembeddedChunks \in X => r >= 11
    PROVE  IsAt(X, r)
  <1>1. \A o : o[1] \notin {"rows", "role"} => (o \in X <=> o \in S)
    OBVIOUS
  <1>2. Objects(X) = Objects(S)
    BY <1>1 DEF Objects
  <1>3. \A t : t \in Tables(X) <=> t \in Tables(S)
    BY <1>1, TableIsObject
  <1>4. \A role : Granted(S, role) => Granted(X, role)
    BY <1>1, <1>3, Kinds DEF Granted
  <1>5. Grants(S, r)
    BY DEF IsAt
  <1>6. \A o \in X : /\ o[1] = "grant" => \E t \in Tables(X), role \in BothRoles : o = Grant(t, role)
                     /\ o[1] = "default" => \E role \in BothRoles : o = DefaultGrant(role)
    BY <1>1, <1>3, <1>5 DEF Grants
  <1>7. Grants(X, r)
    BY <1>4, <1>5, <1>6 DEF Grants
  <1> QED
    BY <1>2, <1>7 DEF IsAt

\* Where the embedding of a chunk may be missing, 0011 has run.
LEMMA EmbeddingOptional ==
    ASSUME NEW r \in 0 .. 18, NEW S, IsAt(S, r),
           Table("chunks") \in S, Required("chunks", "embedding") \notin S
    PROVE  r >= 11
  <1>1. Creator("chunks") = 2
    BY DEF Creator
  <1>2. 2 \in 1 .. r
    BY <1>1, TablesAt DEF IsAt
  <1> SUFFICES ASSUME ~(r >= 11) PROVE FALSE
    OBVIOUS
  <1>3. Required("chunks", "embedding") # Plain
    BY Kinds
  <1>4. Required("chunks", "embedding") \in ObjectsAt(r)
    BY <1>2, <1>3, SpecialMade DEF ObjectsAt
  <1> QED
    BY <1>4 DEF IsAt, Objects

\* Two schemas of a revision differ in nothing the scripts manage.
LEMMA ManagedIs ==
    ASSUME NEW r \in 0 .. 18, NEW S, NEW X, IsAt(S, r), IsAt(X, r)
    PROVE  Managed(S, r) \subseteq Managed(X, r)
  <1> SUFFICES ASSUME NEW o \in S, o[1] \notin {"role", "rows"},
                      r < 8 => ~(o[1] \in {"grant", "default"} /\ o[3] = "unstash_admin")
               PROVE  o \in X
    BY DEF Managed
  <1>1. CASE o[1] \notin {"grant", "default"}
    BY <1>1 DEF IsAt, Objects
  <1>2. ASSUME NEW role \in BothRoles, o[3] = role, o[1] \in {"grant", "default"}
        PROVE  Granted(X, role)
    BY <1>2 DEF IsAt, Grants, BothRoles
  <1>3. CASE o[1] = "default"
    <2>1. PICK role \in BothRoles : o = DefaultGrant(role)
      BY <1>3 DEF IsAt, Grants
    <2> QED
      BY <1>2, <1>3, <2>1, Kinds DEF Granted
  <1>4. CASE o[1] = "grant"
    <2>1. PICK t \in Tables(S), role \in BothRoles : o = Grant(t, role)
      BY <1>4 DEF IsAt, Grants
    <2>2. t \in Tables(X)
      BY TablesAt DEF IsAt
    <2> QED
      BY <1>2, <1>4, <2>1, <2>2, Kinds DEF Granted
  <1> QED
    BY <1>1, <1>3, <1>4

-----------------------------------------------------------------------------
(* What a revision guarantees.                                             *)
\* Tables, columns, references and policies stay once they are made.
LEMMA StaysMade ==
    ASSUME NEW r, NEW q \in 1 .. r, NEW o \in Made(q), o[1] \notin {"required", "index"}
    PROVE  o \in ObjectsAt(r)
  <1>1. o # Required("chunks", "embedding") /\ o # Plain
    BY Kinds
  <1> QED
    BY <1>1 DEF ObjectsAt

\* From 0006 on the tables of an organisation are isolated.
LEMMA IsolatedAt ==
    ASSUME NEW r \in 6 .. 18, NEW S, IsAt(S, r), NEW t \in TenantTables(S)
    PROVE  TenantIsolation(t) \subseteq S
  <1> DEFINE o == Reference(t, "org_id", "organisations")
             q == Birth(o)
  <1>1. o[1] = "fk" /\ o[2] = t /\ o[3] = "org_id" /\ o \in S /\ t # "api_tokens"
    BY DEF Reference, TenantTables
  <1> HIDE DEF o
  <1>2. o \in ObjectsAt(r)
    BY <1>1 DEF IsAt, Objects
  <1>3. q \in 1 .. r /\ Object(o, q)
    BY <1>1, <1>2, AtRevision, ExtensionsAre
  <1>4. Creator(t) \in 1 .. r /\ t \in TenantScopedTables \cup LaterTenantTables
    BY <1>1, <1>3 DEF Object
  <1>5. ASSUME NEW x \in TenantIsolation(t) PROVE x[1] \in {"rls", "policy"}
    BY DEF TenantIsolation, Policy
  <1>6. TenantIsolation(t) \subseteq ObjectsAt(r)
    <2>1. CASE t \in TenantScopedTables
      BY <1>5, <2>1, IsolationMade, StaysMade
    <2>2. CASE t \in LaterTenantTables
      BY <1>4, <1>5, <2>2, IsolationMade, StaysMade
    <2> QED
      BY <1>4, <2>1, <2>2
  <1> QED
    BY <1>6 DEF IsAt, Objects

\* Code of revision 8 or later runs on the schema of its own revision and on every
\* later one.
LEMMA CodeRunsAt ==
    ASSUME NEW r \in 8 .. 18, NEW c \in 8 .. r, NEW S, IsAt(S, r)
    PROVE  CodeRuns(SchemaAt[c], S)
  <1> DEFINE old == SchemaAt[c]
  <1>1. IsAt(old, c) /\ c \in 0 .. 18 /\ r \in 0 .. 18
    BY UpgradedSchemas
  <1> HIDE DEF old
  <1>2. \A o \in ObjectsAt(c) : o[1] \in {"table", "column"} => o \in ObjectsAt(r)
    <2> SUFFICES ASSUME NEW o \in ObjectsAt(c), o[1] \in {"table", "column"} PROVE o \in ObjectsAt(r)
      OBVIOUS
    <2>1. PICK q \in 1 .. c : o \in Made(q)
      BY <1>1, AtRevision, ExtensionsAre
    <2>2. q \in 1 .. r
      OBVIOUS
    <2> QED
      BY <2>1, <2>2, StaysMade
  <1>3. {o \in old : o[1] \in {"table", "column", "grant"}} \subseteq S
    <2> SUFFICES ASSUME NEW o \in old, o[1] \in {"table", "column", "grant"} PROVE o \in S
      OBVIOUS
    <2>1. CASE o[1] # "grant"
      BY <1>1, <1>2, <2>1 DEF IsAt, Objects
    <2>2. CASE o[1] = "grant"
      <3>1. PICK t \in Tables(old), role \in BothRoles : o = Grant(t, role)
        BY <1>1, <2>2 DEF IsAt, Grants
      <3>2. t \in Tables(S)
        BY <1>1, TablesAt DEF IsAt
      <3>3. Granted(S, role)
        BY DEF IsAt, Grants, BothRoles
      <3> QED
        BY <3>1, <3>2, <3>3 DEF Granted
    <2> QED
      BY <2>1, <2>2
  <1>4. \A o \in S : o[1] = "required" => o \in old
    <2> SUFFICES ASSUME NEW o \in S, o[1] = "required" PROVE o \in old
      OBVIOUS
    <2>1. o \in ObjectsAt(r)
      BY DEF IsAt, Objects
    <2>2. Object(o, Birth(o))
      BY <1>1, <2>1, AtRevision, ExtensionsAre
    <2>3. o = Required("chunks", "embedding") /\ o # Plain
      BY <2>2, Kinds DEF Object
    <2>4. r < 11
      BY <2>1, <2>3 DEF ObjectsAt
    <2>5. o \in ObjectsAt(c)
      BY <2>3, <2>4, SpecialMade DEF ObjectsAt
    <2> QED
      BY <1>1, <2>5 DEF IsAt, Objects
  <1>5. \A o \in S : o[1] = "policy" /\ o[2] \in Tables(old) =>
           o[4] = "" \/ \E p \in old : p[1] = "policy" /\ p[2] = o[2] /\ p[4] = o[4]
    <2> SUFFICES ASSUME NEW o \in S, o[1] = "policy", o[2] \in Tables(old)
                 PROVE  o[4] = "" \/ o \in old
      OBVIOUS
    <2>1. o \in ObjectsAt(r)
      BY DEF IsAt, Objects
    <2>2. PICK q \in 1 .. r : Object(o, q) /\ o \in Made(q)
      BY <1>1, <2>1, AtRevision, ExtensionsAre
    <2>3. Creator(o[2]) \in 1 .. c
      BY <1>1, TablesAt DEF IsAt
    <2>4. q = 6 \/ o[4] = "" \/ Creator(o[2]) = q
      BY <2>2 DEF Object
    <2>5. q \in 1 .. c => o \in ObjectsAt(c)
      BY <2>2, StaysMade
    <2>6. o \in ObjectsAt(c) => o \in old
      BY <1>1 DEF IsAt, Objects
    <2>7. 6 \in 1 .. c
      OBVIOUS
    <2> QED
      BY <2>3, <2>4, <2>5, <2>6, <2>7
  <1> QED
    BY <1>3, <1>4, <1>5 DEF CodeRuns, old

-----------------------------------------------------------------------------
(* The schemas a deploy can meet.                                          *)
\* A runner's record: where it is, and the transaction it may have open.
IsRunner(x) ==
    /\ DOMAIN x = {"pc", "code", "goal", "at", "work"}
    /\ x.pc # "stuck"
    /\ x.code \in Revisions /\ x.goal \in Revisions /\ x.at \in Revisions
    /\ x.work # NoWork =>
          /\ DOMAIN x.work = {"schema", "revision"}
          /\ x.work.revision \in Revisions
          /\ IsAt(x.work.schema, x.work.revision)

\* Every schema, committed or in a transaction, is one of its revision, and no runner
\* is stuck.
SchemasInv ==
    /\ DOMAIN database = {"schema", "revision"}
    /\ database.revision \in Revisions
    /\ IsAt(database.schema, database.revision)
    /\ runner = [r \in Runners |-> runner[r]]
    /\ \A r \in Runners : IsRunner(runner[r])
    /\ api.code \in Revisions

\* A runner that ended, however it ended.
LEMMA EndedIsRunner ==
    \A how : how # "stuck" => IsRunner(Ended(how)) /\ Ended(how).work = NoWork
  BY RevisionsAre DEF IsRunner, Ended, NewRunner

\* The invariant holds of both databases there are at first.
LEMMA SchemasInvInit ==
    ASSUME Init PROVE SchemasInv
  <1>1. /\ DOMAIN database = {"schema", "revision"}
        /\ database.revision \in Revisions
        /\ IsAt(database.schema, database.revision)
    <2>1. CASE database = [schema |-> SchemaAt[0], revision |-> 0]
      BY <2>1, UpgradedSchemas, RevisionsAre
    <2>2. CASE database = [schema |-> LegacySchemaAt[7], revision |-> 7]
      BY <2>2, LegacySchemas, RevisionsAre
    <2> QED
      BY <2>1, <2>2 DEF Init
  <1>2. IsRunner(NewRunner)
    BY RevisionsAre DEF IsRunner, NewRunner
  <1>3. runner = [r \in Runners |-> runner[r]] /\ \A r \in Runners : runner[r] = NewRunner
    BY DEF Init
  <1>4. api.code \in Revisions
    BY RevisionsAre DEF Init
  <1> QED
    BY <1>1, <1>2, <1>3, <1>4 DEF SchemasInv

\* Every step keeps it: a script leads from revision to revision (UpgradeLeads,
\* DowngradeLeads), and nothing else changes more than roles and rows.
LEMMA SchemasInvStep ==
    ASSUME SchemasInv, [Next]_vars PROVE SchemasInv'
  <1> USE RevisionsAre
  \* A step of one runner that leaves it a runner.
  <1>1. ASSUME NEW r \in Runners, NEW x, IsRunner(x), runner' = [runner EXCEPT ![r] = x]
        PROVE  runner' = [o \in Runners |-> runner'[o]] /\ \A o \in Runners : IsRunner(runner'[o])
    BY <1>1 DEF SchemasInv
  <1>2. ASSUME NEW d \in Deploys, NEW c \in Codes, StartDeploy(d, c) PROVE SchemasInv'
    <2> DEFINE x == [NewRunner EXCEPT !.pc = "begin", !.code = c, !.goal = c]
    <2>1. DOMAIN NewRunner = {"pc", "code", "goal", "at", "work"} /\ NewRunner.work = NoWork
          /\ NewRunner.at = 0
      BY DEF NewRunner
    <2>2. c \in Revisions /\ 0 \in Revisions
      BY DeploymentAssumption
    <2>3. IsRunner(x)
      BY <2>1, <2>2 DEF IsRunner
    <2>4. runner' = [runner EXCEPT ![d] = x] /\ UNCHANGED <<database, api>>
      BY <1>2 DEF StartDeploy
    <2> HIDE DEF x
    <2>5. d \in Runners
      BY DEF Runners
    <2>6. runner' = [o \in Runners |-> runner'[o]] /\ \A o \in Runners : IsRunner(runner'[o])
      BY <1>1, <2>3, <2>4, <2>5
    <2> QED
      BY <2>4, <2>6 DEF SchemasInv
  <1>3. ASSUME NEW d \in Deploys, Up(d) PROVE SchemasInv'
    <2>1. runner' = [runner EXCEPT ![d] = Ended("idle")] /\ UNCHANGED database /\ d \in Runners
      BY <1>3 DEF Up, Runners
    <2>2. api'.code \in Revisions
      BY <1>3, <2>1 DEF Up, SchemasInv, IsRunner
    <2>3. runner' = [o \in Runners |-> runner'[o]] /\ \A o \in Runners : IsRunner(runner'[o])
      BY <1>1, <2>1, EndedIsRunner
    <2> QED
      BY <2>1, <2>2, <2>3 DEF SchemasInv
  <1>4. ASSUME NEW goal \in Goals \cup Codes, StartByHand(goal) PROVE SchemasInv'
    <2> DEFINE x == [NewRunner EXCEPT !.pc = "begin", !.code = api.code, !.goal = goal]
    <2>1. DOMAIN NewRunner = {"pc", "code", "goal", "at", "work"} /\ NewRunner.work = NoWork
          /\ NewRunner.at = 0
      BY DEF NewRunner
    <2>2. api.code \in Revisions /\ goal \in Revisions /\ 0 \in Revisions
      BY DeploymentAssumption DEF SchemasInv
    <2>3. IsRunner(x)
      BY <2>1, <2>2 DEF IsRunner
    <2>4. runner' = [runner EXCEPT ![Operator] = x] /\ UNCHANGED <<database, api>>
      BY <1>4 DEF StartByHand
    <2> HIDE DEF x
    <2>5. Operator \in Runners
      BY DEF Runners
    <2>6. runner' = [o \in Runners |-> runner'[o]] /\ \A o \in Runners : IsRunner(runner'[o])
      BY <1>1, <2>3, <2>4, <2>5
    <2> QED
      BY <2>4, <2>6 DEF SchemasInv
  <1>5. ASSUME NEW r \in Runners, Begin(r) PROVE SchemasInv'
    <2>1. CASE database.revision <= runner[r].code
      <3> DEFINE x == [runner[r] EXCEPT !.pc = "scripts", !.at = database.revision]
      <3>1. runner' = [runner EXCEPT ![r] = x] /\ UNCHANGED <<database, api>>
        BY <1>5, <2>1 DEF Begin, SchemasInv
      <3>2. IsRunner(runner[r]) /\ database.revision \in Revisions
        BY DEF SchemasInv
      <3>3. IsRunner(x)
        BY <3>2 DEF IsRunner
      <3> HIDE DEF x
      <3>4. runner' = [o \in Runners |-> runner'[o]] /\ \A o \in Runners : IsRunner(runner'[o])
        BY <1>1, <3>1, <3>3
      <3> QED
        BY <3>1, <3>4 DEF SchemasInv
    <2>2. CASE ~(database.revision <= runner[r].code)
      <3>1. runner' = [runner EXCEPT ![r] = Ended("unknown_revision")] /\ UNCHANGED <<database, api>>
        BY <1>5, <2>2 DEF Begin
      <3>2. runner' = [o \in Runners |-> runner'[o]] /\ \A o \in Runners : IsRunner(runner'[o])
        BY <1>1, <3>1, EndedIsRunner
      <3> QED
        BY <3>1, <3>2 DEF SchemasInv
    <2> QED
      BY <2>1, <2>2
  <1>6. ASSUME NEW r \in Runners, RunScript(r) PROVE SchemasInv'
    <2>1. PICK schema \in Visible(r) :
             LET after == Run(schema, NextScript(r)) IN
             runner' =
                IF VisibleRevision(r) = runner[r].at /\ after # Refused
                THEN [runner EXCEPT ![r].at = NextRevision(r),
                                    ![r].work = [schema |-> after, revision |-> NextRevision(r)]]
                ELSE [runner EXCEPT ![r] = Ended(IF /\ VisibleRevision(r) = runner[r].at
                                                    /\ Role("unstash_admin") \in schema
                                                 THEN "stuck" ELSE "idle")]
      BY <1>6 DEF RunScript
    <2> DEFINE after == Run(schema, NextScript(r))
    <2>2. UNCHANGED <<database, api>>
      BY <1>6 DEF RunScript
    <2>3. /\ runner[r].at \in 0 .. 18 /\ runner[r].goal \in 0 .. 18
          /\ runner[r].at # runner[r].goal
      BY <1>6 DEF RunScript, SchemasInv, IsRunner
    \* The schema the script finds, with what its transaction sees of the rows.
    <2>4. VisibleRevision(r) = runner[r].at => IsAt(schema, runner[r].at)
      <3> SUFFICES ASSUME VisibleRevision(r) = runner[r].at PROVE IsAt(schema, runner[r].at)
        OBVIOUS
      <3>1. CASE Open(r)
        <4>1. schema = runner[r].work.schema /\ runner[r].work.revision = runner[r].at
          BY <2>1, <3>1 DEF Visible, VisibleRevision
        <4> QED
          BY <3>1, <4>1 DEF SchemasInv, IsRunner, Open
      <3>2. CASE ~Open(r)
        <4>1. database.revision = runner[r].at
          BY <3>2 DEF VisibleRevision
        <4>2. \/ schema = database.schema
              \/ /\ schema = database.schema \cup {UnembeddedChunks}
                 /\ Table("chunks") \in database.schema
                 /\ Required("chunks", "embedding") \notin database.schema
          BY <2>1, <3>2 DEF Visible
        <4>3. IsAt(database.schema, runner[r].at)
          BY <4>1 DEF SchemasInv
        <4>4. CASE schema = database.schema \cup {UnembeddedChunks} /\ schema # database.schema
          <5>1. runner[r].at >= 11
            BY <2>3, <4>2, <4>3, <4>4, EmbeddingOptional
          <5> QED
            BY <4>3, <4>4, <5>1, Kinds, RowsAndRoles
        <4> QED
          BY <4>2, <4>3, <4>4
      <3> QED
        BY <3>1, <3>2
    <2>5. CASE VisibleRevision(r) = runner[r].at /\ after # Refused
      <3> DEFINE n == NextRevision(r)
                 x == [runner[r] EXCEPT !.at = n, !.work = [schema |-> after, revision |-> n]]
      <3>1. runner' = [runner EXCEPT ![r] = x]
        BY <2>1, <2>5 DEF SchemasInv
      <3>2. /\ runner[r].at \in 0 .. 18 /\ runner[r].goal \in 0 .. 18
            /\ runner[r].at # runner[r].goal
        BY <2>3
      <3>3. n \in Revisions /\ IsAt(after, n)
        <4>1. CASE runner[r].goal > runner[r].at
          <5>1. NextScript(r) = Upgrades[n] /\ n = runner[r].at + 1 /\ n \in 1 .. 18
            BY <3>2, <4>1 DEF NextScript, NextRevision
          <5> HIDE DEF n
          <5>2. IsAt(schema, n - 1)
            BY <2>4, <2>5, <3>2, <5>1
          <5>3. Reaches(schema, Run(schema, Upgrades[n]), n)
            BY <2>5, <5>1, <5>2, UpgradeLeads
          <5> QED
            BY <5>1, <5>3 DEF Reaches
        <4>2. CASE ~(runner[r].goal > runner[r].at)
          <5>1. PICK m \in 1 .. 18 : m = runner[r].at
            BY <3>2, <4>2
          <5>2. NextScript(r) = Downgrades[m] /\ n = m - 1
            BY <4>2, <5>1 DEF NextScript, NextRevision
          <5> HIDE DEF n
          <5>3. IsAt(schema, m)
            BY <2>4, <2>5, <5>1
          <5>4. Reaches(schema, Run(schema, Downgrades[m]), m - 1)
            BY <2>5, <5>2, <5>3, DowngradeLeads
          <5> QED
            BY <5>2, <5>4 DEF Reaches
        <4> QED
          BY <4>1, <4>2
      <3>4. IsRunner(runner[r])
        BY DEF SchemasInv
      <3> HIDE DEF n, after
      <3> DEFINE w == [schema |-> after, revision |-> n]
      <3>5. DOMAIN w = {"schema", "revision"} /\ w.schema = after /\ w.revision = n
        OBVIOUS
      <3> HIDE DEF w
      <3>6. IsRunner(x)
        <4>1. /\ DOMAIN x = {"pc", "code", "goal", "at", "work"}
              /\ x.pc = runner[r].pc /\ x.code = runner[r].code /\ x.goal = runner[r].goal
              /\ x.at = n /\ x.work = w
          BY <3>4 DEF IsRunner, w
        <4> HIDE DEF x
        <4> QED
          BY <3>3, <3>4, <3>5, <4>1 DEF IsRunner
      <3> HIDE DEF x
      <3>7. runner' = [o \in Runners |-> runner'[o]] /\ \A o \in Runners : IsRunner(runner'[o])
        BY <1>1, <3>1, <3>6
      <3> QED
        BY <2>2, <3>7 DEF SchemasInv
    <2>6. CASE ~(VisibleRevision(r) = runner[r].at /\ after # Refused)
      <3>1. VisibleRevision(r) = runner[r].at => Role("unstash_admin") \notin schema
        <4> SUFFICES ASSUME VisibleRevision(r) = runner[r].at, after = Refused,
                            Role("unstash_admin") \in schema
                     PROVE  FALSE
          BY <2>6
        <4>1. CASE runner[r].goal > runner[r].at
          <5>1. PICK n \in 1 .. 18 : n = runner[r].at + 1
            BY <2>3, <4>1
          <5>2. NextScript(r) = Upgrades[n] /\ n - 1 = runner[r].at
            BY <2>3, <4>1, <5>1 DEF NextScript
          <5>3. IsAt(schema, n - 1)
            BY <2>4, <5>2
          <5>4. Reaches(schema, Run(schema, Upgrades[n]), n)
            BY <5>3, UpgradeLeads
          <5> QED
            BY <5>2, <5>4 DEF Reaches
        <4>2. CASE ~(runner[r].goal > runner[r].at)
          <5>1. PICK m \in 1 .. 18 : m = runner[r].at
            BY <2>3, <4>2
          <5>2. NextScript(r) = Downgrades[m]
            BY <4>2, <5>1 DEF NextScript
          <5>3. IsAt(schema, m)
            BY <2>4, <5>1
          <5>4. Reaches(schema, Run(schema, Downgrades[m]), m - 1)
            BY <5>3, DowngradeLeads
          <5> QED
            BY <5>2, <5>4 DEF Reaches
        <4> QED
          BY <4>1, <4>2
      <3>2. runner' = [runner EXCEPT ![r] = Ended("idle")]
        BY <2>1, <2>6, <3>1
      <3>3. runner' = [o \in Runners |-> runner'[o]] /\ \A o \in Runners : IsRunner(runner'[o])
        BY <1>1, <3>2, EndedIsRunner
      <3> QED
        BY <2>2, <3>3 DEF SchemasInv
    <2> QED
      BY <2>5, <2>6
  <1>7. ASSUME NEW r \in Runners, Commit(r) PROVE SchemasInv'
    <2>1. UNCHANGED api
      BY <1>7 DEF Commit
    <2>2. /\ DOMAIN database' = {"schema", "revision"}
          /\ database'.revision \in Revisions
          /\ IsAt(database'.schema, database'.revision)
      <3>1. CASE Open(r)
        <4> DEFINE w == runner[r].work
        <4>1. /\ DOMAIN w = {"schema", "revision"} /\ w.revision \in Revisions
              /\ IsAt(w.schema, w.revision)
          BY <3>1 DEF SchemasInv, IsRunner, Open
        <4>2. database' = [w EXCEPT !.schema = @ \ {UnembeddedChunks}]
          BY <1>7, <3>1 DEF Commit
        <4> HIDE DEF w
        <4>3. /\ DOMAIN database' = {"schema", "revision"} /\ database'.revision = w.revision
              /\ database'.schema = w.schema \ {UnembeddedChunks}
          BY <4>1, <4>2
        <4>4. IsAt(w.schema \ {UnembeddedChunks}, w.revision)
          BY <4>1, Kinds, RowsAndRoles
        <4> QED
          BY <4>1, <4>3, <4>4
      <3>2. CASE ~Open(r)
        BY <1>7, <3>2 DEF Commit, SchemasInv
      <3> QED
        BY <3>1, <3>2
    <2> DEFINE x == IF r = Operator THEN Ended("idle") ELSE [Ended("up") EXCEPT !.code = runner[r].code]
    <2>3. runner' = [runner EXCEPT ![r] = x]
      BY <1>7 DEF Commit
    <2>4. IsRunner(x)
      <3>1. runner[r].code \in Revisions
        BY DEF SchemasInv, IsRunner
      <3>2. Ended("up").work = NoWork /\ IsRunner(Ended("up"))
        BY EndedIsRunner
      <3>3. IsRunner([Ended("up") EXCEPT !.code = runner[r].code])
        BY <3>1, <3>2 DEF IsRunner
      <3> QED
        BY <3>3, EndedIsRunner
    <2> HIDE DEF x
    <2>5. runner' = [o \in Runners |-> runner'[o]] /\ \A o \in Runners : IsRunner(runner'[o])
      BY <1>1, <2>3, <2>4
    <2> QED
      BY <2>1, <2>2, <2>5 DEF SchemasInv
  <1>8. ASSUME NEW r \in Runners, Abort(r) PROVE SchemasInv'
    <2>1. runner' = [runner EXCEPT ![r] = Ended("idle")] /\ UNCHANGED <<database, api>>
      BY <1>8 DEF Abort
    <2>2. runner' = [o \in Runners |-> runner'[o]] /\ \A o \in Runners : IsRunner(runner'[o])
      BY <1>1, <2>1, EndedIsRunner
    <2> QED
      BY <2>1, <2>2 DEF SchemasInv
  <1>9. CASE CreateAdminRole
    <2>1. /\ DOMAIN database' = {"schema", "revision"} /\ database'.revision = database.revision
          /\ database'.schema = database.schema \cup {Role("unstash_admin")}
          /\ UNCHANGED <<runner, api>>
      BY <1>9 DEF CreateAdminRole, SchemasInv
    <2>2. IsAt(database.schema \cup {Role("unstash_admin")}, database.revision)
      <3>1. IsAt(database.schema, database.revision)
        BY DEF SchemasInv
      <3>2. Role("unstash_admin") # UnembeddedChunks
        BY Kinds
      <3>3. UnembeddedChunks \in database.schema => database.revision >= 11
        BY <3>1 DEF IsAt
      <3> QED
        BY <3>1, <3>2, <3>3, Kinds, RowsAndRoles
    <2> QED
      BY <2>1, <2>2 DEF SchemasInv
  <1>10. CASE StartServing \/ Restart
    <2>1. UNCHANGED <<database, runner>> /\ \E state : api' = [api EXCEPT !.state = state]
      BY <1>10 DEF StartServing, Restart
    <2>2. api'.code \in Revisions
      BY <2>1 DEF SchemasInv
    <2> QED
      BY <2>1, <2>2 DEF SchemasInv
  <1>11. CASE UNCHANGED vars
    BY <1>11 DEF vars, SchemasInv
  <1> QED
    BY <1>2, <1>3, <1>4, <1>5, <1>6, <1>7, <1>8, <1>9, <1>10, <1>11 DEF Next

\* It is an invariant.
LEMMA SchemasInvHolds == Spec => []SchemasInv
  <1>1. Init => SchemasInv
    BY SchemasInvInit
  <1>2. SchemasInv /\ [Next]_vars => SchemasInv'
    BY SchemasInvStep
  <1> QED
    BY <1>1, <1>2, PTL DEF Spec

\* Every schema there is.
LEMMA SchemasAreOfRevision ==
    SchemasInv => \A db \in Schemas : db.revision \in 0 .. 18 /\ IsAt(db.schema, db.revision)
  <1> SUFFICES ASSUME SchemasInv, NEW db \in Schemas
               PROVE  db.revision \in 0 .. 18 /\ IsAt(db.schema, db.revision)
    OBVIOUS
  <1>1. CASE db = database
    BY <1>1, RevisionsAre DEF SchemasInv
  <1>2. CASE \E r \in Runners : Open(r) /\ db = runner[r].work
    BY <1>2, RevisionsAre DEF SchemasInv, IsRunner, Open
  <1> QED
    BY <1>1, <1>2 DEF Schemas

\* Whatever upgrades, downgrades, overlapping deploys and lost connections led to it, a
\* schema from 0006 on isolates the organisations (alembic/versions 0006, 0012, 0017 and
\* 0018): every table with org_id but api_tokens has row-level security and the policy.
THEOREM OrganisationsIsolated == Spec => []TenantsIsolated
  <1>1. SchemasInv => TenantsIsolated
    <2> SUFFICES ASSUME SchemasInv, NEW db \in Schemas, db.revision >= 6, NEW t \in TenantTables(db.schema)
                 PROVE  TenantIsolation(t) \subseteq db.schema
      BY DEF TenantsIsolated
    <2>1. db.revision \in 6 .. 18 /\ IsAt(db.schema, db.revision)
      BY SchemasAreOfRevision
    <2> QED
      BY <2>1, IsolatedAt
  <1> QED
    BY <1>1, SchemasInvHolds, PTL

\* Every table of every schema is granted to the application role, and from 0008 on to
\* the admin role: 0008 grants the tables there are, the default privileges it and
\* docker/init-db.sh set the ones to come, and no downgrade but its own takes any away.
THEOREM RolesReach == Spec => []RolesReachTables
  <1>1. SchemasInv => RolesReachTables
    <2> SUFFICES ASSUME SchemasInv, NEW db \in Schemas, NEW t \in Tables(db.schema)
                 PROVE  /\ Grant(t, "unstash_app") \in db.schema
                        /\ db.revision >= 8 => Grant(t, "unstash_admin") \in db.schema
      BY DEF RolesReachTables
    <2>1. IsAt(db.schema, db.revision)
      BY SchemasAreOfRevision
    <2> QED
      BY <2>1 DEF IsAt, Grants, Granted
  <1> QED
    BY <1>1, SchemasInvHolds, PTL

\* A schema is the one its revision has after upgrades alone, whatever upgrades and
\* downgrades led to it: each downgrade of alembic/versions undoes its upgrade exactly,
\* also 0011's and 0014's.  And no script is refused by the schema its predecessor left,
\* in either direction.
THEOREM SchemaFollowsRevision == Spec => []HistoryIndependent
  <1>1. SchemasInv => HistoryIndependent
    <2> SUFFICES ASSUME SchemasInv PROVE HistoryIndependent
      OBVIOUS
    <2>1. ASSUME NEW db \in Schemas
          PROVE  Managed(db.schema, db.revision) = Managed(SchemaAt[db.revision], db.revision)
      <3> DEFINE S == db.schema
                 r == db.revision
      <3>1. r \in 0 .. 18 /\ IsAt(S, r) /\ IsAt(SchemaAt[r], r)
        BY SchemasAreOfRevision, UpgradedSchemas
      <3> HIDE DEF S, r
      <3>2. Managed(S, r) \subseteq Managed(SchemaAt[r], r)
            /\ Managed(SchemaAt[r], r) \subseteq Managed(S, r)
        BY <3>1, ManagedIs
      <3> QED
        BY <3>2 DEF S, r
    <2>2. \A r \in Runners : runner[r].pc # "stuck"
      BY DEF SchemasInv, IsRunner
    <2> QED
      BY <2>1, <2>2 DEF HistoryIndependent
  <1> QED
    BY <1>1, SchemasInvHolds, PTL

-----------------------------------------------------------------------------
(* How far the runners are, and the code that runs.                        *)
\* Where runner r is, with record x, relative to the committed database db and
\* to whether the schema was taken back.
Phase(r, x, db, back) ==
    /\ x.work # NoWork => x.pc = "scripts" /\ x.work.revision = x.at
    /\ r \in Deploys /\ x.pc \in {"begin", "scripts"} => x.goal = x.code
    /\ r \in Deploys /\ x.pc \in {"begin", "scripts", "up"} => x.code \in Codes
    /\ ~back =>
          /\ x.pc = "scripts" /\ x.work = NoWork => x.at <= db.revision
          /\ r \in Deploys /\ x.pc = "up" => x.code <= db.revision
          /\ x.work # NoWork =>
                \/ db.revision < x.at /\ x.at <= x.goal
                \/ x.at < db.revision /\ x.goal <= x.at

\* At most one transaction is open, every runner is where its phase says, and the
\* containers run deployed code for which the schema is not too old.
RunnersInv ==
    /\ SchemasInv
    /\ \A r, o \in Runners : Open(r) /\ Open(o) => r = o
    /\ \A r \in Runners : Phase(r, runner[r], database, downgraded)
    /\ worker \in Codes \cup {0}
    /\ api.state # "none" => api.code \in Codes
    /\ DOMAIN api = {"code", "state"}
    /\ downgraded \in BOOLEAN
    /\ ~downgraded => worker <= database.revision /\ api.code <= database.revision

\* A runner that ended is in no phase.
LEMMA EndedPhase ==
    ASSUME NEW how, how \notin {"begin", "scripts", "up"}, NEW r, NEW db, NEW back
    PROVE  Phase(r, Ended(how), db, back)
  <1>1. Ended(how).pc = how /\ Ended(how).work = NoWork
    BY DEF Ended, NewRunner
  <1> QED
    BY <1>1 DEF Phase

\* A step of one runner that changes nothing else about alembic.
LEMMA OneRunner ==
    ASSUME RunnersInv, NEW r \in Runners, NEW x, runner' = [runner EXCEPT ![r] = x],
           UNCHANGED <<database, downgraded>>,
           Phase(r, x, database, downgraded),
           x.work # NoWork => \A o \in Runners \ {r} : ~Open(o)
    PROVE  /\ \A o, q \in Runners : Open(o)' /\ Open(q)' => o = q
           /\ \A o \in Runners : Phase(o, runner'[o], database', downgraded')
  <1>1. \A o \in Runners : runner'[o] = IF o = r THEN x ELSE runner[o]
    BY DEF RunnersInv, SchemasInv
  <1>2. \A o \in Runners : Phase(o, runner'[o], database', downgraded')
    BY <1>1 DEF RunnersInv
  <1>3. \A o, q \in Runners : Open(o)' /\ Open(q)' => o = q
    BY <1>1 DEF RunnersInv, Open
  <1> QED
    BY <1>2, <1>3

\* It is an invariant: a commit moves the revision up, or down and says so.
LEMMA RunnersInvHolds == Spec => []RunnersInv
  <1>1. Init => RunnersInv
    <2> SUFFICES ASSUME Init PROVE RunnersInv
      OBVIOUS
    <2>1. \A r \in Runners : runner[r] = NewRunner
      BY DEF Init
    <2>2. NewRunner.work = NoWork /\ NewRunner.pc = "idle"
      BY DEF NewRunner
    <2>3. \A r \in Runners : Phase(r, runner[r], database, downgraded)
      BY <2>1, <2>2 DEF Phase
    <2>4. \A r, o \in Runners : Open(r) /\ Open(o) => r = o
      BY <2>1, <2>2 DEF Open
    <2>5. SchemasInv
      BY SchemasInvInit
    <2>6. database.revision \in {0, 7}
      BY DEF Init
    <2>7. /\ worker = 0 /\ api = [code |-> 0, state |-> "none"] /\ downgraded = FALSE
      BY DEF Init
    <2>8. worker <= database.revision /\ api.code <= database.revision
      BY <2>6, <2>7
    <2>9. DOMAIN api = {"code", "state"} /\ api.state = "none"
      BY <2>7
    <2>10. worker \in Codes \cup {0} /\ downgraded \in BOOLEAN
      BY <2>7
    <2> QED
      BY <2>3, <2>4, <2>5, <2>6, <2>8, <2>9, <2>10 DEF RunnersInv
  <1>2. RunnersInv /\ [Next]_vars => RunnersInv'
    <2> SUFFICES ASSUME RunnersInv, [Next]_vars PROVE RunnersInv'
      OBVIOUS
    <2> USE RevisionsAre
    <2>1. SchemasInv /\ SchemasInv'
      BY SchemasInvStep DEF RunnersInv
    <2>2. ASSUME UNCHANGED <<database, api, worker, downgraded>>,
                 NEW r \in Runners, NEW x, runner' = [runner EXCEPT ![r] = x],
                 Phase(r, x, database, downgraded),
                 x.work # NoWork => \A o \in Runners \ {r} : ~Open(o)
          PROVE  RunnersInv'
      <3>1. /\ \A o, q \in Runners : Open(o)' /\ Open(q)' => o = q
            /\ \A o \in Runners : Phase(o, runner'[o], database', downgraded')
        BY <2>2, OneRunner
      <3> QED
        BY <2>1, <2>2, <3>1 DEF RunnersInv
    <2>3. ASSUME NEW d \in Deploys, NEW c \in Codes, StartDeploy(d, c) PROVE RunnersInv'
      <3> DEFINE x == [NewRunner EXCEPT !.pc = "begin", !.code = c, !.goal = c]
      <3>1. x.pc = "begin" /\ x.code = c /\ x.goal = c /\ x.work = NoWork
        BY DEF NewRunner
      <3>2. runner' = [runner EXCEPT ![d] = x] /\ UNCHANGED <<database, api, worker, downgraded>>
        BY <2>3 DEF StartDeploy
      <3> HIDE DEF x
      <3>3. Phase(d, x, database, downgraded)
        BY <3>1 DEF Phase
      <3>4. d \in Runners
        BY DEF Runners
      <3> QED
        BY <2>2, <3>1, <3>2, <3>3, <3>4
    <2>4. ASSUME NEW d \in Deploys, Up(d) PROVE RunnersInv'
      <3>1. /\ runner' = [runner EXCEPT ![d] = Ended("idle")]
            /\ UNCHANGED <<database, downgraded>> /\ d \in Runners
        BY <2>4 DEF Up, Runners
      <3>2. /\ \A o, q \in Runners : Open(o)' /\ Open(q)' => o = q
            /\ \A o \in Runners : Phase(o, runner'[o], database', downgraded')
        <4>1. Ended("idle").work = NoWork
          BY EndedIsRunner
        <4>2. Phase(d, Ended("idle"), database, downgraded)
          BY EndedPhase
        <4> QED
          BY <3>1, <4>1, <4>2, OneRunner
      <3>3. /\ runner[d].code \in Codes
            /\ ~downgraded => runner[d].code <= database.revision
        BY <2>4 DEF Up, RunnersInv, Phase, Runners
      <3>4. /\ worker' = runner[d].code
            /\ \/ api' = api /\ api.code = runner[d].code
               \/ api' = [code |-> runner[d].code, state |-> "starting"]
        BY <2>4 DEF Up
      <3> QED
        BY <2>1, <3>1, <3>2, <3>3, <3>4 DEF RunnersInv
    <2>5. ASSUME NEW goal \in Goals \cup Codes, StartByHand(goal) PROVE RunnersInv'
      <3> DEFINE x == [NewRunner EXCEPT !.pc = "begin", !.code = api.code, !.goal = goal]
      <3>1. x.pc = "begin" /\ x.work = NoWork
        BY DEF NewRunner
      <3>2. runner' = [runner EXCEPT ![Operator] = x] /\ UNCHANGED <<database, api, worker, downgraded>>
        BY <2>5 DEF StartByHand
      <3> HIDE DEF x
      <3>3. Phase(Operator, x, database, downgraded)
        BY <3>1, DeploymentAssumption DEF Phase
      <3>4. Operator \in Runners
        BY DEF Runners
      <3> QED
        BY <2>2, <3>1, <3>2, <3>3, <3>4
    <2>6. ASSUME NEW r \in Runners, Begin(r) PROVE RunnersInv'
      <3>1. UNCHANGED <<database, api, worker, downgraded>>
        BY <2>6 DEF Begin
      <3>2. CASE database.revision <= runner[r].code
        <4> DEFINE x == [runner[r] EXCEPT !.pc = "scripts", !.at = database.revision]
        <4>1. runner' = [runner EXCEPT ![r] = x]
          BY <2>1, <2>6, <3>2 DEF Begin, SchemasInv
        <4>2. /\ DOMAIN runner[r] = {"pc", "code", "goal", "at", "work"}
              /\ runner[r].pc = "begin"
              /\ Phase(r, runner[r], database, downgraded)
          BY <2>1, <2>6 DEF Begin, RunnersInv, SchemasInv, IsRunner
        <4>3. /\ x.pc = "scripts" /\ x.at = database.revision /\ x.code = runner[r].code
              /\ x.goal = runner[r].goal /\ x.work = runner[r].work
          BY <4>2
        <4>4. x.work = NoWork
          BY <4>2, <4>3 DEF Phase
        <4> HIDE DEF x
        <4>5. database.revision <= database.revision
          BY <2>1 DEF SchemasInv
        <4>6. Phase(r, x, database, downgraded)
          BY <4>2, <4>3, <4>4, <4>5 DEF Phase
        <4> QED
          BY <2>2, <3>1, <4>1, <4>4, <4>6
      <3>3. CASE ~(database.revision <= runner[r].code)
        <4>1. runner' = [runner EXCEPT ![r] = Ended("unknown_revision")]
          BY <2>6, <3>3 DEF Begin
        <4>2. Phase(r, Ended("unknown_revision"), database, downgraded)
          BY EndedPhase
        <4> QED
          BY <2>2, <3>1, <4>1, <4>2, EndedIsRunner
      <3> QED
        BY <3>2, <3>3
    <2>7. ASSUME NEW r \in Runners, RunScript(r) PROVE RunnersInv'
      <3>1. UNCHANGED <<database, api, worker, downgraded>> /\ \A o \in Runners \ {r} : ~Open(o)
        BY <2>7 DEF RunScript
      <3>2. PICK schema \in Visible(r) :
               LET after == Run(schema, NextScript(r)) IN
               runner' =
                  IF VisibleRevision(r) = runner[r].at /\ after # Refused
                  THEN [runner EXCEPT ![r].at = NextRevision(r),
                                      ![r].work = [schema |-> after, revision |-> NextRevision(r)]]
                  ELSE [runner EXCEPT ![r] = Ended(IF /\ VisibleRevision(r) = runner[r].at
                                                      /\ Role("unstash_admin") \in schema
                                                   THEN "stuck" ELSE "idle")]
        BY <2>7 DEF RunScript
      <3> DEFINE after == Run(schema, NextScript(r))
      <3>3. CASE VisibleRevision(r) = runner[r].at /\ after # Refused
        <4> DEFINE n == NextRevision(r)
                   w == [schema |-> after, revision |-> n]
                   x == [runner[r] EXCEPT !.at = n, !.work = w]
        <4>1. runner' = [runner EXCEPT ![r] = x]
          BY <2>1, <3>2, <3>3 DEF SchemasInv
        <4>2. /\ runner[r].at \in 0 .. 18 /\ runner[r].goal \in 0 .. 18
              /\ runner[r].at # runner[r].goal /\ runner[r].pc = "scripts"
              /\ DOMAIN runner[r] = {"pc", "code", "goal", "at", "work"}
              /\ database.revision \in 0 .. 18
              /\ Phase(r, runner[r], database, downgraded)
          BY <2>1, <2>7 DEF RunScript, RunnersInv, SchemasInv, IsRunner
        <4>3. /\ x.pc = "scripts" /\ x.at = n /\ x.code = runner[r].code
              /\ x.goal = runner[r].goal /\ x.work = w
              /\ w.schema = after /\ w.revision = n
          BY <4>2
        <4> HIDE DEF x, w
        \* Where the transaction stands: before its first script at the
        \* committed revision, afterwards above it or below.
        <4>4. ~downgraded =>
                 \/ database.revision <= runner[r].at /\ runner[r].goal > runner[r].at
                 \/ runner[r].at <= database.revision /\ runner[r].goal < runner[r].at
          <5>1. CASE Open(r)
            BY <4>2, <5>1 DEF Phase, Open
          <5>2. CASE ~Open(r)
            BY <3>3, <4>2, <5>2 DEF VisibleRevision
          <5> QED
            BY <5>1, <5>2
        <4>5. runner[r].goal > runner[r].at => n = runner[r].at + 1 /\ n \in 1 .. 18
          BY <4>2 DEF NextRevision
        <4>6. runner[r].goal < runner[r].at => n = runner[r].at - 1 /\ n \in 0 .. 17
          BY <4>2 DEF NextRevision
        <4> HIDE DEF n, after
        <4>7. n <= 18 /\ n \in Nat
          BY <4>2, <4>5, <4>6
        <4>8. ~downgraded =>
                 \/ database.revision < n /\ n <= runner[r].goal
                 \/ n < database.revision /\ runner[r].goal <= n
          BY <4>2, <4>4, <4>5, <4>6
        <4>9. x.work = NoWork => n = 0
          BY <4>3 DEF NoWork
        <4>10. 0 <= database.revision
          BY <4>2
        <4>11. Phase(r, x, database, downgraded)
          BY <4>2, <4>3, <4>8, <4>9, <4>10 DEF Phase
        <4> QED
          BY <2>2, <3>1, <4>1, <4>11
      <3>4. CASE ~(VisibleRevision(r) = runner[r].at /\ after # Refused)
        <4>1. PICK how \in {"stuck", "idle"} : runner' = [runner EXCEPT ![r] = Ended(how)]
          BY <3>2, <3>4
        <4>2. Phase(r, Ended(how), database, downgraded)
          BY <4>1, EndedPhase
        <4> QED
          BY <2>2, <3>1, <4>1, <4>2, EndedIsRunner
      <3> QED
        BY <3>3, <3>4
    <2>8. ASSUME NEW r \in Runners, Commit(r) PROVE RunnersInv'
      <3> DEFINE x == IF r = Operator THEN Ended("idle")
                      ELSE [Ended("up") EXCEPT !.code = runner[r].code]
      <3>1. /\ runner' = [runner EXCEPT ![r] = x] /\ UNCHANGED <<api, worker>>
            /\ downgraded' = (downgraded \/ database'.revision < database.revision)
            /\ runner[r].pc = "scripts" /\ runner[r].at = runner[r].goal
        BY <2>8 DEF Commit
      <3>2. x.work = NoWork /\ (r = Operator => x.pc = "idle")
            /\ (r # Operator => x.pc = "up" /\ x.code = runner[r].code)
        BY DEF Ended, NewRunner
      <3> HIDE DEF x
      <3>3. \A o \in Runners : runner'[o] = IF o = r THEN x ELSE runner[o]
        BY <2>1, <3>1 DEF SchemasInv
      <3>4. \A o, q \in Runners : Open(o)' /\ Open(q)' => o = q
        BY <3>2, <3>3 DEF RunnersInv, Open
      <3>5. /\ database.revision \in 0 .. 18 /\ database'.revision \in 0 .. 18
            /\ runner[r].at \in 0 .. 18 /\ runner[r].goal \in 0 .. 18 /\ runner[r].code \in 0 .. 18
            /\ downgraded \in BOOLEAN
            /\ Phase(r, runner[r], database, downgraded)
        BY <2>1 DEF SchemasInv, RunnersInv, IsRunner
      \* A transaction that is open commits its revision.
      <3>6. CASE Open(r)
        <4> DEFINE w == runner[r].work
        <4>1. /\ DOMAIN w = {"schema", "revision"} /\ w # NoWork /\ w.revision = runner[r].at
          BY <2>1, <3>5, <3>6 DEF SchemasInv, IsRunner, Open, Phase
        <4>2. database' = [w EXCEPT !.schema = @ \ {UnembeddedChunks}]
          BY <2>8, <3>6 DEF Commit
        <4> HIDE DEF w
        <4>3. database'.revision = runner[r].at /\ database'.schema = w.schema \ {UnembeddedChunks}
          BY <4>1, <4>2
        <4>4. \A o \in Runners \ {r} : ~Open(o)
          BY <3>6 DEF RunnersInv
        <4>5. ~downgraded' => ~downgraded /\ database.revision <= database'.revision
          <5>1. ~downgraded' => ~downgraded /\ ~(database'.revision < database.revision)
            BY <3>1, Zenon
          <5> QED
            BY <3>5, <5>1
        <4>6. \A o \in Runners : Phase(o, runner'[o], database', downgraded')
          <5> SUFFICES ASSUME NEW o \in Runners PROVE Phase(o, runner'[o], database', downgraded')
            OBVIOUS
          <5>1. CASE o = r
            <6>1. r \in Deploys => r # Operator
              BY DeploymentAssumption
            <6>2. r \in Deploys => runner[r].code \in Codes /\ runner[r].code = database'.revision
              BY <3>1, <3>5, <4>3 DEF Phase
            <6> QED
              BY <3>2, <3>3, <3>5, <5>1, <6>1, <6>2 DEF Phase
          <5>2. CASE o # r
            <6>1. runner'[o] = runner[o] /\ runner[o].work = NoWork
              BY <3>3, <4>4, <5>2 DEF Open
            <6>2. Phase(o, runner[o], database, downgraded) /\ runner[o].at \in 0 .. 18
                  /\ runner[o].code \in 0 .. 18
              BY <2>1 DEF RunnersInv, SchemasInv, IsRunner
            <6> QED
              BY <3>5, <4>5, <6>1, <6>2 DEF Phase
          <5> QED
            BY <5>1, <5>2
        <4>7. api.code \in 0 .. 18 /\ worker \in 0 .. 18
          BY <2>1, DeploymentAssumption DEF SchemasInv, RunnersInv
        <4>8. ~downgraded' => worker' <= database'.revision /\ api'.code <= database'.revision
          BY <3>1, <3>5, <4>5, <4>7 DEF RunnersInv
        <4>9. downgraded' \in BOOLEAN
          BY <3>1, <3>5
        <4> QED
          BY <2>1, <3>1, <3>4, <4>6, <4>8, <4>9 DEF RunnersInv
      <3>7. CASE ~Open(r)
        <4>1. database' = database
          BY <2>8, <3>7 DEF Commit
        <4>2. downgraded' = downgraded
          BY <3>1, <3>5, <4>1
        <4>3. Phase(r, x, database, downgraded)
          <5>1. runner[r].work = NoWork
            BY <3>7 DEF Open
          <5>2. r \in Deploys => r # Operator
            BY DeploymentAssumption
          <5>3. r \in Deploys => /\ runner[r].code \in Codes
                                 /\ ~downgraded => runner[r].code <= database.revision
            BY <3>1, <3>5, <5>1 DEF Phase
          <5> QED
            BY <3>2, <5>2, <5>3 DEF Phase
        <4> QED
          BY <2>2, <3>1, <3>2, <4>1, <4>2, <4>3
      <3> QED
        BY <3>6, <3>7
    <2>9. ASSUME NEW r \in Runners, Abort(r) PROVE RunnersInv'
      <3>1. /\ runner' = [runner EXCEPT ![r] = Ended("idle")]
            /\ UNCHANGED <<database, api, worker, downgraded>>
        BY <2>9 DEF Abort
      <3>2. Phase(r, Ended("idle"), database, downgraded)
        BY EndedPhase
      <3> QED
        BY <2>2, <3>1, <3>2, EndedIsRunner
    <2>10. CASE CreateAdminRole
      <3>1. /\ database'.revision = database.revision
            /\ database'.schema = database.schema \cup {Role("unstash_admin")}
            /\ UNCHANGED <<runner, api, worker, downgraded>> /\ \A r \in Runners : ~Open(r)
        BY <2>1, <2>10 DEF CreateAdminRole, SchemasInv
      <3>2. ASSUME NEW r \in Runners PROVE Phase(r, runner'[r], database', downgraded')
        <4>1. Phase(r, runner[r], database, downgraded) /\ runner'[r] = runner[r]
          BY <3>1 DEF RunnersInv
        <4> QED
          BY <3>1, <4>1 DEF Phase
      <3>3. \A o, q \in Runners : Open(o)' /\ Open(q)' => o = q
        BY <3>1 DEF Open
      <3> QED
        BY <2>1, <3>1, <3>2, <3>3 DEF RunnersInv
    <2>11. CASE StartServing \/ Restart
      <3>1. /\ UNCHANGED <<database, runner, worker, downgraded>>
            /\ api.state \in {"starting", "serving"}
            /\ \E state : api' = [api EXCEPT !.state = state]
        BY <2>11 DEF StartServing, Restart
      <3>2. DOMAIN api = {"code", "state"} /\ api.code \in Codes
        BY <3>1 DEF RunnersInv
      <3>3. DOMAIN api' = {"code", "state"} /\ api'.code = api.code
        BY <3>1, <3>2
      <3>4. \A o, q \in Runners : Open(o)' /\ Open(q)' => o = q
        BY <3>1 DEF RunnersInv, Open
      <3> QED
        BY <2>1, <3>1, <3>2, <3>3, <3>4 DEF RunnersInv
    <2>12. CASE UNCHANGED vars
      BY <2>1, <2>12 DEF vars, RunnersInv, Open
    <2> QED
      BY <2>3, <2>4, <2>5, <2>6, <2>7, <2>8, <2>9, <2>10, <2>11, <2>12 DEF Next
  <1> QED
    BY <1>1, <1>2, PTL DEF Spec

\* For deployed versions from 0008 on, and until an operator takes the schema back: the
\* API that serves and the worker find a schema no older than their code and one their
\* code runs on, in the window of .github/workflows/deploy.yaml:209-251 between the
\* migrations and `up -d` too, however many deploys overlap.  Versions before 0008 are
\* left out because their schema in a new database has grants that a database without
\* the admin role lacks.
THEOREM RunningCodeHasItsSchema ==
    ASSUME \A c \in Codes : c >= 8
    PROVE  Spec => []RunningCodeHasSchema
  <1>1. RunnersInv => RunningCodeHasSchema
    <2> SUFFICES ASSUME RunnersInv, ~downgraded,
                        NEW c \in (IF api.state = "serving" THEN {api.code} ELSE {})
                                  \cup ({worker} \ {0})
                 PROVE  c <= database.revision /\ CodeRuns(SchemaAt[c], database.schema)
      BY DEF RunningCodeHasSchema
    <2>1. c \in Codes /\ c <= database.revision
      BY DEF RunnersInv
    <2>2. database.revision \in 0 .. 18
      BY RevisionsAre DEF RunnersInv, SchemasInv
    <2>3. c \in 8 .. database.revision
      BY <2>1, <2>2, RevisionsAre, DeploymentAssumption
    <2>4. IsAt(database.schema, database.revision) /\ database.revision \in 8 .. 18
      BY <2>2, <2>3 DEF RunnersInv, SchemasInv
    <2> QED
      BY <2>1, <2>3, <2>4, CodeRunsAt
  <1> QED
    BY <1>1, RunnersInvHolds, PTL
=============================================================================
