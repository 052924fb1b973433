----------------------------- MODULE Migrations -----------------------------
(***************************************************************************)
(* The schema of a new database: at every start GORM's AutoMigrate         *)
(* (src/internal/store/db.go) and then, with SQLite only, the registered   *)
(* migrations (src/internal/store/migrations.go, migrations_v2.go) that    *)
(* have a higher version than the highest that is recorded; an error ends  *)
(* the program (src/cmd/server/main.go).                                   *)
(*                                                                         *)
(* Of a table only the columns that a migration indexes are modelled, and  *)
(* the indexes of a table are created in one step.                         *)
(***************************************************************************)
EXTENDS Integers, Sequences, FiniteSetsExt

CONSTANT MaxStops  \* bound: the process dies

ASSUME MigrationsAssumption == MaxStops \in Nat

-----------------------------------------------------------------------------
(* Statements *)

Table(name, columns) == [table |-> name, columns |-> columns]
Making(x, s) == [i \in DOMAIN s |-> [table |-> s[i].table, columns |-> s[i].columns, make |-> x]]
Tables(s) == Making("table", s)
Indexes(s) == Making("index", s)
Creates(s) == Tables(s) \o Indexes(s)

\* Tables of the models, with the columns that their structs have.
AutoMigrated ==
    {Table("campaign_recipients", {"campaign_id", "status", "contact_id"}),
     Table("bounce_events", {"email", "processed_at", "campaign_id"}),
     Table("email_stats", {"domain", "date"}),
     Table("proxies", {"is_active"}), Table("sending_ips", {"is_active"}),
     Table("organizations", {"slug"}), Table("organization_users", {"organization_id", "admin_id"}),
     Table("contact_v2s", {"organization_id", "list_id", "email", "status"}),
     Table("email_templates", {"organization_id", "category"}),
     Table("campaign_v2s", {"organization_id", "status", "scheduled_at"}),
     Table("automation_workflows", {"is_active"}),
     Table("tags", {"name"}), Table("segments", {"name"}),
     Table("subscriber_activities", {"contact_id", "event_type", "created_at"})}

PerformanceIndexes ==
    Indexes(<<Table("campaign_recipients", {"status", "campaign_id"}),
              Table("bounce_events", {"email", "processed_at"}),
              Table("email_stats", {"domain", "date"}),
              Table("subscriber_activities", {"contact_id", "created_at"})>>)
AuditLogs == Creates(<<Table("audit_logs", {"timestamp", "actor", "action"})>>)
ProxiesAndIPs == Creates(<<Table("proxies", {"is_active"}), Table("sending_ips", {"is_active"})>>)
ComplaintLogs == Creates(<<Table("complaint_logs", {"email", "campaign_id", "received_at"})>>)
Organizations ==
    Creates(<<Table("organizations", {}),
              Table("organization_users", {"organization_id", "admin_id"})>>)
ContactsV2 == Creates(<<Table("contact_v2s", {"organization_id", "list_id", "email", "status"})>>)
EmailTemplates == Creates(<<Table("email_templates", {"organization_id", "category"})>>)
CampaignsV2 == Creates(<<Table("campaign_v2s", {"organization_id", "status", "scheduled_at"})>>)
AutomationWorkflows ==
    Creates(<<Table("automation_workflows", {"organization_id"}), Table("automation_steps", {"workflow_id"}),
              Table("automation_enrollments", {"workflow_id", "contact_id"})>>)
ListsV2 ==
    Creates(<<Table("list_v2s", {"organization_id"}), Table("tags", {"organization_id"}),
              Table("contact_tags", {"contact_id", "tag_id"}), Table("segments", {"organization_id"})>>)
SubscriberActivities ==
    Creates(<<Table("subscriber_activities", {"contact_id", "activity_type", "created_at"}),
              Table("email_events", {"campaign_id", "contact_id", "event_type"})>>)

M(version, up) == [version |-> version, up |-> up]

\* In the order of registration: init appends those of migrations_v2.go.  The
\* errors of 12 and 16 are only printed, so they are as good as empty.
RegisteredMigrations ==
    <<M(1, <<>>), M(2, PerformanceIndexes), M(3, AuditLogs), M(4, ProxiesAndIPs),
      M(5, ComplaintLogs), M(12, <<>>), M(16, <<>>),
      M(5, Organizations), M(6, ContactsV2), M(7, EmailTemplates), M(8, CampaignsV2),
      M(9, AutomationWorkflows), M(10, ListsV2), M(11, SubscriberActivities)>>

Migration == DOMAIN RegisteredMigrations
Version(m) == RegisteredMigrations[m].version
Up(m) == RegisteredMigrations[m].up
-----------------------------------------------------------------------------
VARIABLES
    driver,    \* sqlite, the default, or postgres
    schema,    \* tables, with their columns
    indexes,   \* the indexed columns of a table
    recorded,  \* schema_migrations
    phase,     \* the process: down, pending, next, up, serving
    pending,   \* the migrations that Migrate has still to run
    current,   \* the one it runs, and its next statement
    stops

migrationVars == <<driver, schema, indexes, recorded, phase, pending, current, stops>>
databaseVars == <<driver, schema, indexes, recorded>>

NoMigration == [migration |-> 1, statement |-> 1]
CurrentVersion == Max(recorded \cup {0})
Columns(t) == UNION {x.columns : x \in {y \in schema : y.table = t}}
Exists(t) == \E x \in schema : x.table = t

MigrationsInit ==
    /\ driver \in {"sqlite", "postgres"}
    /\ schema = {} /\ indexes = {} /\ recorded = {}
    /\ phase = "down" /\ pending = {} /\ current = NoMigration
    /\ stops = 0

\* Tables and columns that are missing are added, and none is changed.
AutoMigrate ==
    /\ phase = "down"
    /\ schema' = {x \in schema : \A y \in AutoMigrated : y.table # x.table}
                   \cup {[x EXCEPT !.columns = @ \cup Columns(x.table)] : x \in AutoMigrated}
    /\ phase' = IF driver = "sqlite" THEN "pending" ELSE "serving"
    /\ UNCHANGED <<driver, indexes, recorded, pending, current, stops>>

AfterMigration(rest) == IF rest = {} THEN "serving" ELSE "next"

PendingMigrations ==
    /\ phase = "pending"
    /\ pending' = {m \in Migration : Version(m) > CurrentVersion}
    /\ phase' = AfterMigration(pending')
    /\ UNCHANGED <<databaseVars, current, stops>>

\* The sort is not stable: of two with the same version either may come first.
NextMigration ==
    /\ phase = "next"
    /\ \E m \in pending :
        /\ \A n \in pending : Version(m) <= Version(n)
        /\ pending' = pending \ {m}
        /\ current' = [migration |-> m, statement |-> 1]
    /\ phase' = "up"
    /\ UNCHANGED <<databaseVars, stops>>

\* Mutant: an error is only printed, as in the migrations 12 and 16.
StatementLenient ==
    LET m == current.migration
        s == Up(m)[current.statement]
        on == [table |-> s.table, columns |-> s.columns]
        fails == s.make = "index" /\ ~(s.columns \subseteq Columns(s.table))
    IN  /\ phase = "up" /\ current.statement <= Len(Up(m))
        /\ schema' = IF s.make = "index" \/ Exists(s.table) THEN schema ELSE schema \cup {on}
        /\ indexes' = IF s.make = "table" \/ fails THEN indexes ELSE indexes \cup {on}
        /\ current' = [current EXCEPT !.statement = @ + 1]
        /\ UNCHANGED <<driver, recorded, phase, pending, stops>>

\* The statements go to the database itself, and not into the transaction.
\* A table that exists is left as it is; an index needs its columns.
Statement ==
    LET m == current.migration
        s == Up(m)[current.statement]
        on == [table |-> s.table, columns |-> s.columns]
        fails == s.make = "index" /\ ~(s.columns \subseteq Columns(s.table))
    IN  /\ phase = "up" /\ current.statement <= Len(Up(m))
        /\ schema' = IF s.make = "index" \/ Exists(s.table) THEN schema ELSE schema \cup {on}
        /\ indexes' = IF s.make = "table" \/ fails THEN indexes ELSE indexes \cup {on}
        /\ phase' = IF fails THEN "down" ELSE "up"
        /\ current' = IF fails THEN NoMigration ELSE [current EXCEPT !.statement = @ + 1]
        /\ pending' = IF fails THEN {} ELSE pending
        /\ UNCHANGED <<driver, recorded, stops>>

\* version is the primary key: the second migration of a version is refused.
Record ==
    LET v == Version(current.migration)
    IN  /\ phase = "up" /\ current.statement > Len(Up(current.migration))
        /\ recorded' = recorded \cup {v}
        /\ phase' = IF v \in recorded THEN "down" ELSE AfterMigration(pending)
        /\ current' = NoMigration
        /\ pending' = IF v \in recorded THEN {} ELSE pending
        /\ UNCHANGED <<driver, schema, indexes, stops>>

ServerStops ==
    /\ phase # "down" /\ stops < MaxStops
    /\ stops' = stops + 1
    /\ phase' = "down" /\ pending' = {} /\ current' = NoMigration
    /\ UNCHANGED databaseVars

Migrate == PendingMigrations \/ NextMigration \/ Statement \/ Record

MigrationsNext == AutoMigrate \/ Migrate \/ ServerStops

MigrationsSpec == MigrationsInit /\ [][MigrationsNext]_migrationVars

\* The service manager starts the program whenever it has ended.
MigrationsFairSpec == MigrationsSpec /\ WF_migrationVars(AutoMigrate \/ Migrate)

-----------------------------------------------------------------------------
MigrationsTypeOK ==
    /\ driver \in {"sqlite", "postgres"}
    /\ \A x \in schema \cup indexes : DOMAIN x = {"table", "columns"}
    /\ recorded \subseteq {Version(m) : m \in Migration}
    /\ phase \in {"down", "pending", "next", "up", "serving"}
    /\ pending \subseteq Migration
    /\ current.migration \in Migration /\ current.statement \in 1..(Len(Up(current.migration)) + 1)
    /\ stops \in 0..MaxStops

Applied(m) ==
    \A i \in DOMAIN Up(m) :
        LET s == Up(m)[i]
        IN  /\ Exists(s.table)
            /\ s.make = "index" => [table |-> s.table, columns |-> s.columns] \in indexes

(***************************************************************************)
(* A migration that a later start will not run again has been applied,     *)
(* wherever a failing statement or a crash cut an earlier start short: its *)
(* statements stay when its transaction does not.  Of the version that is  *)
(* registered twice one migration has been, and the other may be lost.     *)
(***************************************************************************)
RecordedMeansApplied ==
    \A m \in Migration :
        Version(m) <= CurrentVersion =>
            \E n \in Migration : Version(n) = Version(m) /\ Applied(n)

(***************************************************************************)
(* "Database schema changes apply automatically on startup via GORM        *)
(* auto-migrations.  No manual migration step is required."                *)
(* (docs/INSTALLATION.md:556): the program comes to serve.                 *)
(***************************************************************************)
ComesToServe == <>(phase = "serving")
=============================================================================
