----------------------------- MODULE PanelRows -----------------------------
(***************************************************************************)
(* The rows that the panel edits: settings, templates, tags, segments,     *)
(* campaigns of the second API, webhooks, keys, organizations and their    *)
(* domains (src/internal/api/api_v2.go, templates.go, tags_segments.go,    *)
(* settings.go, webhooks.go, org_domains.go, apikey.go; src/internal/store/*)
(* db.go).  A handler reads a row, changes its copy and writes; some write *)
(* the columns they were given, others the whole copy, which also brings a *)
(* deleted row back.                                                       *)
(*                                                                         *)
(* A behaviour is about one table.  A column stands for the fields that    *)
(* one request sends together; "made" is the value of a column from which  *)
(* another one was computed: the variables of a text, the count of a       *)
(* segment, the verification of a domain.  0 is a text without variables,  *)
(* or no domain.  In an update an empty field means no change.             *)
(***************************************************************************)
EXTENDS Integers, FiniteSets, FiniteSetsExt

CONSTANTS
    Calls,         \* bound: requests in progress at one time
    MaxRows,       \* bound: rows a table ever has
    MaxValue,      \* bound: values of a column
    MaxPanelWork   \* bound: requests in a behaviour

ASSUME PanelAssumption ==
    MaxRows \in Nat \ {0} /\ MaxValue \in Nat \ {0} /\ MaxPanelWork \in Nat

VARIABLES
    table,     \* the table of this behaviour
    entries,   \* its rows
    lastRow,   \* its last key
    children,  \* subscribers with a tag, members of an organization
    call,      \* requests in progress
    told,      \* history: the last value of each column that a request was told is saved
    excused,   \* history: columns whose last edit overlapped a request with an older copy
    panelWork

panelRowVars == <<table, entries, lastRow, children, call, told, excused, panelWork>>

\* Tables that are saved whole, tables of which columns are updated, and tables
\* whose rows are created and deleted only.
Whole == {"settings", "domains", "templates", "tags", "segments", "segmentsV2", "webhooksV2"}
Columnar == {"templatesV2", "campaignsV2", "tagsV2", "organizations"}
Plain == {"keys", "keysV2", "suppressions", "ips"}
Tables == Whole \cup Columnar \cup Plain

\* Tables with one row, which the program looks for without a key.
Single == {"settings", "domains"}

ColumnsOf(t) ==
    CASE t = "settings" -> {"general", "runtime", "bots", "webhook"}
      [] t = "domains" -> {"tracking", "unsubscribe"}
      [] t \in {"segments", "segmentsV2"} -> {"conditions"}
      [] t = "templates" -> {"content"}
      [] t \in {"templatesV2", "campaignsV2"} -> {"content", "subject"}
      [] t \in {"tags", "tagsV2", "webhooksV2", "organizations"} -> {"name", "other"}
      [] OTHER -> {}
Columns == ColumnsOf(table)

Keys == 1..MaxRows
Values == 0..MaxValue
RowsOf(t) == [col : [ColumnsOf(t) -> Values], made : [ColumnsOf(t) -> Values], builtIn : BOOLEAN]
Gone == [gone |-> TRUE]
Blank(t) == [col |-> [c \in ColumnsOf(t) |-> 0], made |-> [c \in ColumnsOf(t) |-> 0],
             builtIn |-> FALSE]

Put(f, edits) == [c \in DOMAIN f |-> IF c \in DOMAIN edits THEN edits[c] ELSE f[c]]
Edit(row, edits) == [row EXCEPT !.col = Put(@, edits)]
Made(row) == [row EXCEPT !.made = row.col]

NoCall == [pc |-> "ready"]
Present == {k \in Keys : entries[k] # Gone}
First == Min(Present)
Shown(k) == table \in Single => k = First

\* The row of a table with one row has the history of the first key.
Told(k) == IF table \in Single THEN 1 ELSE k

\* A database with one row in the table, or with none.
PanelRowsInit ==
    /\ table \in Tables
    /\ lastRow \in {0, 1}
    /\ \E v \in {0, 1}, builtIn \in BOOLEAN :
        LET row == [Made(Edit(Blank(table), [c \in Columns |-> v])) EXCEPT !.builtIn = builtIn] IN
        /\ builtIn => table = "templates"
        /\ entries = [k \in Keys |-> IF k <= lastRow THEN row ELSE Gone]
        /\ told = [k \in Keys |-> IF k <= lastRow THEN row.col ELSE Blank(table).col]
    /\ children = [k \in Keys |-> 0]
    /\ call = [q \in Calls |-> NoCall]
    /\ excused = [k \in Keys |-> {}]
    /\ panelWork = 0

-----------------------------------------------------------------------------
(* What handlers have in common. *)

Begins(q, t) ==
    /\ table = t /\ call[q].pc = "ready"
    /\ panelWork < MaxPanelWork /\ panelWork' = panelWork + 1
Writes(q, pc, k, row, cols) ==
    call' = [call EXCEPT ![q] = [pc |-> pc, key |-> k, row |-> row, cols |-> cols]]
Ends(q) == call' = [call EXCEPT ![q] = NoCall]

OnlyReads == UNCHANGED <<table, entries, lastRow, children, told, excused>>

Edits(cols) == UNION {[e -> Values] : e \in SUBSET cols \ {{}}}

\* Requests that will write a copy of row k that they made before now.
Copies(q, k) ==
    {p \in Calls \ {q} : call[p].pc \in {"save", "create"}
                         /\ (table \in Single \/ (call[p].pc = "save" /\ call[p].key = k))}

\* The caller is told that its columns are saved.
Tells(q, k, blind) ==
    LET c == call[q].cols
        n == Told(k)
    IN  /\ told' = [told EXCEPT ![n] = [x \in Columns |-> IF x \in c THEN call[q].row.col[x] ELSE @[x]]]
        /\ excused' = [excused EXCEPT ![n] =
             IF table \in Whole /\ (blind \/ Copies(q, k) # {}) THEN @ \cup c ELSE @ \ c]

\* gorm's Save: updates the row with that key, or inserts it.
SaveRow(q) ==
    /\ call[q].pc = "save"
    /\ entries' = [entries EXCEPT ![call[q].key] = call[q].row]
    /\ Tells(q, call[q].key, FALSE)
    /\ Ends(q)
    /\ UNCHANGED <<table, lastRow, children, panelWork>>

\* gorm's Updates: writes the columns, and nothing when the row has gone.  Of a
\* template without variables the old ones stay: a nil list is not written.
UpdateColumns(q) ==
    LET k == call[q].key
        e == [c \in call[q].cols |-> call[q].row.col[c]]
        m == [c \in {x \in DOMAIN e : table # "templatesV2" \/ e[x] # 0} |-> e[c]]
    IN  /\ call[q].pc = "columns"
        /\ entries' = IF entries[k] = Gone THEN entries
                   ELSE [entries EXCEPT ![k] =
                     [entries[k] EXCEPT !.col = Put(@, e), !.made = Put(@, m)]]
        /\ Tells(q, k, FALSE)
        /\ Ends(q)
        /\ UNCHANGED <<table, lastRow, children, panelWork>>

\* gorm's Create: the next key.  An organization has one row of domains (unique index).
CreateRow(q) ==
    /\ call[q].pc = "create"
    /\ IF table = "domains" /\ Present # {}
         THEN UNCHANGED <<entries, lastRow, told, excused>>
         ELSE /\ lastRow < MaxRows /\ lastRow' = lastRow + 1
              /\ entries' = [entries EXCEPT ![lastRow'] = call[q].row]
              /\ Tells(q, lastRow', table = "settings" /\ Present # {})
    /\ IF table = "organizations" THEN Writes(q, "owner", lastRow', call[q].row, {}) ELSE Ends(q)
    /\ UNCHANGED <<table, children, panelWork>>

\* A copy that some request holds brings the row back.
DeleteRow(q, k) ==
    /\ entries' = [entries EXCEPT ![k] = Gone]
    /\ excused' = [excused EXCEPT ![k] =
         IF table \in Whole /\ Copies(q, k) # {} THEN Columns \cup {"row"} ELSE @ \ {"row"}]

Creates(q, t, row) ==
    /\ Begins(q, t) /\ Writes(q, "create", 0, row, Columns)
    /\ OnlyReads

\* Reads the row with a key and goes on with a changed copy.
Updates(q, t, pc, edits) ==
    /\ Begins(q, t)
    /\ \E k \in Present :
        Writes(q, pc, k, IF pc = "save" THEN Made(Edit(entries[k], edits)) ELSE Edit(entries[k], edits),
               DOMAIN edits)
    /\ OnlyReads

\* Deletes the row with a key in one statement.
Deletes(q, t) ==
    /\ Begins(q, t)
    /\ \E k \in Keys : DeleteRow(q, k)
    /\ UNCHANGED <<table, lastRow, children, call, told>>

\* Reads the row, and deletes it later.
ReadsToDelete(q, t) ==
    /\ Begins(q, t)
    /\ \E k \in Present : ~entries[k].builtIn /\ Writes(q, "delete", k, entries[k], {})
    /\ OnlyReads

DeleteRead(q) ==
    /\ call[q].pc = "delete"
    /\ DeleteRow(q, call[q].key)
    /\ Ends(q)
    /\ UNCHANGED <<table, lastRow, children, told, panelWork>>

-----------------------------------------------------------------------------
(* Settings and domains: one row. *)

\* Each handler looks for the row.  A failed read is answered with an error by the
\* handlers of settings.go; those of webhooks.go go on with an empty row.
EditsSettings(q, edits, blind) ==
    /\ Begins(q, "settings")
    /\ LET row == IF Present = {} \/ blind THEN Blank(table) ELSE entries[First]
       IN  Writes(q, IF Present = {} \/ blind THEN "create" ELSE "save",
                  IF Present = {} \/ blind THEN 0 ELSE First, Made(Edit(row, edits)), DOMAIN edits)
    /\ OnlyReads

handleSetSettings(q) == \E v \in Values : EditsSettings(q, [c \in {"general"} |-> v], FALSE)
handleSetRuntimeConfig(q) == \E v \in Values : EditsSettings(q, [c \in {"runtime"} |-> v], FALSE)
handleSetBotConfig(q) == \E v \in Values : EditsSettings(q, [c \in {"bots"} |-> v], FALSE)
handleSetWebhookSettings(q) ==
    \E v \in Values, failed \in BOOLEAN : EditsSettings(q, [c \in {"webhook"} |-> v], failed)
handleCreateWebhook(q) ==
    \E v \in Values \ {0}, failed \in BOOLEAN : EditsSettings(q, [c \in {"webhook"} |-> v], failed)
handleDeleteWebhook(q) == Present # {} /\ EditsSettings(q, [c \in {"webhook"} |-> 0], FALSE)

\* Mutant: a changed domain keeps its verification.
UpdateConfigUnreset(q) ==
    /\ Begins(q, "domains")
    /\ \E edits \in Edits(Columns) :
        LET row == IF Present = {} THEN Blank(table) ELSE entries[First]
        IN  Writes(q, IF Present = {} THEN "create" ELSE "save",
                   IF Present = {} THEN 0 ELSE First, Edit(row, edits), DOMAIN edits)
    /\ OnlyReads

\* A domain that is new, or spelled otherwise, loses its verification.
UpdateConfig(q) ==
    /\ Begins(q, "domains")
    /\ \E edits \in Edits(Columns) : \E respelled \in SUBSET DOMAIN edits :
        LET row == IF Present = {} THEN Blank(table) ELSE entries[First]
            new == {c \in DOMAIN edits : edits[c] # row.col[c]} \cup respelled
        IN  /\ \A c \in DOMAIN edits : edits[c] # 0
            /\ Writes(q, IF Present = {} THEN "create" ELSE "save",
                   IF Present = {} THEN 0 ELSE First,
                   [Edit(row, edits) EXCEPT !.made =
                        [c \in DOMAIN @ |-> IF c \in new THEN 0 ELSE @[c]]], DOMAIN edits)
    /\ OnlyReads

\* The name server is asked between the read and the save.
Verifies(q, c) ==
    /\ Begins(q, "domains") /\ Present # {} /\ entries[First].col[c] # 0
    /\ \E right \in BOOLEAN :
        Writes(q, "save", First,
            [entries[First] EXCEPT !.made[c] = IF right THEN entries[First].col[c] ELSE 0], {})
    /\ OnlyReads
VerifyTracking(q) == Verifies(q, "tracking")
VerifyUnsubscribe(q) == Verifies(q, "unsubscribe")

-----------------------------------------------------------------------------
(* Templates. *)

CreateTemplate(q) ==
    \E e \in [{"content"} -> Values], b \in BOOLEAN :
        Creates(q, "templates", [Made(Edit(Blank(table), e)) EXCEPT !.builtIn = b])
UpdateTemplate(q) == \E e \in [{"content"} -> Values] : Updates(q, "templates", "save", e)
DeleteTemplate(q) == ReadsToDelete(q, "templates")
CloneTemplate(q) ==
    \E k \in Present : entries[k] # Gone /\ Creates(q, "templates", [entries[k] EXCEPT !.builtIn = FALSE])

\* At a start, when no template is built in.
SeedBuiltInTemplates(q) ==
    /\ \A k \in Present : ~entries[k].builtIn
    /\ Creates(q, "templates", [Blank("templates") EXCEPT !.builtIn = TRUE])

CreateTemplateV2(q) ==
    \E e \in [Columns -> Values] : Creates(q, "templatesV2", Made(Edit(Blank(table), e)))

\* Mutant: the template is saved whole.
UpdateTemplateV2Whole(q) ==
    \E e \in Edits(Columns) : Updates(q, "templatesV2", "save", e)

UpdateTemplateV2(q) == \E e \in Edits(Columns) : Updates(q, "templatesV2", "columns", e)
DeleteTemplateV2(q) == Deletes(q, "templatesV2")

-----------------------------------------------------------------------------
(* Campaigns of the second API: nothing starts them, so all are drafts. *)

CreateCampaignV2(q) ==
    \E e \in [Columns -> Values] : Creates(q, "campaignsV2", Made(Edit(Blank(table), e)))
UpdateCampaignV2(q) == \E e \in Edits(Columns) : Updates(q, "campaignsV2", "columns", e)
DeleteCampaignV2(q) == ReadsToDelete(q, "campaignsV2")

-----------------------------------------------------------------------------
(* Tags.  Names are unique, which values here are not. *)

CreateTag(q) == \E e \in [Columns -> Values] : Creates(q, "tags", Made(Edit(Blank(table), e)))
UpdateTag(q) == \E e \in Edits(Columns) : Updates(q, "tags", "save", e)
CreateTagV2(q) == \E e \in [Columns -> Values] : Creates(q, "tagsV2", Made(Edit(Blank(table), e)))
UpdateTagV2(q) == \E e \in Edits(Columns) : Updates(q, "tagsV2", "columns", e)

\* The subscribers' rows go first, then the tag.
DeletesTag(q, t) ==
    /\ Begins(q, t)
    /\ \E k \in IF t = "tags" THEN Keys ELSE Present :
        /\ Writes(q, "delete", k, entries[k], {})
        /\ children' = [children EXCEPT ![k] = 0]
    /\ UNCHANGED <<table, entries, lastRow, told, excused>>
DeleteTag(q) == DeletesTag(q, "tags")
DeleteTagV2(q) == DeletesTag(q, "tagsV2")

\* Whether the tag exists is not looked at.
AddToSubscriber(q) ==
    /\ Begins(q, "tags")
    /\ \E k \in Keys : children' = [children EXCEPT ![k] = 1]
    /\ UNCHANGED <<table, entries, lastRow, call, told, excused>>
RemoveFromSubscriber(q) ==
    /\ Begins(q, "tags")
    /\ \E k \in Keys : children' = [children EXCEPT ![k] = 0]
    /\ UNCHANGED <<table, entries, lastRow, call, told, excused>>

-----------------------------------------------------------------------------
(* Segments: the count is taken for the conditions of the copy. *)

CreateSegment(q) == \E e \in [Columns -> Values] : Creates(q, "segments", Made(Edit(Blank(table), e)))
UpdateSegment(q) == \E e \in [Columns -> Values] : Updates(q, "segments", "save", e)
NoEdits == [c \in {} |-> 0]
RefreshSegment(q) == Updates(q, "segments", "save", NoEdits)
DeleteSegment(q) == Deletes(q, "segments")
CreateSegmentV2(q) ==
    \E e \in [Columns -> Values] : Creates(q, "segmentsV2", Made(Edit(Blank(table), e)))
RefreshSegmentV2(q) == Updates(q, "segmentsV2", "save", NoEdits)
DeleteSegmentV2(q) == Deletes(q, "segmentsV2")

-----------------------------------------------------------------------------
(* Webhooks, keys, suppressions, addresses. *)

CreateWebhookV2(q) ==
    \E e \in [Columns -> Values] : Creates(q, "webhooksV2", Made(Edit(Blank(table), e)))
UpdateWebhookV2(q) == \E e \in Edits(Columns) : Updates(q, "webhooksV2", "save", e)
DeleteWebhookV2(q) == Deletes(q, "webhooksV2")
CreateKey(q) == Creates(q, "keys", Blank("keys"))
DeleteKey(q) == ReadsToDelete(q, "keys")
CreateKeyV2(q) == Creates(q, "keysV2", Blank("keysV2"))
DeleteKeyV2(q) == Deletes(q, "keysV2")
AddSuppressionV2(q) == Creates(q, "suppressions", Blank("suppressions"))
DeleteSuppressionV2(q) == Deletes(q, "suppressions")
AddIP(q) == Creates(q, "ips", Blank("ips"))
BulkAddIPs(q) == Creates(q, "ips", Blank("ips"))
DeleteIP(q) == Deletes(q, "ips")

-----------------------------------------------------------------------------
(* Organizations. *)

CreateOrganization(q) ==
    \E e \in [Columns -> Values] : Creates(q, "organizations", Made(Edit(Blank(table), e)))

\* The creator becomes its owner in a second statement.
AddOwner(q) ==
    /\ call[q].pc = "owner"
    /\ children' = [children EXCEPT ![call[q].key] = 1]
    /\ Ends(q)
    /\ UNCHANGED <<table, entries, lastRow, told, excused, panelWork>>

UpdateOrganization(q) == \E e \in Edits(Columns) : Updates(q, "organizations", "columns", e)

\* The organization goes first, then its members.
DeleteOrganization(q) ==
    /\ Begins(q, "organizations")
    /\ \E k \in Keys : DeleteRow(q, k) /\ Writes(q, "members", k, Blank(table), {})
    /\ UNCHANGED <<table, lastRow, children, told>>
DeleteMembers(q) ==
    /\ call[q].pc = "members"
    /\ children' = [children EXCEPT ![call[q].key] = 0]
    /\ Ends(q)
    /\ UNCHANGED <<table, entries, lastRow, told, excused, panelWork>>

-----------------------------------------------------------------------------
OneRow(q) ==
    \/ handleSetSettings(q) \/ handleSetRuntimeConfig(q) \/ handleSetBotConfig(q)
    \/ handleSetWebhookSettings(q) \/ handleCreateWebhook(q) \/ handleDeleteWebhook(q)
    \/ UpdateConfig(q) \/ VerifyTracking(q) \/ VerifyUnsubscribe(q)
Texts(q) ==
    \/ CreateTemplate(q) \/ UpdateTemplate(q) \/ DeleteTemplate(q) \/ CloneTemplate(q)
    \/ SeedBuiltInTemplates(q)
    \/ CreateTemplateV2(q) \/ UpdateTemplateV2(q) \/ DeleteTemplateV2(q)
    \/ CreateCampaignV2(q) \/ UpdateCampaignV2(q) \/ DeleteCampaignV2(q)
Groups(q) ==
    \/ CreateTag(q) \/ UpdateTag(q) \/ DeleteTag(q) \/ AddToSubscriber(q) \/ RemoveFromSubscriber(q)
    \/ CreateTagV2(q) \/ UpdateTagV2(q) \/ DeleteTagV2(q)
    \/ CreateSegment(q) \/ UpdateSegment(q) \/ RefreshSegment(q) \/ DeleteSegment(q)
    \/ CreateSegmentV2(q) \/ RefreshSegmentV2(q) \/ DeleteSegmentV2(q)
Others(q) ==
    \/ CreateWebhookV2(q) \/ UpdateWebhookV2(q) \/ DeleteWebhookV2(q)
    \/ CreateKey(q) \/ DeleteKey(q) \/ CreateKeyV2(q) \/ DeleteKeyV2(q)
    \/ AddSuppressionV2(q) \/ DeleteSuppressionV2(q) \/ AddIP(q) \/ BulkAddIPs(q) \/ DeleteIP(q)
    \/ CreateOrganization(q) \/ UpdateOrganization(q) \/ DeleteOrganization(q)

PanelRowsNext ==
    \E q \in Calls :
        \/ OneRow(q) \/ Texts(q) \/ Groups(q) \/ Others(q)
        \/ SaveRow(q) \/ UpdateColumns(q) \/ CreateRow(q) \/ DeleteRead(q)
        \/ AddOwner(q) \/ DeleteMembers(q)

PanelRowsSpec == PanelRowsInit /\ [][PanelRowsNext]_panelRowVars

-----------------------------------------------------------------------------
(* Properties *)

\* Every variable keeps its type.
PanelRowsTypeOK ==
    /\ table \in Tables /\ lastRow \in 0..MaxRows
    /\ \A k \in Keys : entries[k] = Gone \/ (k <= lastRow /\ entries[k] \in RowsOf(table))
    /\ children \in [Keys -> 0..1]
    /\ told \in [Keys -> [Columns -> Values]]
    /\ \A k \in Keys : excused[k] \subseteq Columns \cup {"row"}

\* A row shows the last edit that was answered with success.  Where columns are updated
\* that holds always; where the whole copy is saved an edit is lost, or a deleted row
\* comes back, only through a request that overlapped it or that could not read the row.
EditsHold ==
    \A k \in Present : Shown(k) =>
        \A c \in Columns : c \in excused[Told(k)] \/ entries[k].col[c] = told[Told(k)][c]

\* What is computed from a column was computed from the value that the row has, however
\* edits, counts and slow lookups overlap: the copy is saved whole (org_domains.go:158,
\* tags_segments.go:416).  A template of the second API that loses its last variable keeps
\* the old list.
DerivedMatches ==
    \A k \in Present : \A c \in Columns :
        \/ entries[k].made[c] = entries[k].col[c]
        \/ table = "domains" /\ entries[k].made[c] = 0
        \/ table = "templatesV2" /\ entries[k].col[c] = 0

\* A row is what its last edit made it, and what is computed of it fits.
RowsSound == EditsHold /\ DerivedMatches
=============================================================================
