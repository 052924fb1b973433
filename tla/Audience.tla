------------------------------ MODULE Audience ------------------------------
(***************************************************************************)
(* Subscriber lists (src/internal/api/lists.go) and the bot's additions to *)
(* them (src/internal/core/anike_actions.go).  Every handler looks first   *)
(* and writes later, in statements of their own; no index keeps a contact  *)
(* from being created twice or put on a list twice, and a list's counter   *)
(* is changed after its rows.                                              *)
(*                                                                         *)
(* A contact is an address and which of the rows for this address it is.   *)
(***************************************************************************)
EXTENDS Integers, FiniteSets, FiniteSetsExt

CONSTANTS
    Lists,         \* lists of one organization
    Addresses,     \* addresses of subscribers
    ListRequests,  \* bound: requests in progress at one time
    MaxListWork,   \* bound: requests in a behaviour
    MaxListCrashes \* bound: restarts in a behaviour

ASSUME AudienceAssumption == MaxListWork \in Nat /\ MaxListCrashes \in Nat

VARIABLES
    lists,     \* subscriber_lists: does the row exist, and its subscriber_count
    members,   \* list_subscribers
    known,     \* contact_v2s: how many rows an address has
    handler,   \* requests in progress
    memberId,  \* last primary key
    optedOut,  \* history: list and contact, unsubscribed and not asked for since
    drifted,   \* history: lists whose counter has lost a change
    work, listCrashes

audienceVars == <<lists, members, known, handler, memberId, optedOut, drifted, work, listCrashes>>
boundsOfLists == <<work, listCrashes>>

Contacts == Addresses \X (1..MaxListWork)
NotYet == Addresses \X {0}
Nobody == <<"none", 0>>
Ready == [pc |-> "ready", op |-> "none", list |-> "none", todo |-> {}, contact |-> Nobody,
          row |-> 0, done |-> 0]

Does(q, pc) == handler[q].pc = pc
Of(l) == {m \in members : m.list = l}
On(l, c) == {m \in Of(l) : m.contact = c}
FirstOf(rows) == CHOOSE m \in rows : \A n \in rows : m.id <= n.id
Moves(q, h) == handler' = [handler EXCEPT ![q] = h]
Counts(l, n) == lists' = [lists EXCEPT ![l].count = IF lists[l].live THEN @ + n ELSE @]

\* Both lists have been created, and are empty.
AudienceInit ==
    /\ lists = [l \in Lists |-> [live |-> TRUE, count |-> 0]]
    /\ members = {} /\ memberId = 0
    /\ known = [e \in Addresses |-> 0]
    /\ handler = [q \in ListRequests |-> Ready]
    /\ optedOut = {} /\ drifted = {}
    /\ work = 0 /\ listCrashes = 0

Arrives(q) == Does(q, "ready") /\ work < MaxListWork /\ work' = work + 1

-----------------------------------------------------------------------------
(* Additions: one address, a file of them, the members of another list, or *)
(* what the bot is told.                                                   *)

\* The bot does not look whether there is a list with that number.
BeginAddition(q) ==
    /\ Arrives(q)
    /\ \E l \in Lists, op \in {"add", "import", "bot"}, S \in SUBSET NotYet :
        /\ op = "bot" \/ lists[l].live
        /\ op = "import" \/ Cardinality(S) = 1
        /\ Moves(q, [Ready EXCEPT !.pc = "find", !.op = op, !.list = l, !.todo = S])
    /\ UNCHANGED <<lists, members, known, memberId, optedOut, drifted, listCrashes>>

\* All members, or those with the status that the request asks for.
BeginCopy(q) ==
    /\ Arrives(q)
    /\ \E source, target \in Lists, statuses \in SUBSET {"active", "unsubscribed"} \ {{}} :
        /\ lists[source].live /\ lists[target].live
        /\ Moves(q, [Ready EXCEPT !.pc = "find", !.op = "copy", !.list = target,
             !.todo = {m.contact : m \in {n \in Of(source) : n.status \in statuses}}])
    /\ UNCHANGED <<lists, members, known, memberId, optedOut, drifted, listCrashes>>

AfterFind(q) == IF handler[q].op = "bot" THEN "insert" ELSE "look"

FindContact(q) ==
    /\ Does(q, "find")
    /\ \E c \in handler[q].todo :
        LET to(pc, x) == Moves(q, [handler[q] EXCEPT !.todo = @ \ {c}, !.pc = pc, !.contact = x])
        IN  IF c \notin NotYet THEN to("look", c)
            ELSE IF known[c[1]] > 0 THEN to(AfterFind(q), <<c[1], 1>>)
            ELSE to("create", c)
    /\ UNCHANGED <<lists, members, known, memberId, optedOut, drifted, boundsOfLists>>

CreateContact(q) ==
    LET e == handler[q].contact[1]
    IN  /\ Does(q, "create")
        /\ known' = [known EXCEPT ![e] = @ + 1]
        /\ Moves(q, [handler[q] EXCEPT !.pc = AfterFind(q), !.contact = <<e, known[e] + 1>>])
        /\ UNCHANGED <<lists, members, memberId, optedOut, drifted, boundsOfLists>>

\* Mutant: an import asks the row to be active, like a single addition.
LookUpMemberReviving(q) ==
    LET h == handler[q]
        rows == On(h.list, h.contact)
    IN  /\ Does(q, "look")
        /\ IF rows = {} THEN Moves(q, [h EXCEPT !.pc = "insert"])
           ELSE IF FirstOf(rows).status # "active"
                THEN Moves(q, [h EXCEPT !.pc = "revive", !.row = FirstOf(rows).id])
                ELSE Moves(q, [h EXCEPT !.pc = "find"])
        /\ UNCHANGED <<lists, members, known, memberId, optedOut, drifted, boundsOfLists>>

\* Whoever is on the list is skipped; a single addition subscribes them again.
LookUpMember(q) ==
    LET h == handler[q]
        rows == On(h.list, h.contact)
    IN  /\ Does(q, "look")
        /\ IF rows = {} THEN Moves(q, [h EXCEPT !.pc = "insert"])
           ELSE IF h.op = "add" /\ FirstOf(rows).status # "active"
                THEN Moves(q, [h EXCEPT !.pc = "revive", !.row = FirstOf(rows).id])
                ELSE Moves(q, [h EXCEPT !.pc = "find"])
        /\ UNCHANGED <<lists, members, known, memberId, optedOut, drifted, boundsOfLists>>

\* Save updates the row that was read, and puts it back if it is gone.
Revive(q) ==
    LET h == handler[q]
        others == {m \in members : m.id # h.row}
    IN  /\ Does(q, "revive")
        /\ members' = others \cup
             {[id |-> h.row, list |-> h.list, contact |-> h.contact, status |-> "active"]}
        /\ drifted' = IF others = members THEN drifted \cup {h.list} ELSE drifted
        /\ optedOut' = IF h.op = "add" THEN optedOut \ {<<h.list, h.contact>>} ELSE optedOut
        /\ Moves(q, [h EXCEPT !.pc = "find", !.row = 0])
        /\ UNCHANGED <<lists, known, memberId, boundsOfLists>>

\* Create never fails: no index forbids a second row.  The bot counts nothing.
InsertMember(q) ==
    LET h == handler[q]
    IN  /\ Does(q, "insert")
        /\ memberId' = memberId + 1
        /\ members' = members \cup {[id |-> memberId', list |-> h.list,
                                     contact |-> h.contact, status |-> "active"]}
        /\ optedOut' = IF h.op \in {"add", "bot"} THEN optedOut \ {<<h.list, h.contact>>}
                       ELSE optedOut
        /\ drifted' = IF h.op = "bot" THEN drifted \cup {h.list} ELSE drifted
        /\ Moves(q, IF h.op = "bot" THEN Ready ELSE [h EXCEPT !.pc = "find", !.done = @ + 1])
        /\ UNCHANGED <<lists, known, boundsOfLists>>

\* Mutant: the rows are counted anew.
CountAdditionsAnew(q) ==
    /\ Does(q, "find") /\ handler[q].todo = {}
    /\ Counts(handler[q].list, Cardinality(Of(handler[q].list)) - lists[handler[q].list].count)
    /\ Moves(q, Ready)
    /\ UNCHANGED <<members, known, memberId, optedOut, drifted, boundsOfLists>>

\* Once, after the last row; a contact that was on the list counts nothing.
CountAdditions(q) ==
    /\ Does(q, "find") /\ handler[q].todo = {}
    /\ Counts(handler[q].list, handler[q].done)
    /\ Moves(q, Ready)
    /\ UNCHANGED <<members, known, memberId, optedOut, drifted, boundsOfLists>>

-----------------------------------------------------------------------------
\* All rows of the contact go, whatever their number.
RemoveSubscriber(q) ==
    /\ Arrives(q)
    /\ \E l \in Lists, c \in Contacts :
        /\ lists[l].live /\ On(l, c) # {}
        /\ members' = members \ On(l, c)
        /\ optedOut' = optedOut \ {<<l, c>>}
        /\ drifted' = IF Cardinality(On(l, c)) > 1 THEN drifted \cup {l} ELSE drifted
        /\ Moves(q, [Ready EXCEPT !.pc = "uncount", !.op = "remove", !.list = l])
    /\ UNCHANGED <<lists, known, memberId, listCrashes>>

UncountSubscriber(q) ==
    /\ Does(q, "uncount")
    /\ Counts(handler[q].list, -1)
    /\ Moves(q, Ready)
    /\ UNCHANGED <<members, known, memberId, optedOut, drifted, boundsOfLists>>

\* History: not when a request has just found the contact to be missing.
UnsubscribeFromList ==
    /\ work < MaxListWork /\ work' = work + 1
    /\ \E l \in Lists, c \in Contacts :
        /\ lists[l].live /\ On(l, c) # {}
        /\ members' = {IF m \in On(l, c) THEN [m EXCEPT !.status = "unsubscribed"] ELSE m :
                         m \in members}
        /\ optedOut' = IF \E q \in ListRequests : Does(q, "insert") /\ handler[q].list = l
                                                 /\ handler[q].contact = c
                       THEN optedOut ELSE optedOut \cup {<<l, c>>}
    /\ UNCHANGED <<lists, known, handler, memberId, drifted, listCrashes>>

\* The subscribers go first; who is added between is left without a list.
DeleteList(q) ==
    /\ Arrives(q)
    /\ \E l \in Lists :
        /\ lists[l].live
        /\ members' = members \ Of(l)
        /\ optedOut' = {p \in optedOut : p[1] # l}
        /\ Moves(q, [Ready EXCEPT !.pc = "drop", !.op = "delete", !.list = l])
    /\ UNCHANGED <<lists, known, memberId, drifted, listCrashes>>

DropList(q) ==
    /\ Does(q, "drop")
    /\ lists' = [lists EXCEPT ![handler[q].list].live = FALSE]
    /\ Moves(q, Ready)
    /\ UNCHANGED <<members, known, memberId, optedOut, drifted, boundsOfLists>>

\* Nobody takes up what the requests had still to do.
AudienceRestart ==
    /\ listCrashes < MaxListCrashes /\ listCrashes' = listCrashes + 1
    /\ drifted' = drifted \cup {handler[q].list : q \in {p \in ListRequests :
                     handler[p].done > 0 \/ handler[p].pc \in {"uncount", "drop"}}}
    /\ handler' = [q \in ListRequests |-> Ready]
    /\ UNCHANGED <<lists, members, known, memberId, optedOut, work>>

Addition(q) ==
    \/ BeginAddition(q) \/ BeginCopy(q) \/ FindContact(q) \/ CreateContact(q)
    \/ LookUpMember(q) \/ Revive(q) \/ InsertMember(q) \/ CountAdditions(q)

AudienceNext ==
    \/ \E q \in ListRequests :
        Addition(q) \/ RemoveSubscriber(q) \/ UncountSubscriber(q) \/ DeleteList(q) \/ DropList(q)
    \/ UnsubscribeFromList
    \/ AudienceRestart

AudienceSpec == AudienceInit /\ [][AudienceNext]_audienceVars

-----------------------------------------------------------------------------
Member == [id : Nat, list : Lists, contact : Contacts, status : {"active", "unsubscribed"}]

AudienceTypeOK ==
    /\ lists \in [Lists -> [live : BOOLEAN, count : Int]]
    /\ \A m \in members : m \in Member
    /\ known \in [Addresses -> 0..MaxListWork]
    /\ \A q \in ListRequests : handler[q].pc \in
          {"ready", "find", "create", "look", "revive", "insert", "uncount", "drop"}
    /\ \A p \in optedOut : p[1] \in Lists /\ p[2] \in Contacts
    /\ drifted \subseteq Lists
    /\ memberId \in Nat /\ work \in 0..MaxListWork /\ listCrashes \in 0..MaxListCrashes

(***************************************************************************)
(* A contact that has unsubscribed from a list is on it again only when    *)
(* somebody adds that contact by name, or has removed the contact before:  *)
(* imports and copies, also those in progress, leave it as it is, and so   *)
(* they do when the contact is on the list more than once.  An import that *)
(* has just looked for the contact and found nothing is excepted.          *)
(***************************************************************************)
OptOutHolds == \A p \in optedOut : \A m \in On(p[1], p[2]) : m.status = "unsubscribed"

(***************************************************************************)
(* A list's counter is its number of rows, but for what the requests in    *)
(* progress will still add to it or take away.  It drifts only when the    *)
(* bot adds a row, when a contact that was on the list twice is removed,   *)
(* when a saved row comes back after its removal, or when a restart cuts a *)
(* request off between its rows and the counter.                           *)
(***************************************************************************)
OnList(l) == {q \in ListRequests : handler[q].list = l}
Added(l) == UNION {{q} \X (1..handler[q].done) : q \in OnList(l)}
Leaving(l) == {q \in OnList(l) : Does(q, "uncount")}
OnTheWay(l) == Cardinality(Added(l)) - Cardinality(Leaving(l))

CounterFollowsRows ==
    \A l \in Lists :
        \/ ~lists[l].live \/ l \in drifted
        \/ \E q \in ListRequests : handler[q].list = l /\ handler[q].pc = "drop"
        \/ lists[l].count + OnTheWay(l) = Cardinality(Of(l))
=============================================================================
