--------------------------- MODULE AuditDashboard ---------------------------
(* The page of the audit dashboard (app/audit_dashboard.py) and the paged     *)
(* reads of the cache behind it.  The page has any number of requests on     *)
(* their way; synchronizations go on adding rows between two pages.          *)
EXTENDS Naturals, Sequences, Functions, FiniteSets

CONSTANTS
  Asks,        \* audit ids, in their order
  ReceivedAt,  \* their received_at, from 1
  PageLimit,   \* limit of GET /api/asks
  MaxLoads     \* bound: requests of the page

ASSUME DashboardAssumption == /\ Asks \subseteq Nat /\ IsFiniteSet(Asks) /\ PageLimit \in Nat \ {0} /\ MaxLoads \in Nat
                              /\ ReceivedAt \in [Asks -> Nat \ {0}]

VARIABLES
  table,      \* audit_records
  shown,      \* state.records
  next,       \* state.next, 0 for null
  more,       \* the button for older asks is visible
  requests,   \* number -> a request on its way
  sent,       \* requests so far
  known,      \* ghost: rows of the table when the first shown page was read
  overlapped  \* ghost: two loads of this list were on their way at once
dashboardVars == <<table, shown, next, more, requests, sent, known, overlapped>>

DashboardInit ==
  /\ table \in SUBSET Asks
  /\ shown = <<>> /\ next = 0 /\ more = FALSE
  /\ requests = {} /\ sent = 0
  /\ known = {} /\ overlapped = FALSE

\* A synchronization, of this page or of another one, commits a new row.
RowCommitted ==
  /\ \E r \in Asks \ table : table' = table \cup {r}
  /\ UNCHANGED <<shown, next, more, requests, sent, known, overlapped>>

Sends(reset) ==
  /\ sent < MaxLoads /\ sent' = sent + 1
  /\ requests' = requests \cup {[number |-> sent', reset |-> reset, before |-> IF reset THEN 0 ELSE next,
                                 read |-> FALSE, page |-> <<>>, next |-> 0, rows |-> {}]}

\* load(true): at the start, and at the end of a refresh.
LoadFirst ==
  /\ Sends(TRUE)
  /\ shown' = <<>> /\ next' = 0
  /\ overlapped' = (requests # {})
  /\ known' = {}
  /\ UNCHANGED <<table, more>>

\* load(false): the button stays usable while a load is on its way.
LoadOlder ==
  /\ more /\ Sends(FALSE)
  /\ overlapped' = (overlapped \/ requests # {})
  /\ UNCHANGED <<table, shown, next, more, known>>

\* list_recent: ORDER BY received_at DESC, audit_id DESC.
Newer(r, s) == ReceivedAt[r] > ReceivedAt[s] \/ (ReceivedAt[r] = ReceivedAt[s] /\ r > s)
\* Mutant: the page starts at the last timestamp of the one before.
OlderOrEqual(before) == {r \in table : before = 0 \/ ReceivedAt[r] <= before}
Older(before) == {r \in table : before = 0 \/ ReceivedAt[r] < before}
\* The rows of a query in that order: each stands behind those that are newer.
Position(r, rows) == Cardinality({s \in rows : s = r \/ Newer(s, r)})
ByRecency(rows) == [k \in 1 .. Cardinality(rows) |-> CHOOSE r \in rows : Position(r, rows) = k]
ListRecent(before) ==
  LET rows == ByRecency(Older(before))
      page == SubSeq(rows, 1, PageLimit)
  IN  [page |-> IF Len(rows) > PageLimit THEN page ELSE rows,
       next |-> IF Len(rows) > PageLimit THEN ReceivedAt[page[PageLimit]] ELSE 0]

ListAsks(q) ==
  /\ ~ q.read
  /\ LET result == ListRecent(q.before)
     IN  requests' = (requests \ {q}) \cup
           {[q EXCEPT !.read = TRUE, !.page = result.page, !.next = result.next, !.rows = table]}
  /\ UNCHANGED <<table, shown, next, more, sent, known, overlapped>>

Loaded(q) ==
  /\ q.read
  /\ shown' = shown \o q.page
  /\ next' = q.next /\ more' = (q.next # 0)
  /\ requests' = requests \ {q}
  /\ known' = IF q.reset THEN q.rows ELSE known
  /\ UNCHANGED <<table, sent, overlapped>>

\* An error replaces the empty notice; the rows and the button stay.
LoadFails(q) ==
  /\ requests' = requests \ {q}
  /\ UNCHANGED <<table, shown, next, more, sent, known, overlapped>>

DashboardNext ==
  \/ RowCommitted \/ LoadFirst \/ LoadOlder
  \/ \E q \in requests : ListAsks(q) \/ Loaded(q) \/ LoadFails(q)

DashboardSpec == DashboardInit /\ [][DashboardNext]_dashboardVars

-----------------------------------------------------------------------------
\* Once there is no older page, the list has every record that was there when it
\* was begun, and none twice; but loads that overlap mix their pages, and a page
\* ends between records of one timestamp.
PagesShowEveryRecordOnce ==
  requests = {} /\ ~ overlapped =>
    /\ IsInjective(shown)
    /\ next = 0 => \A r \in known : \E k \in DOMAIN shown : ReceivedAt[shown[k]] = ReceivedAt[r]
=============================================================================
