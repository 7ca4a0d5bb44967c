----------------------------- MODULE AuditQueries -----------------------------
(***************************************************************************)
(* GET .../audit: a client reads the delivery attempts of one event, or of *)
(* one subscription, page by page, while the workers insert rows and       *)
(* requests change the subscriptions.  A page is one SELECT with ORDER BY  *)
(* created_at DESC, LIMIT and OFFSET; the webhook URLs are read by further *)
(* statements, before it or after it.  A request that fails is made again. *)
(*                                                                         *)
(* created_at is taken from the clock of the worker that inserts the row,  *)
(* so a new row need not be the newest.  No two rows have the same one.    *)
(***************************************************************************)
EXTENDS DeliveryStore, Subscriptions, FaultModel, SequencesExt

CONSTANTS AskedLimits,   \* values of the limit parameter, 0 for none
          MaxTime,       \* bound: values of created_at that are told apart
          MaxUpserts     \* bound: INSERTs of one row

ASSUME AuditAssumption ==
  /\ AskedLimits \subseteq Int
  /\ {MaxTime, MaxUpserts} \subseteq Nat

VARIABLES created,   \* created_at of each row, 0 without a row
          stage,     \* how far the audit has come
          scope,     \* the rows it is about, existing or not
          limit,     \* the page size that pagination() has made of the request
          offset,    \* rows received so far, which is what the client asks next
          page,      \* what the SELECT of the request in progress returned
          loaded,    \* rows of the page whose subscription has been looked up
          urls,      \* the subscriptions of the page that were found
          seen,      \* history: the rows the client has received, in order
          before,    \* history: the rows there were at the first request
          inserted   \* history: how many were inserted since

requestVars == <<stage, scope, limit, offset, page, loaded, urls>>
historyVars == <<seen, before, inserted>>
auditVars == <<storeVars, subVars, faults, created, requestVars, historyVars>>

AuditInit ==
  /\ StoreInit
  /\ SubsInit
  /\ FaultInit
  /\ created = [p \in Pair |-> 0]
  /\ stage = "idle"
  /\ scope = {}
  /\ limit = 0
  /\ offset = 0
  /\ page = << >>
  /\ loaded = 0
  /\ urls = {}
  /\ seen = << >>
  /\ before = {}
  /\ inserted = 0

-----------------------------------------------------------------------------
(* The workers and the subscription API meanwhile, as long as it matters. *)

\* A plausible bug: the upsert takes created_at from the new attempt as well.
CreatedRefreshed(p, now) == [created EXCEPT ![p] = now]

(* The conflict clause of Create leaves created_at alone. *)
CreatedAt(p, now) == [created EXCEPT ![p] = IF Exists(p) THEN @ ELSE now]

(* A worker runs Create for an existing subscription (a foreign key). *)
Insert(p) ==
  /\ stage # "done"
  /\ subs[p[2]].state # "absent"
  /\ rows[p].number < MaxUpserts
  /\ Create(p)
  /\ \E now \in 1 .. MaxTime :
       /\ \A q \in Pair : created[q] # now
       /\ created' = CreatedAt(p, now)
  /\ inserted' = IF stage # "idle" /\ p \in scope /\ ~Exists(p) THEN inserted + 1 ELSE inserted
  /\ UNCHANGED <<subVars, faults, requestVars, seen, before>>

ChangeSubscriptions(h) ==
  /\ stage # "done"
  /\ SubsStep(h)
  /\ UNCHANGED <<storeVars, faults, created, requestVars, historyVars>>

-----------------------------------------------------------------------------
(* The client and the handler. *)

DefaultLimit == 50

(* pagination(): a limit that is not a positive number is as good as none. *)
PageSize(asked) == IF asked > 0 THEN asked ELSE DefaultLimit

Rows(sc) == {p \in sc : Exists(p)}

Scopes == {{p \in Pair : p[1] = e} : e \in Event}
          \cup {{p \in Pair : p[2] = s} : s \in {s \in Sub : subs[s].state # "absent"}}

(* The client starts an audit of an event or of a subscription. *)
StartAudit(sc, asked) ==
  /\ stage = "idle"
  /\ stage' = "open"
  /\ scope' = sc
  /\ limit' = PageSize(asked)
  /\ before' = Rows(sc)
  /\ UNCHANGED <<storeVars, subVars, faults, created, offset, page, loaded, urls, seen, inserted>>

\* A plausible bug: a deleted subscription is not found.
FindActive(s) == IF IsActive(s) THEN {s} ELSE {}

(* GetByID finds deleted subscriptions too. *)
Find(s) == IF subs[s].state # "absent" THEN {s} ELSE {}

(* The next request: the subscription's audit reads its URL first. *)
OpenRequest ==
  /\ stage = "open"
  /\ stage' = "list"
  /\ urls' = IF \E s \in Sub : scope = Event \X {s}
             THEN UNION {Find(s) : s \in {s \in Sub : scope = Event \X {s}}}
             ELSE {}
  /\ UNCHANGED <<storeVars, subVars, faults, created, scope, limit, offset, page, loaded,
                 historyVars>>

(* Which row of a scope p is, counted from the newest. *)
Place(sc, p) == Cardinality({q \in Rows(sc) : created[q] >= created[p]})

(* ORDER BY created_at DESC. *)
Newest(sc) ==
  [i \in 1 .. Cardinality(Rows(sc)) |-> CHOOSE p \in Rows(sc) : Place(sc, p) = i]

\* A plausible off-by-one: a page begins with the last row of the one before.
WindowOverlaps(list) == SubSeq(list, Max({offset, 1}), Min({offset + limit, Len(list)}))

(* LIMIT and OFFSET. *)
Window(list) == SubSeq(list, offset + 1, Min({offset + limit, Len(list)}))

ListPage ==
  /\ stage = "list"
  /\ page' = Window(Newest(scope))
  /\ loaded' = 0
  /\ stage' = "load"
  /\ UNCHANGED <<storeVars, subVars, faults, created, scope, limit, offset, urls, historyVars>>

(* loadSubscriptionsForAttempts looks up a subscription that is not in its *)
(* map; that of a subscription's audit has been there from the start.      *)
LoadUrl ==
  /\ stage = "load"
  /\ loaded < Len(page)
  /\ urls' = IF page[loaded + 1][2] \in urls
             THEN urls ELSE urls \cup Find(page[loaded + 1][2])
  /\ loaded' = loaded + 1
  /\ UNCHANGED <<storeVars, subVars, faults, created, stage, scope, limit, offset, page,
                 historyVars>>

(* GetByID fails: the row is shown without a URL. *)
LoadUrlFails ==
  /\ stage = "load"
  /\ loaded < Len(page)
  /\ page[loaded + 1][2] \notin urls
  /\ Fault("db")
  /\ loaded' = loaded + 1
  /\ UNCHANGED <<storeVars, subVars, created, stage, scope, limit, offset, page, urls,
                 historyVars>>

(* BuildAuditViews and the answer; an empty page is the last one. *)
Respond ==
  /\ stage = "load"
  /\ loaded = Len(page)
  /\ seen' = seen \o page
  /\ offset' = offset + Len(page)
  /\ stage' = IF page = << >> THEN "done" ELSE "open"
  /\ page' = << >>
  /\ loaded' = 0
  /\ UNCHANGED <<storeVars, subVars, faults, created, scope, limit, urls, before, inserted>>

AuditNext ==
  \/ \E p \in Pair : Insert(p)
  \/ \E h \in Handler : ChangeSubscriptions(h)
  \/ \E sc \in Scopes, asked \in AskedLimits : StartAudit(sc, asked)
  \/ OpenRequest \/ ListPage \/ LoadUrl \/ LoadUrlFails \/ Respond

AuditSpec == AuditInit /\ [][AuditNext]_auditVars

-----------------------------------------------------------------------------
(* A client that pages to the end has seen every row there was when it     *)
(* began, although each page is a snapshot of its own and rows come in     *)
(* before and after those it has seen: OFFSET misses nothing because no    *)
(* row is ever deleted or moved.                                           *)
PagesMissNothing == stage = "done" => before \subseteq ToSet(seen)

(* What it sees twice are rows that a newer one has pushed back: never     *)
(* more of them than rows came in.                                         *)
RepeatsAreInserts == Len(seen) - Cardinality(ToSet(seen)) <= inserted

(* Every row is shown with its subscription's URL, whether or not it was   *)
(* deleted meanwhile, unless a lookup failed.                              *)
UrlsAreFound ==
  faults = 0 => \A i \in 1 .. loaded : page[i][2] \in urls
==============================================================================
