--------------------------- MODULE SalesDashboard ---------------------------
(***************************************************************************)
(* The cached sales aggregates of the dashboard of one store: requests     *)
(* read an aggregate through the cache (_cached_dashboard_aggregate),      *)
(* every write of an order busts it (signals.py, and once more at the end  *)
(* of the two order endpoints), and an entry lives 90 s at most.           *)
(*                                                                         *)
(* Nothing locks the cache: reads and writes interleave at each of their   *)
(* steps.  An order is committed either by its own save (shipping) or at   *)
(* the end of a transaction the save, and its signal, are inside of        *)
(* (checkout, PDV, payment, cancellation, the admin).                      *)
(*                                                                         *)
(* What stays abstract is the numbers: an aggregate is the count of        *)
(* committed writes its queries have seen.  One aggregate stands for the   *)
(* four, which share this code.                                            *)
(***************************************************************************)
EXTENDS Naturals, FiniteSets

CONSTANTS
  Filters,    \* what a request narrows the orders to (?channel=, ?status=)
  Readers, Writers,
  MayDie,     \* whether a worker may die after its write is committed
  MaxWrites   \* bound: writes begun

ASSUME DashboardAssumption == MaxWrites \in Nat /\ MayDie \in BOOLEAN
ASSUME WritersAssumption == IsFiniteSet(Writers)

VARIABLES
  orders,  \* how many writes of an order are committed
  begun,   \* how many were begun
  cache,   \* the entries: of a period shorthand, of a custom date range
  reader,  \* the requests that read the aggregate
  writer,  \* how far the writes of an order have come
  overtaken  \* whether nobody is going to bust the period's entry for a write
             \* that its figures have not seen

dashboardVars == <<orders, begun, cache, reader, writer, overtaken>>

Keys == {"period", "custom"}
Empty == [of |-> "nothing"]

\* An aggregate: its filter, and what its first and last query have seen.
Aggregates == [of : Filters, first : 0..MaxWrites, last : 0..MaxWrites]

ReaderStates ==
  [step : {"idle"}]
    \cup [step : {"missed"}, key : Keys, filter : Filters]
    \cup [step : {"queried"}, key : Keys, filter : Filters, first : 0..MaxWrites]
    \cup [step : {"computed", "answered"}, key : Keys, filter : Filters,
          entry : Aggregates]

DashboardTypeOK ==
  /\ orders \in 0..begun /\ begun \in 0..MaxWrites
  /\ cache \in [Keys -> Aggregates \cup {Empty}]
  /\ reader \in [Readers -> ReaderStates]
  /\ writer \in [Writers -> {"idle", "sale", "operator", "saved", "answering"}]
  /\ overtaken \in BOOLEAN

DashboardInit ==
  /\ orders = 0 /\ begun = 0
  /\ cache = [k \in Keys |-> Empty]
  /\ reader = [r \in Readers |-> [step |-> "idle"]]
  /\ writer = [w \in Writers |-> "idle"]
  /\ overtaken = FALSE
-----------------------------------------------------------------------------
\* cache.get: a hit is the answer, whatever the filter of this request.
Get(r, k, f) ==
  /\ reader[r].step = "idle"
  /\ reader' = [reader EXCEPT ![r] =
       IF cache[k] = Empty
         THEN [step |-> "missed", key |-> k, filter |-> f]
         ELSE [step |-> "answered", key |-> k, filter |-> f, entry |-> cache[k]]]
  /\ UNCHANGED <<orders, begun, cache, writer, overtaken>>

\* compute() is several queries, outside of any transaction: the first one...
Query(r) ==
  /\ reader[r].step = "missed"
  /\ reader' = [reader EXCEPT ![r] =
       [step |-> "queried", key |-> @.key, filter |-> @.filter, first |-> orders]]
  /\ UNCHANGED <<orders, begun, cache, writer, overtaken>>

\* ... and the last one.
QueryRest(r) ==
  /\ reader[r].step = "queried"
  /\ reader' = [reader EXCEPT ![r] =
       [step |-> "computed", key |-> @.key, filter |-> @.filter,
        entry |-> [of |-> @.filter, first |-> @.first, last |-> orders]]]
  /\ UNCHANGED <<orders, begun, cache, writer, overtaken>>

\* cache.set, and the answer.  The figures are overtaken when a write has been
\* committed since they were queried, or a sale will be: its bust is over.
Store(r) ==
  /\ reader[r].step = "computed"
  /\ overtaken' = IF reader[r].key # "period" THEN overtaken
                  ELSE \/ \E w \in Writers : writer[w] = "sale"
                       \/ reader[r].entry.first # orders \/ reader[r].entry.last # orders
  /\ cache' = [cache EXCEPT ![reader[r].key] = reader[r].entry]
  /\ reader' = [reader EXCEPT ![r].step = "answered"]
  /\ UNCHANGED <<orders, begun, writer>>

\* The request is over, or its worker died on the way.
Leave(r) ==
  /\ reader[r].step # "idle"
  /\ reader' = [reader EXCEPT ![r] = [step |-> "idle"]]
  /\ UNCHANGED <<orders, begun, cache, writer, overtaken>>

\* Mutated form: entries are stored without a time limit.
NeverExpires(k) == FALSE /\ UNCHANGED dashboardVars

\* 90 s after it was stored, an entry is gone.
Expire(k) ==
  /\ cache[k] # Empty
  /\ cache' = [cache EXCEPT ![k] = Empty]
  /\ overtaken' = (overtaken /\ k # "period")
  /\ UNCHANGED <<orders, begun, reader, writer>>
-----------------------------------------------------------------------------
\* invalidate_dashboard_cache: the period shorthands; custom ranges are left.
Invalidate ==
  /\ cache' = [cache EXCEPT !["period"] = Empty]
  /\ overtaken' = FALSE

\* The save of an order inside a transaction, and its signal: a sale through
\* checkout or PDV, or an operator's payment move or cancellation.
Save(w, kind) ==
  /\ writer[w] = "idle" /\ begun < MaxWrites
  /\ begun' = begun + 1
  /\ Invalidate
  /\ writer' = [writer EXCEPT ![w] = kind]
  /\ UNCHANGED <<orders, reader>>

\* The transaction ends; only the order endpoints bust the cache again.
Commit(w) ==
  /\ writer[w] \in {"sale", "operator"}
  /\ orders' = orders + 1
  /\ writer' = [writer EXCEPT ![w] = IF @ = "sale" THEN "idle" ELSE "answering"]
  /\ UNCHANGED <<begun, cache, reader, overtaken>>

\* "sent" and "delivered": the save commits by itself...
SaveShipping(w) ==
  /\ writer[w] = "idle" /\ begun < MaxWrites
  /\ begun' = begun + 1
  /\ orders' = orders + 1
  /\ writer' = [writer EXCEPT ![w] = "saved"]
  /\ UNCHANGED <<cache, reader, overtaken>>

\* ... before its signal runs.
Signal(w) ==
  /\ writer[w] = "saved"
  /\ Invalidate
  /\ writer' = [writer EXCEPT ![w] = "answering"]
  /\ UNCHANGED <<orders, begun, reader>>

\* Mutated form: the endpoints leave it to the signal of the save.
AnswerAtOnce(w) ==
  /\ writer[w] = "answering"
  /\ writer' = [writer EXCEPT ![w] = "idle"]
  /\ UNCHANGED <<orders, begun, cache, reader, overtaken>>

\* The order endpoints bust the cache before they answer.
AnswerOrder(w) ==
  /\ writer[w] = "answering"
  /\ Invalidate
  /\ writer' = [writer EXCEPT ![w] = "idle"]
  /\ UNCHANGED <<orders, begun, reader>>

\* The transaction is rolled back, or the worker dies: what is committed
\* stays, and nothing more is done.
Abandon(w) ==
  /\ writer[w] \in {"sale", "operator"} \/ (MayDie /\ writer[w] # "idle")
  /\ writer' = [writer EXCEPT ![w] = "idle"]
  /\ overtaken' = (overtaken \/ (writer[w] \in {"saved", "answering"} /\ cache["period"] # Empty))
  /\ UNCHANGED <<orders, begun, cache, reader>>
-----------------------------------------------------------------------------
Read(r) ==
  \/ \E k \in Keys, f \in Filters : Get(r, k, f)
  \/ Query(r) \/ QueryRest(r) \/ Store(r) \/ Leave(r)

Write(w) ==
  \/ \E kind \in {"sale", "operator"} : Save(w, kind)
  \/ Commit(w) \/ SaveShipping(w) \/ Signal(w) \/ AnswerOrder(w) \/ Abandon(w)

DashboardNext ==
  \/ \E r \in Readers : Read(r)
  \/ \E w \in Writers : Write(w)
  \/ \E k \in Keys : Expire(k)

\* The cache server drops what has expired, whatever the requests do.
DashboardFairness == \A k \in Keys : WF_dashboardVars(Expire(k))

DashboardSpec ==
  DashboardInit /\ [][DashboardNext]_dashboardVars /\ DashboardFairness
-----------------------------------------------------------------------------
Stale(k) ==
  cache[k] # Empty /\ (cache[k].first # orders \/ cache[k].last # orders)

\* Stale figures of a period are on their way out, because the request that made
\* them stale has yet to bust them, or were stored by a read that a write had
\* overtaken, or left by a worker that died.  In particular nothing an order
\* endpoint has answered is missing from figures that were right when stored: it
\* takes the bust after the transaction, and the one of the signal is not enough.
StalenessExplained ==
  Stale("period") => overtaken \/ \E w \in Writers : writer[w] \in {"saved", "answering"}

\* Once the orders stop changing, the dashboard shows them as they are, and
\* for good: an entry put back by a slow read, left over by a write that was
\* abandoned after its commit, or never busted at all, ends with its time
\* limit, and no read under way can bring more than one of them back.
CatchesUp == <>[](\A k \in Keys : ~Stale(k))
-----------------------------------------------------------------------------
\* "lets the dashboard narrow every aggregate below (summary/timeseries/
\* breakdown/customers ...)" (SaleOrderViewSet.get_base_queryset): an answer
\* is of the orders its request asked for.
AnswersItsFilter ==
  \A r \in Readers :
    reader[r].step = "answered" => reader[r].entry.of = reader[r].filter
=============================================================================
