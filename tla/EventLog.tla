------------------------------ MODULE EventLog ------------------------------
(***************************************************************************)
(* The pages that leaf through a log, newest first: the audit log          *)
(* (app/(app)/audit/page.tsx) and the activity events                      *)
(* (app/(app)/events/page.tsx), where events are filtered, and made for    *)
(* tests; and the endpoints, which sort the whole log by time and cut a    *)
(* page out of it.                                                         *)
(*                                                                         *)
(* The log grows while it is read, and each page is cached by itself. An   *)
(* activity event may be given an earlier time, and stands between others. *)
(***************************************************************************)
EXTENDS Naturals, SequencesExt

CONSTANTS
    Filters, All,
    Matches,       \* the events each filter lets through
    PageSize,
    Initial,       \* bound: events there are when a page is opened
    MaxEvents,     \* bound: events
    MaxActs        \* bound: what the user does, the clock and the faults

Pages == 0..MaxEvents

LogAssumption ==
    /\ All \in Filters /\ Matches \in [Filters -> SUBSET (1..MaxEvents)]
    /\ Matches[All] = 1..MaxEvents
    /\ PageSize \in Nat \ {0} /\ Initial \in Pages /\ MaxEvents \in Nat /\ MaxActs \in Nat

Keys == Filters \X Pages           \* ["events", listParams], ["audit", pageSize, offset]

VARIABLES
    log,           \* the events by time, newest first; an event is named by the order of its making
    filter, page,  \* the filters, and the offset in pages
    cached,        \* the query cache
    old,           \* the keys with data that is stale, or was invalidated
    fetch,
    selected,      \* selectedEvent: the event of the details, 0 for none
    generator,     \* showGenerator
    making,        \* createMutation: sent, stored, waiting for the refetch
    acts,
    aim,           \* history: the events there were when the first page was answered
    seen,          \* history: the events read since
    last,          \* history: the events there were when the page read last was answered
    straight       \* history: pages have been read one after the other, none older than the one before

place == <<filter, page>>
query == <<cached, old, fetch>>
form == <<generator, making>>
history == <<aim, seen, last, straight>>
vars == <<log, place, query, selected, form, acts, history>>

Ids == 1..MaxEvents
NoData == [known |-> FALSE, items |-> {}, more |-> FALSE, of |-> {}]
Data == [known : BOOLEAN, items : SUBSET Ids, more : BOOLEAN, of : SUBSET Ids]
Idle == [phase |-> "idle", data |-> NoData]
Sent == [phase |-> "sent", data |-> NoData]

TypeOK ==
    /\ log \in Seq(Ids) /\ IsInjective(log) /\ ToSet(log) \subseteq 1..Len(log)
    /\ filter \in Filters /\ page \in Pages
    /\ cached \in [Keys -> Data] /\ old \subseteq Keys
    /\ fetch \in [Keys -> [phase : {"idle", "sent", "served"}, data : Data]]
    /\ selected \in Ids \cup {0} /\ generator \in BOOLEAN
    /\ making \in {"no", "sent", "stored", "waits"}
    /\ acts \in 0..MaxActs
    /\ aim \cup seen \cup last \subseteq Ids /\ straight \in BOOLEAN

Init ==
    /\ log = [i \in 1..Initial |-> Initial + 1 - i]
    /\ filter = All /\ page = 0
    /\ cached = [k \in Keys |-> NoData] /\ old = {}
    /\ fetch = [k \in Keys |-> IF k = <<All, 0>> THEN Sent ELSE Idle]
    /\ selected = 0 /\ generator = FALSE /\ making = "no"
    /\ acts = 0
    /\ aim = {} /\ seen = {} /\ last = {} /\ straight = FALSE

Act == acts < MaxActs /\ acts' = acts + 1

-----------------------------------------------------------------------------
(* The log and its endpoint.                                               *)

\* An event is stored; its time puts it anywhere in the order.
Stored(i) ==
    /\ Len(log) < MaxEvents /\ i \in 1..Len(log) + 1
    /\ log' = InsertAt(log, i, Len(log) + 1)

Others(i) ==
    /\ Stored(i)
    /\ UNCHANGED <<place, query, selected, form, acts, history>>

\* The events of a log from the newest to e.
Upto(l, e) == {l[i] : i \in {i \in DOMAIN l : \E j \in DOMAIN l : i <= j /\ l[j] = e}}

\* Mutant: a page starts one too late.
PageOffByOne(f, p) ==
    LET hits == ToSet(log) \cap Matches[f]
        Rank(e) == Cardinality(Upto(log, e) \cap hits)
    IN  [known |-> TRUE, of |-> ToSet(log), more |-> Cardinality(hits) > (p + 1) * PageSize,
         items |-> {e \in hits : p * PageSize + 1 < Rank(e) /\ Rank(e) <= (p + 1) * PageSize}]

\* list_events, list_audit_events and paginate.
Page(f, p) ==
    LET hits == ToSet(log) \cap Matches[f]
        Rank(e) == Cardinality(Upto(log, e) \cap hits)
    IN  [known |-> TRUE, of |-> ToSet(log), more |-> Cardinality(hits) > (p + 1) * PageSize,
         items |-> {e \in hits : p * PageSize < Rank(e) /\ Rank(e) <= (p + 1) * PageSize}]

Serve(k) ==
    /\ fetch[k].phase = "sent"
    /\ fetch' = [fetch EXCEPT ![k] = [phase |-> "served", data |-> Page(k[1], k[2])]]
    /\ UNCHANGED <<log, place, cached, old, selected, form, acts, history>>

-----------------------------------------------------------------------------
(* The pages.                                                              *)

Here == <<filter, page>>

\* A key that is come to is fetched if it has no data or old data, which is shown meanwhile.
Come(k) ==
    fetch' = [fetch EXCEPT ![k] = IF @ = Idle /\ (~cached[k].known \/ k \in old) THEN Sent ELSE @]

Fetched(k) ==
    /\ fetch[k].phase = "served"
    /\ fetch' = [fetch EXCEPT ![k] = Idle]
    /\ cached' = [cached EXCEPT ![k] = fetch[k].data]
    /\ old' = old \ {k}
    /\ UNCHANGED <<log, place, selected, form, acts, history>>

FetchFails(k) ==
    /\ fetch[k].phase = "sent" /\ Act
    /\ fetch' = [fetch EXCEPT ![k] = Idle]
    /\ UNCHANGED <<log, place, cached, old, selected, form, history>>

\* Thirty seconds after it was fetched.
Stale(k) ==
    /\ cached[k].known /\ k \notin old /\ Act
    /\ old' = old \cup {k}
    /\ UNCHANGED <<log, place, cached, fetch, selected, form, history>>

CanNext == selected = 0 /\ ~generator /\ cached[Here].more
CanPrevious == selected = 0 /\ ~generator /\ page > 0

NextPage ==
    /\ CanNext /\ page + 1 \in Pages
    /\ page' = page + 1 /\ Come(<<filter, page + 1>>)
    /\ last' = cached[Here].of
    /\ IF page = 0
       THEN aim' = last' \cap Matches[filter] /\ seen' = cached[Here].items /\ straight' = TRUE
       ELSE /\ seen' = seen \cup cached[Here].items
            /\ straight' = (straight /\ last \subseteq cached[Here].of)
            /\ UNCHANGED aim
    /\ UNCHANGED <<log, filter, cached, old, selected, form, acts>>

Previous ==
    /\ CanPrevious
    /\ page' = page - 1 /\ Come(<<filter, page - 1>>)
    /\ straight' = FALSE
    /\ UNCHANGED <<log, filter, cached, old, selected, form, acts, aim, seen, last>>

\* Every filter takes the page back to the start.
Filter(f) ==
    /\ f # filter /\ selected = 0 /\ ~generator /\ Act
    /\ filter' = f /\ page' = 0 /\ Come(<<f, 0>>)
    /\ straight' = FALSE
    /\ UNCHANGED <<log, cached, old, selected, form, aim, seen, last>>

\* The button Refresh: what is loading for the first time is joined.
Refetch(k) ==
    fetch' = [fetch EXCEPT ![k] = IF ~cached[k].known /\ @ # Idle THEN @ ELSE Sent]

Refresh ==
    /\ ~generator /\ Act
    /\ Refetch(Here)
    /\ UNCHANGED <<log, place, cached, old, selected, form, history>>

\* handleViewDetails and handleBack: the details are those of the list that was there.
ViewDetails(e) ==
    /\ selected = 0 /\ ~generator /\ e \in cached[Here].items /\ Act
    /\ selected' = e
    /\ UNCHANGED <<log, place, query, form, history>>

Back ==
    /\ selected # 0 /\ selected' = 0
    /\ UNCHANGED <<log, place, query, form, acts, history>>

-----------------------------------------------------------------------------
(* TestEventGenerator. It may be closed while an event is being made.      *)

OpenGenerator ==
    /\ selected = 0 /\ ~generator /\ Act
    /\ generator' = TRUE
    /\ UNCHANGED <<log, place, query, selected, making, history>>

Cancel ==
    /\ generator /\ generator' = FALSE
    /\ UNCHANGED <<log, place, query, selected, making, acts, history>>

Create ==
    /\ generator /\ making = "no" /\ making' = "sent"
    /\ UNCHANGED <<log, place, query, selected, generator, acts, history>>

StoreMade(i) ==
    /\ making = "sent" /\ Stored(i)
    /\ making' = "stored"
    /\ UNCHANGED <<place, query, selected, generator, acts, history>>

\* The form keeps its fields and shows the error.
NotMade ==
    /\ making = "sent"
    /\ making' = "no"
    /\ UNCHANGED <<log, place, query, selected, generator, acts, history>>

\* Every key is invalidated, and the one on show fetched anew.
Made ==
    /\ making = "stored" /\ making' = "waits"
    /\ old' = {k \in Keys : cached[k].known}
    /\ Refetch(Here)
    /\ UNCHANGED <<log, place, cached, selected, generator, acts, history>>

\* The generator is closed after that: also one that was opened since.
MadeEnds ==
    /\ making = "waits" /\ \A k \in Keys : fetch[k] = Idle
    /\ making' = "no" /\ generator' = FALSE
    /\ UNCHANGED <<log, place, query, selected, acts, history>>

Next ==
    \/ \E i \in 1..MaxEvents : Others(i) \/ StoreMade(i)
    \/ \E k \in Keys : Serve(k) \/ Fetched(k) \/ FetchFails(k) \/ Stale(k)
    \/ NextPage \/ Previous \/ Refresh \/ Back
    \/ \E f \in Filters : Filter(f)
    \/ \E e \in Ids : ViewDetails(e)
    \/ OpenGenerator \/ Cancel \/ Create \/ NotMade \/ Made \/ MadeEnds

Spec == Init /\ [][Next]_vars

-----------------------------------------------------------------------------
(* Properties.                                                             *)

\* Who reads from the first page to the last has read every event there was at the start,
\* although the log grows, and shifts, under the pages: as long as no page was older than the
\* one before it, as a page from the cache may be. An event here stays in the log; in the code
\* one whose id another organization draws too is replaced (store.py:107-112), and a reading
\* during which that happens is not among those asked about: it ends with last \subseteq shown.of.
ReadingMissesNothing ==
    LET shown == cached[Here]
    IN  page > 0 /\ straight /\ shown.known /\ ~shown.more /\ last \subseteq shown.of
            => aim \subseteq seen \cup shown.items

-----------------------------------------------------------------------------
(* The inductive invariant.                                                *)

\* The events a filter lets through, of those there were, from the newest to e. The order of two
\* events never changes: what a page was cut out of is found again in the log that has grown.
Ahead(l, of, f, e) == Upto(l, e) \cap of \cap Matches[f]

\* A page has every event it should have, and no event stands after the last page.
DataInv(l, k, d) ==
    /\ ~d.known => ~d.more
    /\ d.known => /\ d.of \subseteq ToSet(l)
                  /\ \A e \in d.of \cap Matches[k[1]] :
                      k[2] * PageSize < Cardinality(Ahead(l, d.of, k[1], e))
                      => \/ e \in d.items
                         \/ d.more /\ (k[2] + 1) * PageSize < Cardinality(Ahead(l, d.of, k[1], e))

PagesInv == \A k \in Keys :
    /\ DataInv(log, k, cached[k])
    /\ fetch[k].phase = "served" => fetch[k].data.known /\ DataInv(log, k, fetch[k].data)

\* What is still to be read stood after the page read last, when that was answered.
ReadInv ==
    page > 0 /\ straight =>
        /\ last \subseteq ToSet(log) /\ aim \subseteq last \cap Matches[filter]
        /\ \A e \in aim \ seen : page * PageSize < Cardinality(Ahead(log, last, filter, e))

IInv == TypeOK /\ PagesInv /\ ReadInv
=============================================================================
