---------------------------- MODULE EntriesPage ----------------------------
(***************************************************************************)
(* The console's workload entries page, app/entries/page.tsx, over the     *)
(* entries API.  Handlers are asynchronous: the code between two awaits is *)
(* one step, and loads, creates and deletes overlap freely.  Of a form the *)
(* SPIFFE ID stands for every required text field; parent_id, admin and    *)
(* dns_names are carried along and told apart by nothing.                  *)
(***************************************************************************)
EXTENDS ApiClient, Naturals, Sequences, FiniteSets

CONSTANTS
  Id,            \* the entry ids SPIRE hands out, each one once (a bound)
  Name,          \* SPIFFE IDs
  NoScheme,      \* those without the spiffe:// prefix
  Selector,      \* selectors
  TypedName,     \* what the operator types into the SPIFFE ID field,
  TypedSelector, \* ... the selector field,
  TypedTtl,      \* ... and the TTL field; 0 is what parseInt rejects
  Search,        \* contents of the filter box
  Contains,      \* Contains[t]: the filter strings that occur in text t
  Demo,          \* the entries the API lists when SPIRE does not answer
  InitialForm,   \* the form's defaults
  MaxSelectors   \* bound on the selectors of the form

Blank == ""

Form  == [spiffe_id : Name \cup {Blank},
          selectors : UNION { [1..n -> Selector] : n \in 0..MaxSelectors },
          ttl : Nat]
Entry == [id : Id, spiffe_id : Name, selectors : Seq(Selector), ttl : Nat]

DemoId == { e.id : e \in Demo }
Text   == Id \cup DemoId \cup Name \cup Selector

ASSUME EntriesAssumption ==
  /\ IsFiniteSet(Id) /\ IsFiniteSet(Request)
  /\ NoScheme \subseteq Name
  /\ TypedName \subseteq Name \cup {Blank}
  /\ TypedSelector \subseteq Selector \cup {Blank}
  /\ TypedTtl \subseteq Nat
  /\ Blank \in Search
  /\ Contains \in [Text -> SUBSET Search]
  /\ \A t \in DOMAIN Contains : Blank \in Contains[t]
  /\ InitialForm \in Form /\ InitialForm.spiffe_id \in Name
  /\ MaxSelectors \in Nat

VARIABLES
  \* The server.
  store,         \* the registered entries
  ever,          \* every entry there has ever been
  version,       \* the number of changes of store
  \* The page's state.
  entries, search, loading, isModalOpen, submitting, formData,
  selectorInput,
  \* History: no guard reads it.
  shown          \* the version of store that entries was read from

server == << store, ever, version >>
form   == << formData, selectorInput >>
dialog == << isModalOpen, submitting >>
table  == << entries, loading, shown >>
vars   == << server, search, form, dialog, table, fetch >>

None == [id |-> Blank]

(***************************************************************************)
(* The calls of the page.  A list call remembers which handler awaits it,  *)
(* the entry that handler has just registered, if any, and the version on  *)
(* display when it was sent (history).                                     *)
(***************************************************************************)
ListFor(owner, wrote) ==
  [kind |-> "list", owner |-> owner, wrote |-> wrote, floor |-> shown]

Query ==
       [kind : {"list"}, owner : {"page", "create", "delete"},
        wrote : {None} \cup ever, floor : 0..version]
  \cup [kind : {"create"}, form : Form]
  \cup [kind : {"delete"}, id : Id \cup DemoId]

Body ==
       [listing : SUBSET (ever \cup Demo), version : 0..version, real : BOOLEAN]
  \cup [status : {"success", "simulated"}, entry : {None} \cup ever]

ListInFlight   == { r \in Request : Asks(r, "list") }
CreateInFlight == { r \in Request : \/ Asks(r, "create")
                                    \/ Asks(r, "list") /\ fetch[r].query.owner = "create" }

-----------------------------------------------------------------------------
(* What the page renders.                                                  *)

(***************************************************************************)
(* filteredEntries.                                                        *)
(***************************************************************************)
filteredEntries ==
  { e \in entries :
      \/ search \in Contains[e.spiffe_id]
      \/ \E i \in DOMAIN e.selectors : search \in Contains[e.selectors[i]]
      \/ search \in Contains[e.id] }

(***************************************************************************)
(* The body of the table: the loading row, the message that no entry       *)
(* matches, or the rows.  The page's error state is set and never read, so *)
(* it is left out.                                                         *)
(***************************************************************************)
TableView ==
  IF loading THEN "Loading SPIRE registration entries..."
  ELSE IF filteredEntries = {} THEN "No workload entries match your search criteria."
  ELSE "rows"

(***************************************************************************)
(* Whether the browser lets the form through: the required fields, the     *)
(* TTL's min and max, and the submit button's disabled attribute.          *)
(***************************************************************************)
SubmitEnabled ==
  /\ isModalOpen
  /\ formData.spiffe_id # Blank
  /\ 60 <= formData.ttl /\ formData.ttl <= 86400
  /\ ~submitting
  /\ formData.selectors # << >>

(***************************************************************************)
(* The page has just been entered, on a stack where nothing is registered. *)
(***************************************************************************)
Init ==
  /\ store = {}
  /\ ever = store
  /\ version = 0
  /\ shown = 0
  /\ entries = {}
  /\ search = Blank
  /\ loading = TRUE              \* the mount effect's load is on its way
  /\ isModalOpen = FALSE
  /\ submitting = FALSE
  /\ formData = InitialForm
  /\ selectorInput = Blank
  /\ \E r \in Request :
       fetch = [x \in Request |->
                  IF x = r THEN [at |-> "sent", query |-> ListFor("page", None)]
                           ELSE Idle]

-----------------------------------------------------------------------------
(* loadEntries: called by the mount effect, the refresh button, and at the *)
(* end of handleCreate and handleDelete.                                   *)

StartLoading == loading' = TRUE /\ UNCHANGED << entries, shown >>

(***************************************************************************)
(* The refresh button.                                                     *)
(***************************************************************************)
Refresh(r) ==
  /\ Send(r, ListFor("page", None))
  /\ StartLoading
  /\ UNCHANGED << server, search, form, dialog >>

LoadSettles_Stuck(r) ==
  /\ Asks(r, "list") /\ fetch[r].at \in {"ok", "threw"}
  /\ IF fetch[r].at = "ok"
     THEN /\ entries' = fetch[r].body.listing
          /\ shown'   = fetch[r].body.version
          /\ loading' = FALSE
     ELSE UNCHANGED << entries, shown, loading >>
  /\ submitting' = (submitting /\ fetch[r].query.owner # "create")
  /\ Return(r)
  /\ UNCHANGED << server, search, form, isModalOpen >>

(***************************************************************************)
(* The rest of loadEntries: it never throws, so the finally block of the   *)
(* handleCreate that awaits it runs at once.                               *)
(***************************************************************************)
LoadSettles(r) ==
  /\ Asks(r, "list") /\ fetch[r].at \in {"ok", "threw"}
  /\ IF fetch[r].at = "ok"
     THEN /\ entries' = fetch[r].body.listing
          /\ shown'   = fetch[r].body.version
     ELSE UNCHANGED << entries, shown >>
  /\ loading' = FALSE
  /\ submitting' = (submitting /\ fetch[r].query.owner # "create")
  /\ Return(r)
  /\ UNCHANGED << server, search, form, isModalOpen >>

-----------------------------------------------------------------------------
(* handleCreate and its dialog.                                            *)

OpenModal ==
  /\ isModalOpen' = TRUE
  /\ UNCHANGED << server, search, form, submitting, table, fetch >>

(***************************************************************************)
(* The close cross and the cancel button; neither waits for a create that  *)
(* is in flight.                                                           *)
(***************************************************************************)
CloseModal ==
  /\ isModalOpen
  /\ isModalOpen' = FALSE
  /\ UNCHANGED << server, search, form, submitting, table, fetch >>

EditForm(f) ==
  /\ isModalOpen
  /\ formData' = f
  /\ UNCHANGED << server, search, selectorInput, dialog, table, fetch >>

EditSpiffeId(n) == EditForm([formData EXCEPT !.spiffe_id = n])

(***************************************************************************)
(* parseInt(e.target.value) || 3600.                                       *)
(***************************************************************************)
EditTtl(v) == EditForm([formData EXCEPT !.ttl = IF v = 0 THEN 3600 ELSE v])

RemoveSelector(i) ==
  EditForm([formData EXCEPT !.selectors =
              [j \in 1..(Len(@) - 1) |-> IF j < i THEN @[j] ELSE @[j + 1]]])

EditSelectorInput(s) ==
  /\ isModalOpen
  /\ selectorInput' = s
  /\ UNCHANGED << server, search, formData, dialog, table, fetch >>

(***************************************************************************)
(* The add button, when the input is not empty.                            *)
(***************************************************************************)
AddSelector ==
  /\ isModalOpen
  /\ selectorInput # Blank
  /\ Len(formData.selectors) < MaxSelectors
  /\ formData' = [formData EXCEPT !.selectors = Append(@, selectorInput)]
  /\ selectorInput' = Blank
  /\ UNCHANGED << server, search, dialog, table, fetch >>

(***************************************************************************)
(* The form as it is now is sent; the operator may go on editing it.       *)
(***************************************************************************)
handleCreate(r) ==
  /\ SubmitEnabled
  /\ submitting' = TRUE
  /\ Send(r, [kind |-> "create", form |-> formData])
  /\ UNCHANGED << server, search, form, isModalOpen, table >>

CreateSettles_Frees(r) ==
  /\ Asks(r, "create") /\ fetch[r].at \in {"ok", "threw"}
  /\ IF fetch[r].at = "ok"
     THEN /\ isModalOpen' = FALSE
          /\ ThenSend(r, ListFor("create", fetch[r].body.entry))
          /\ StartLoading
     ELSE Return(r) /\ UNCHANGED << isModalOpen, table >>
  /\ submitting' = FALSE
  /\ UNCHANGED << server, search, form >>

(***************************************************************************)
(* createEntry has settled.  A 201 closes the dialog, whichever one is     *)
(* open by now and whatever its status field says, and reloads; anything   *)
(* else is an alert and leaves the dialog open.                            *)
(***************************************************************************)
CreateSettles(r) ==
  /\ Asks(r, "create") /\ fetch[r].at \in {"ok", "threw"}
  /\ IF fetch[r].at = "ok"
     THEN /\ isModalOpen' = FALSE
          /\ ThenSend(r, ListFor("create", fetch[r].body.entry))
          /\ StartLoading
          /\ UNCHANGED submitting
     ELSE /\ Return(r)
          /\ submitting' = FALSE
          /\ UNCHANGED << isModalOpen, table >>
  /\ UNCHANGED << server, search, form >>

-----------------------------------------------------------------------------
(* handleDelete and the filter box.                                        *)

(***************************************************************************)
(* A row's delete button, confirmed.  confirm() blocks the page, so        *)
(* nothing happens between the click and the call.  There is no busy flag: *)
(* the row stays and may be deleted again.                                 *)
(***************************************************************************)
handleDelete(r, e) ==
  /\ TableView = "rows" /\ e \in filteredEntries
  /\ Send(r, [kind |-> "delete", id |-> e.id])
  /\ UNCHANGED << server, search, form, dialog, table >>

DeleteSettles(r) ==
  /\ Asks(r, "delete") /\ fetch[r].at \in {"ok", "threw"}
  /\ IF fetch[r].at = "ok"
     THEN ThenSend(r, ListFor("delete", None)) /\ StartLoading
     ELSE Return(r) /\ UNCHANGED table
  /\ UNCHANGED << server, search, form, dialog >>

SetSearch(s) ==
  /\ search' = s
  /\ UNCHANGED << server, form, dialog, table, fetch >>

-----------------------------------------------------------------------------
(* The entries API as the page sees it (SpireService models it).           *)

SchemaAccepts(f) == f.selectors # << >> /\ 60 <= f.ttl /\ f.ttl <= 86400

page == << search, form, dialog, table >>

Register(e) ==
  /\ e.id \notin { x.id : x \in ever }
  /\ store' = store \cup {e}
  /\ ever' = ever \cup {e}
  /\ version' = version + 1

Remove(e) ==
  /\ e \in store
  /\ store' = store \ {e}
  /\ version' = version + 1
  /\ UNCHANGED ever

ServeList_Cached(r) ==
  /\ Asks(r, "list")
  /\ \/ Answer(r, [listing |-> entries, version |-> shown, real |-> TRUE])
     \/ Answer(r, [listing |-> Demo, version |-> version, real |-> FALSE])
  /\ UNCHANGED << server, page >>

(***************************************************************************)
(* list_entries: the datastore, or the demo entries when SPIRE fails.      *)
(***************************************************************************)
ServeList(r) ==
  /\ Asks(r, "list")
  /\ \/ Answer(r, [listing |-> store, version |-> version, real |-> TRUE])
     \/ Answer(r, [listing |-> Demo,  version |-> version, real |-> FALSE])
  /\ UNCHANGED << server, page >>

(***************************************************************************)
(* create_entry: registered and answered "success"; registered and then a  *)
(* 500, when the audit record's broadcast raises; or not registered and    *)
(* answered 201 "simulated".                                               *)
(***************************************************************************)
ServeCreate(r) ==
  /\ Asks(r, "create") /\ SchemaAccepts(fetch[r].query.form)
  /\ LET f == fetch[r].query.form
     IN  /\ f.spiffe_id \notin NoScheme
         /\ \/ \E i \in Id :
                 LET e == [id |-> i, spiffe_id |-> f.spiffe_id,
                           selectors |-> f.selectors, ttl |-> f.ttl]
                 IN  /\ Register(e)
                     /\ \/ Answer(r, [status |-> "success", entry |-> e])
                        \/ Throw(r)
            \/ /\ Answer(r, [status |-> "simulated", entry |-> None])
               /\ UNCHANGED server
  /\ UNCHANGED page

(***************************************************************************)
(* delete_entry: 200 whether or not the entry has been removed, or a 500   *)
(* after it has.                                                           *)
(***************************************************************************)
ServeDelete(r) ==
  /\ Asks(r, "delete")
  /\ \/ \E e \in store : e.id = fetch[r].query.id /\ Remove(e)
     \/ UNCHANGED server
  /\ Answer(r, [status |-> "success", entry |-> None]) \/ Throw(r)
  /\ UNCHANGED page

(***************************************************************************)
(* The network fails, or the API refuses the call, before it does anything.*)
(***************************************************************************)
Unserved(r) ==
  /\ r \in InFlight
  /\ Throw(r)
  /\ UNCHANGED << server, page >>

(***************************************************************************)
(* Other operators, and commands that outlive their request.               *)
(***************************************************************************)
OthersChange ==
  /\ \/ \E i \in Id : Register([id |-> i, spiffe_id |-> InitialForm.spiffe_id,
                                selectors |-> InitialForm.selectors,
                                ttl |-> InitialForm.ttl])
     \/ \E e \in store : Remove(e)
  /\ UNCHANGED << page, fetch >>

-----------------------------------------------------------------------------
Settles(r) == LoadSettles(r) \/ CreateSettles(r) \/ DeleteSettles(r)
Served(r)  == Unserved(r) \/ ServeList(r) \/ ServeCreate(r) \/ ServeDelete(r)
Proceeds(r) == Settles(r) \/ Served(r)

Operator ==
  \/ \E r \in Request : Refresh(r) \/ handleCreate(r)
  \/ \E r \in Request, e \in entries : handleDelete(r, e)
  \/ OpenModal \/ CloseModal \/ AddSelector
  \/ \E n \in TypedName : EditSpiffeId(n)
  \/ \E v \in TypedTtl : EditTtl(v)
  \/ \E s \in TypedSelector : EditSelectorInput(s)
  \/ \E i \in DOMAIN formData.selectors : RemoveSelector(i)
  \/ \E s \in Search : SetSearch(s)

Next == Operator \/ OthersChange \/ \E r \in Request : Proceeds(r)

(***************************************************************************)
(* Every call settles, by an answer, an error or the browser giving up on  *)
(* the connection, and the browser runs the continuation of a settled one: *)
(* at any moment a call in flight waits for exactly one of the two.        *)
(* Nothing is assumed of the operator.                                     *)
(***************************************************************************)
Fairness == \A r \in Request : WF_vars(Proceeds(r))

Spec == Init /\ [][Next]_vars /\ Fairness

-----------------------------------------------------------------------------
TypeOK ==
  /\ store \subseteq ever /\ ever \subseteq Entry
  /\ version \in Nat /\ shown \in 0..version
  /\ entries \subseteq ever \cup Demo
  /\ search \in Search
  /\ { loading, isModalOpen, submitting } \subseteq BOOLEAN
  /\ formData \in Form
  /\ selectorInput \in Selector \cup {Blank}
  /\ fetch \in [Request -> CallState(Query, Body)]

(***************************************************************************)
(* The busy flags have owners: while the table says it is loading some     *)
(* list call is in flight, and the dialog says "Registering..." exactly    *)
(* while one handleCreate, and no more than one, has not ended.  loading   *)
(* is one flag for all overlapping loads, submitting spans two calls.      *)
(***************************************************************************)
BusyFlagsHaveOwners ==
  /\ loading => ListInFlight # {}
  /\ submitting <=> CreateInFlight # {}
  /\ Cardinality(CreateInFlight) <= 1

(***************************************************************************)
(* What the form's own checks let through is what the API's schema         *)
(* accepts: entries/page.tsx and CreateEntryRequest bound the same fields  *)
(* independently.                                                          *)
(***************************************************************************)
FormAgreesWithSchema ==
  \A r \in Request : Asks(r, "create") => SchemaAccepts(fetch[r].query.form)

(***************************************************************************)
(* The invariant of the page: types, busy flags with owners, and a form    *)
(* that agrees with the schema, for all overlapping loads, creates and     *)
(* deletes.                                                                *)
(***************************************************************************)
EntriesInv == TypeOK /\ BusyFlagsHaveOwners /\ FormAgreesWithSchema

(***************************************************************************)
(* A load never shows a listing older than the one on display when it was  *)
(* requested.  Overlapping loads may still take the table back in time,    *)
(* to a listing newer than what both of them started from.                 *)
(***************************************************************************)
LoadsMoveForward ==
  [][\A r \in Request :
       (Asks(r, "list") /\ fetch[r].at = "ok" /\ fetch'[r] = Idle)
         => shown' >= fetch[r].query.floor]_vars

(***************************************************************************)
(* handleCreate's reload shows what it registered: when it ends with a     *)
(* listing of the datastore, the entry the API confirmed is in the table,  *)
(* unless somebody has removed it since.                                   *)
(***************************************************************************)
ReloadShowsCreated ==
  [][\A r \in Request :
       ( /\ Asks(r, "list") /\ fetch[r].query.owner = "create"
         /\ fetch[r].at = "ok" /\ fetch[r].body.real
         /\ fetch[r].query.wrote # None
         /\ fetch'[r] = Idle )
       => \/ fetch[r].query.wrote \in entries'
          \/ fetch[r].query.wrote \in ever \ store]_vars

(***************************************************************************)
(* The spinner and the disabled submit button always come back, whatever   *)
(* fails.                                                                  *)
(***************************************************************************)
BusyEnds == (loading ~> ~loading) /\ (submitting ~> ~submitting)

=============================================================================
