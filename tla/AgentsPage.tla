----------------------------- MODULE AgentsPage -----------------------------
(***************************************************************************)
(* The console's agents page, app/agents/page.tsx: the cards of the        *)
(* attested agents, and the dialog that mints a join token, over the       *)
(* agents API.  A token is shown once, in the dialog, and nowhere kept:    *)
(* what matters is that the dialog does not lose or mix up the one it      *)
(* shows.  The dialog can be closed and reopened while a mint is in        *)
(* flight.                                                                 *)
(***************************************************************************)
EXTENDS ApiClient, Naturals, FiniteSets

CONSTANTS
  Agent,         \* agents that may attest
  Demo,          \* the agents the API lists when SPIRE does not answer
  Node,          \* SPIFFE IDs for nodes
  NoScheme,      \* those without the spiffe:// prefix
  TypedNode,     \* what the operator types into the SPIFFE ID field
  TypedTtl,      \* ... and into the TTL field; 0 is what parseInt rejects
  InitialNode,   \* the field's default
  MaxTokens,     \* bound on the tokens minted
  MaxTimers      \* bound on the copies made within two seconds

Blank == ""

ASSUME AgentsAssumption ==
  /\ IsFiniteSet(Request)
  /\ NoScheme \subseteq Node /\ InitialNode \in Node
  /\ TypedNode \subseteq Node \cup {Blank}
  /\ TypedTtl \subseteq Nat
  /\ MaxTokens \in Nat /\ MaxTimers \in Nat

VARIABLES
  \* The server.
  attested,      \* the attested agents
  issued,        \* the number of tokens issued, which also names them
  \* The page.
  agents, loading, isModalOpen, tokenSpiffeId, tokenTtl, mintedToken, copied,
  submitting,
  timers         \* setTimeouts of copyToClipboard that have not fired

server == << attested, issued >>
form   == << tokenSpiffeId, tokenTtl >>
grid   == << agents, loading >>
dialog == << isModalOpen, mintedToken, submitting >>
tick   == << copied, timers >>
vars   == << server, form, grid, dialog, tick, fetch >>

Null  == [token |-> 0]
Token == [token : 1..MaxTokens, spiffe_id : Node, ttl : Nat]

Query == {[kind |-> "list"]}
         \cup [kind : {"mint"}, spiffe_id : Node, ttl : Nat]

Listing == [agents : SUBSET (Agent \cup Demo)]

-----------------------------------------------------------------------------
(* What the page renders.                                                  *)

GridView ==
  IF loading THEN "Loading attested node agents..."
  ELSE IF agents = {} THEN "No active node agents found."
  ELSE "cards"

(***************************************************************************)
(* The dialog shows the form until there is a token.                       *)
(***************************************************************************)
FormShown  == isModalOpen /\ mintedToken = Null
TokenShown == isModalOpen /\ mintedToken # Null

(***************************************************************************)
(* Whether the browser lets the form through: the required field, the      *)
(* TTL's min and max, and the button's disabled attribute.                 *)
(***************************************************************************)
SubmitEnabled ==
  /\ FormShown
  /\ tokenSpiffeId # Blank
  /\ tokenTtl \in 60..3600
  /\ ~submitting

-----------------------------------------------------------------------------
(* loadAgents: called by the mount effect and the refresh button.          *)

Refresh(r) ==
  /\ Send(r, [kind |-> "list"])
  /\ loading' = TRUE
  /\ UNCHANGED << server, form, agents, dialog, tick >>

LoadSettles_Stuck(r) ==
  /\ Asks(r, "list") /\ fetch[r].at \in {"ok", "threw"}
  /\ IF fetch[r].at = "ok"
     THEN agents' = fetch[r].body.agents /\ loading' = FALSE
     ELSE UNCHANGED grid
  /\ Return(r)
  /\ UNCHANGED << server, form, dialog, tick >>

(***************************************************************************)
(* The rest of loadAgents; a failure is only logged.                       *)
(***************************************************************************)
LoadSettles(r) ==
  /\ Asks(r, "list") /\ fetch[r].at \in {"ok", "threw"}
  /\ agents' = IF fetch[r].at = "ok" THEN fetch[r].body.agents ELSE agents
  /\ loading' = FALSE
  /\ Return(r)
  /\ UNCHANGED << server, form, dialog, tick >>

-----------------------------------------------------------------------------
(* The dialog.                                                             *)

(***************************************************************************)
(* "Mint Agent Join Token": whatever token was there is forgotten.         *)
(***************************************************************************)
OpenModal ==
  /\ mintedToken' = Null
  /\ isModalOpen' = TRUE
  /\ UNCHANGED << server, form, grid, submitting, tick, fetch >>

(***************************************************************************)
(* The cross, "Cancel" and "Done".                                         *)
(***************************************************************************)
CloseModal ==
  /\ isModalOpen
  /\ isModalOpen' = FALSE
  /\ UNCHANGED << server, form, grid, mintedToken, submitting, tick, fetch >>

EditSpiffeId(n) ==
  /\ FormShown
  /\ tokenSpiffeId' = n
  /\ UNCHANGED << server, tokenTtl, grid, dialog, tick, fetch >>

(***************************************************************************)
(* parseInt(e.target.value) || 600.                                        *)
(***************************************************************************)
EditTtl(v) ==
  /\ FormShown
  /\ tokenTtl' = IF v = 0 THEN 600 ELSE v
  /\ UNCHANGED << server, tokenSpiffeId, grid, dialog, tick, fetch >>

Mint(r) ==
  /\ submitting' = TRUE
  /\ Send(r, [kind |-> "mint", spiffe_id |-> tokenSpiffeId, ttl |-> tokenTtl])
  /\ UNCHANGED << server, form, grid, isModalOpen, mintedToken, tick >>

handleMintToken_Twice(r) ==
  /\ FormShown /\ tokenSpiffeId # Blank /\ tokenTtl \in 60..3600
  /\ Mint(r)

handleMintToken_AnyTtl(r) ==
  /\ FormShown /\ tokenSpiffeId # Blank /\ ~submitting
  /\ Mint(r)

handleMintToken(r) ==
  /\ SubmitEnabled
  /\ Mint(r)

(***************************************************************************)
(* generateToken has settled: the token goes to whatever dialog there is   *)
(* by now, open, closed or reopened; an error is an alert.                 *)
(***************************************************************************)
MintSettles(r) ==
  /\ Asks(r, "mint") /\ fetch[r].at \in {"ok", "threw"}
  /\ mintedToken' = IF fetch[r].at = "ok" THEN fetch[r].body ELSE mintedToken
  /\ submitting' = FALSE
  /\ Return(r)
  /\ UNCHANGED << server, form, grid, isModalOpen, tick >>

(***************************************************************************)
(* The token's or the command's copy button.                               *)
(***************************************************************************)
copyToClipboard ==
  /\ TokenShown
  /\ timers < MaxTimers
  /\ copied' = TRUE
  /\ timers' = timers + 1
  /\ UNCHANGED << server, form, grid, dialog, fetch >>

Timeout ==
  /\ timers > 0
  /\ timers' = timers - 1
  /\ copied' = FALSE
  /\ UNCHANGED << server, form, grid, dialog, fetch >>

-----------------------------------------------------------------------------
(* The agents API as the page sees it (SpireService models it).            *)

page == << form, grid, dialog, tick >>

SchemaAccepts(q) == q.ttl \in 60..3600

ServeList(r) ==
  /\ Asks(r, "list")
  /\ \/ Answer(r, [agents |-> attested])
     \/ Answer(r, [agents |-> Demo])
  /\ UNCHANGED << server, page >>

(***************************************************************************)
(* generate_join_token: a token of SPIRE's or a made-up one; or a 500 for  *)
(* a token that has been issued, when its audit record's broadcast raises. *)
(***************************************************************************)
ServeMint(r) ==
  /\ Asks(r, "mint")
  /\ LET q == fetch[r].query
     IN  /\ SchemaAccepts(q) /\ q.spiffe_id \notin NoScheme
         /\ issued < MaxTokens
         /\ issued' = issued + 1
         /\ \/ Answer(r, [token |-> issued + 1, spiffe_id |-> q.spiffe_id, ttl |-> q.ttl])
            \/ Throw(r)
  /\ UNCHANGED << attested, page >>

Unserved(r) ==
  /\ r \in InFlight
  /\ Throw(r)
  /\ UNCHANGED << server, page >>

AgentsChange ==
  /\ attested' \in SUBSET Agent \ {attested}
  /\ UNCHANGED << issued, page, fetch >>

-----------------------------------------------------------------------------
Init ==
  /\ attested \in SUBSET Agent /\ issued = 0
  /\ agents = {} /\ loading = TRUE     \* the mount effect's load
  /\ isModalOpen = FALSE /\ mintedToken = Null /\ submitting = FALSE
  /\ tokenSpiffeId = InitialNode /\ tokenTtl = 600
  /\ copied = FALSE /\ timers = 0
  /\ \E r \in Request :
       fetch = [x \in Request |->
                  IF x = r THEN [at |-> "sent", query |-> [kind |-> "list"]] ELSE Idle]

Settles(r) == LoadSettles(r) \/ MintSettles(r)
Served(r)  == ServeList(r) \/ ServeMint(r) \/ Unserved(r)

Next ==
  \/ AgentsChange
  \/ \E r \in Request : Refresh(r) \/ handleMintToken(r) \/ Settles(r) \/ Served(r)
  \/ OpenModal \/ CloseModal
  \/ \E n \in TypedNode : EditSpiffeId(n)
  \/ \E v \in TypedTtl : EditTtl(v)
  \/ copyToClipboard \/ Timeout

(***************************************************************************)
(* Calls settle, continuations and timers run.                             *)
(***************************************************************************)
Fairness ==
  /\ WF_vars(Timeout)
  /\ \A r \in Request : WF_vars(Settles(r)) /\ WF_vars(Served(r))

Spec == Init /\ [][Next]_vars /\ Fairness

-----------------------------------------------------------------------------
TypeOK ==
  /\ attested \subseteq Agent /\ issued \in 0..MaxTokens
  /\ agents \subseteq Agent \cup Demo
  /\ { loading, isModalOpen, copied, submitting } \subseteq BOOLEAN
  /\ tokenSpiffeId \in Node \cup {Blank} /\ tokenTtl \in Nat
  /\ mintedToken \in {Null} \cup Token
  /\ timers \in 0..MaxTimers
  /\ fetch \in [Request -> CallState(Query, Listing \cup Token)]

MintInFlight == { r \in Request : Asks(r, "mint") }

(***************************************************************************)
(* The flags have owners: a load in flight while the grid says loading,    *)
(* exactly one mint while the button says "Minting Token...", and a timer  *)
(* that will fire while the tick is shown.                                 *)
(***************************************************************************)
FlagsHaveOwners ==
  /\ GridView = "Loading attested node agents..." => \E r \in Request : Asks(r, "list")
  /\ submitting <=> MintInFlight # {}
  /\ Cardinality(MintInFlight) <= 1
  /\ copied => timers > 0

(***************************************************************************)
(* The form lets through the lifetimes GenerateTokenRequest accepts.       *)
(***************************************************************************)
FormAgreesWithSchema ==
  \A r \in MintInFlight : SchemaAccepts(fetch[r].query)

(***************************************************************************)
(* The invariant of the page: types, flags with owners, and a form that    *)
(* agrees with the schema.                                                 *)
(***************************************************************************)
AgentsInv == TypeOK /\ FlagsHaveOwners /\ FormAgreesWithSchema

(***************************************************************************)
(* A token on display stays until the operator asks for another: no late   *)
(* answer, of a mint begun in an earlier dialog or of a load, replaces or  *)
(* hides it.                                                               *)
(***************************************************************************)
ShownTokenStays ==
  [][TokenShown => \/ mintedToken' = mintedToken
                   \/ mintedToken' = Null /\ isModalOpen']_vars

(***************************************************************************)
(* The grid's placeholder, the disabled button and the tick end, whatever  *)
(* fails and however often one copies.                                     *)
(***************************************************************************)
FlagsClear ==
  /\ loading ~> ~loading
  /\ submitting ~> ~submitting
  /\ copied ~> ~copied

=============================================================================
