-------------------------- MODULE FinancialClient --------------------------
(***************************************************************************)
(* Fetching one financial date from the partner service                    *)
(* (steam/SteamFinancialClient.cpp over network/WinHttpClient.cpp and      *)
(* steam/SteamJsonParser.cpp).                                             *)
(*                                                                         *)
(* The service keeps "items" line items of the date, with the ids 1, 2...  *)
(* A request names the last id known, the answer carries the items after   *)
(* it and the cursor max_id.  The client asks until the cursor stops, or   *)
(* MaxPages times.  What the client does with the items is in              *)
(* SalesAggregator.                                                        *)
(*                                                                         *)
(* IgnoreErrorPayload, RestartEachPage and StartOver are faulty variants of*)
(* the definition that follows each; no action uses them.                  *)
(***************************************************************************)
EXTENDS Integers, SequencesExt

CONSTANTS MaxItems,   \* bound on the line items of the date
          PageSize,   \* line items the service puts in one answer
          MaxPages    \* kMaxPagesPerDate

ASSUME PagingAssumption ==
  MaxItems \in Nat /\ PageSize \in Nat \ {0} /\ MaxPages \in Nat \ {0}

VARIABLES
  items,      \* service: the number of line items of the date
  misbehaves, \* service: it answers with any cursor
  pc,         \* "Idle", or "Loop" in GetAllDetailedSalesForDate
  page,       \* requests answered
  requested,  \* highwatermark_id of the next request
  out,        \* the ids collected
  result,     \* kind of the result of the last call
  atCall,     \* history: items when the call began
  failed      \* history: an answer of the call was not a page

service == <<items, misbehaves>>
vars == <<service, pc, page, requested, out, result, atCall, failed>>

Init ==
  /\ items \in 0..MaxItems
  /\ misbehaves \in BOOLEAN
  /\ pc = "Idle"
  /\ page = 0 /\ requested = 0 /\ out = <<>>
  /\ result = "Other"
  /\ atCall = 0
  /\ failed = FALSE

-----------------------------------------------------------------------------
(* One request.                                                            *)

Unreachable == {"name not resolved", "cannot connect", "timeout",
                "connection error"}

(* The ways Get returns: before a status was read or while the body was    *)
(* read, over the size limit, or with a body; without a session it is not  *)
(* called.                                                                 *)
NoAnswer == [exceededLimit : {FALSE}, transportOk : {FALSE},
             error : Unreachable \cup {"no session", "other"},
             status : {0, 200}, body : {"none"}]

TooLong == [exceededLimit : {TRUE}, transportOk : {TRUE}, error : {"none"},
            status : {200, 500}, body : {"none"}]

WithBody == [exceededLimit : {FALSE}, transportOk : {TRUE}, error : {"none"},
             status : {200, 302, 401, 403, 429, 500},
             body : {"page", "error payload", "page with error",
                     "malformed"}]

HttpResults == NoAnswer \cup TooLong \cup WithBody

ByStatus(status) ==
  IF status \in 200..299 THEN "Success"
  ELSE IF status \in {401, 403} THEN "Auth"
  ELSE IF status = 429 THEN "RateLimited"
  ELSE IF status >= 500 THEN "ServerError" ELSE "Other"

Classify(http) ==
  IF http.exceededLimit THEN "TooLarge"
  ELSE IF http.transportOk THEN ByStatus(http.status)
  ELSE IF http.error \in Unreachable THEN "Offline" ELSE "Other"

IgnoreErrorPayload(http) ==
  IF Classify(http) = "Success" /\ http.body = "malformed"
  THEN "Parse" ELSE Classify(http)

(* An error counts also beside a response.                                 *)
ByBody(body) ==
  IF body \in {"error payload", "page with error"} THEN "Auth"
  ELSE IF body = "malformed" THEN "Parse" ELSE "Success"

(* What GetDetailedSales returns after parsing the body of a success.      *)
Outcome(http) ==
  IF http.error = "no session" THEN "Offline"
  ELSE IF Classify(http) = "Success" THEN ByBody(http.body)
  ELSE Classify(http)

IsPage(http) ==
  http.transportOk /\ ~http.exceededLimit /\ http.status \in 200..299
    /\ http.body = "page"

Kinds == {"Success", "Offline", "Auth", "RateLimited", "ServerError",
          "TooLarge", "Parse", "Other"}

-----------------------------------------------------------------------------
(* The service (external).                                                 *)

Least(m, n) == IF m <= n THEN m ELSE n

Answered == [i \in 1..(Least(requested + PageSize, items) - requested) |->
               requested + i]

NoMaxId == -1

(* The cursor is the id of the last item, or the one asked for when there  *)
(* are none, or is left out then.                                          *)
MaxIds ==
  IF misbehaves THEN {NoMaxId} \cup 0..items
  ELSE IF Answered = <<>> THEN {NoMaxId, requested}
  ELSE {Last(Answered)}

Sell ==
  /\ items < MaxItems
  /\ items' = items + 1
  /\ UNCHANGED <<misbehaves, pc, page, requested, out, result, atCall, failed>>

-----------------------------------------------------------------------------
(* GetAllDetailedSalesForDate.                                             *)

Call ==
  /\ pc = "Idle"
  /\ pc' = "Loop"
  /\ page' = 0 /\ requested' = 0 /\ out' = <<>>
  /\ atCall' = items
  /\ failed' = FALSE
  /\ UNCHANGED <<service, result>>

PageFailed(http) ==
  /\ pc = "Loop"
  /\ page < MaxPages
  /\ Outcome(http) # "Success"
  /\ result' = Outcome(http)
  /\ pc' = "Idle"
  /\ failed' = TRUE
  /\ UNCHANGED <<service, page, requested, out, atCall>>

RestartEachPage(maxId) == requested

NextRequest(maxId) == maxId

PageFetched(http, maxId) ==
  /\ pc = "Loop"
  /\ page < MaxPages
  /\ Outcome(http) = "Success"
  /\ out' = out \o Answered
  /\ failed' = (failed \/ ~IsPage(http))
  /\ IF maxId \in {NoMaxId, requested}
     THEN pc' = "Idle" /\ result' = "Success" /\ UNCHANGED <<page, requested>>
     ELSE /\ page' = page + 1
          /\ requested' = NextRequest(maxId)
          /\ UNCHANGED <<pc, result>>
  /\ UNCHANGED <<service, atCall>>

StartOver ==
  /\ pc = "Loop"
  /\ page = MaxPages
  /\ page' = 0 /\ requested' = 0 /\ out' = <<>>
  /\ UNCHANGED <<service, pc, result, atCall, failed>>

(* The loop ends by its bound.                                             *)
PagesExhausted ==
  /\ pc = "Loop"
  /\ page = MaxPages
  /\ pc' = "Idle"
  /\ result' = "Success"
  /\ UNCHANGED <<service, page, requested, out, atCall, failed>>

Client ==
  \/ \E http \in HttpResults :
       PageFailed(http) \/ \E maxId \in MaxIds : PageFetched(http, maxId)
  \/ PagesExhausted

Next == Call \/ Client \/ Sell

Spec == Init /\ [][Next]_vars

(* WinHTTP's timeouts end every request.                                   *)
FairSpec == Spec /\ WF_vars(Client)

-----------------------------------------------------------------------------
(* Every variable keeps its type; no more than MaxPages requests are made. *)
TypeOK ==
  /\ items \in 0..MaxItems /\ misbehaves \in BOOLEAN
  /\ pc \in {"Idle", "Loop"}
  /\ page \in 0..MaxPages
  /\ requested \in 0..items
  /\ \A i \in DOMAIN out : out[i] \in 1..items
  /\ result \in Kinds

(* A call that succeeds returns each line item the service had when it     *)
(* began, once and in order, and may return later ones: no item is missed  *)
(* or counted twice between two pages although items arrive meanwhile.     *)
(* Holds while the items of the date fit in MaxPages answers and the       *)
(* service's cursor is the id of the last item it sent.                    *)
EveryItemOnce ==
  pc = "Idle" /\ result = "Success" /\ ~misbehaves =>
    /\ Len(out) >= atCall
    /\ out = [i \in 1..Len(out) |-> i]

(* A date is stored only if every answer was a page: an error payload, a   *)
(* refused key, a broken or an oversized body never ends as a success.     *)
NoFailureTakenForSuccess == failed /\ pc = "Idle" => result # "Success"

(* Every call returns, also against a service whose cursor runs in circles *)
(* ("Safety cap so a misbehaving server can't loop forever over one date").*)
CallReturns == pc = "Loop" ~> pc = "Idle"
=============================================================================
