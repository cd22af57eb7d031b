------------------------ MODULE FinancialDataProofs ------------------------
(***************************************************************************)
(* Proofs about the way of the sales of a date from the service to the rows*)
(* that are stored: the requests (FinancialClient), then the answers, their*)
(* records and the aggregation (SalesPages, SalesAggregator).              *)
(*                                                                         *)
(* The requests, for every number of items, page size and bound on the     *)
(* pages: the ids collected are exactly those up to the cursor (Collected),*)
(* and the cursor moves by whole pages until it reaches the items of the   *)
(* call (Progress).                                                        *)
(*                                                                         *)
(* The rows, for every width of an integer and all bodies the service may  *)
(* answer with: the index of a product names its row (IndexInv), a row is  *)
(* the sum of the records seen (SumsInv, one more record at a time), and   *)
(* the records are numbered by the places of their items in the answers    *)
(* (PlacesInv), so that a sum over the one is a sum over the other         *)
(* (SumRenamed).                                                           *)
(***************************************************************************)
EXTENDS FinancialClient, SalesPages, Sums, TLAPS

(* The ids 1 to n in order.                                                *)
Upto(n) == [i \in 1..n |-> i]

(* While the loop runs nothing failed; a failure is the result.            *)
FailureInv ==
  /\ failed \in BOOLEAN
  /\ pc = "Loop" => ~failed
  /\ failed /\ pc = "Idle" => result # "Success"

OutInv == out \in Seq(Nat)

(* The client has all ids up to the cursor and no others.                  *)
Collected == ~misbehaves => out = Upto(requested)

Progress ==
  /\ atCall \in 0..items
  /\ ~misbehaves /\ pc = "Loop" =>
       requested >= page * PageSize \/ requested >= atCall
  /\ ~misbehaves /\ pc = "Idle" /\ result = "Success" => requested >= atCall

IInv == TypeOK /\ OutInv /\ FailureInv

LInv == IInv /\ Collected /\ Progress

-----------------------------------------------------------------------------
(* Every HTTP status is mapped to a kind.                                  *)
LEMMA StatusIsKind ==
  ASSUME NEW status \in Int
  PROVE  ByStatus(status) \in Kinds
  BY DEF ByStatus, Kinds

(* Every way a request ends is mapped to a kind.                           *)
LEMMA ClassifyIsKind ==
  ASSUME NEW http \in HttpResults
  PROVE  Classify(http) \in Kinds
<1>1. CASE http \in NoAnswer
  BY <1>1 DEF NoAnswer, Classify, Kinds
<1>2. CASE http \in TooLong
  BY <1>2 DEF TooLong, Classify, Kinds
<1>3. CASE http \in WithBody
  <2>1. http.status \in {200, 302, 401, 403, 429, 500}
    BY <1>3 DEF WithBody
  <2>2. Classify(http) = ByStatus(http.status)
    BY <1>3 DEF WithBody, Classify
  <2> QED
    BY <2>1, <2>2, StatusIsKind
<1> QED
  BY <1>1, <1>2, <1>3 DEF HttpResults

(* The parser's answer included, what a page request returns is a kind.    *)
LEMMA OutcomeIsKind ==
  ASSUME NEW http \in HttpResults
  PROVE  Outcome(http) \in Kinds
<1>1. Classify(http) \in Kinds
  BY ClassifyIsKind
<1>2. ByBody(http.body) \in Kinds
  BY DEF ByBody, Kinds
<1>3. "Offline" \in Kinds
  BY DEF Kinds
<1> QED
  BY <1>1, <1>2, <1>3 DEF Outcome

(* Of the statuses only 2xx counts as a success.                           *)
LEMMA SuccessStatus ==
  ASSUME NEW status \in Int, ByStatus(status) = "Success"
  PROVE  status \in 200..299
  BY DEF ByStatus

(* Only an answer that was read to its end is classified as a success.     *)
LEMMA SuccessIsAnswer ==
  ASSUME NEW http \in HttpResults, Classify(http) = "Success"
  PROVE  /\ ~http.exceededLimit /\ http.transportOk
         /\ http.status \in 200..299
         /\ http.body \in {"page", "error payload", "page with error",
                          "malformed"}
<1>1. http \notin NoAnswer
  BY DEF NoAnswer, Classify
<1>2. http \notin TooLong
  BY DEF TooLong, Classify
<1>3. http \in WithBody
  BY <1>1, <1>2 DEF HttpResults
<1>4. /\ ~http.exceededLimit /\ http.transportOk
      /\ http.body \in {"page", "error payload", "page with error",
                       "malformed"}
  BY <1>3 DEF WithBody
<1>5. http.status \in {200, 302, 401, 403, 429, 500}
  BY <1>3 DEF WithBody
<1>6. Classify(http) = ByStatus(http.status)
  BY <1>4 DEF Classify
<1>7. http.status \in 200..299
  <2>1. ByStatus(http.status) = "Success"
    BY <1>6
  <2>2. http.status \in Int
    BY <1>5
  <2> QED
    BY <2>1, <2>2, SuccessStatus
<1> QED
  BY <1>4, <1>7, Zenon

(* A result that the client takes for a success is a page.                 *)
LEMMA SuccessIsPage ==
  ASSUME NEW http \in HttpResults, Outcome(http) = "Success"
  PROVE  IsPage(http)
<1>1. Classify(http) = "Success"
  BY DEF Outcome, ByBody
<1>2. http.error # "no session"
  BY DEF Outcome
<1>3. http.body = "page"
  BY <1>1, <1>2, SuccessIsAnswer DEF Outcome, ByBody
<1> QED
  BY <1>1, <1>3, SuccessIsAnswer DEF IsPage

(* What an answer holds.                                                   *)
LEMMA AnsweredFacts ==
  ASSUME TypeOK
  PROVE  /\ Answered \in Seq(Nat)
         /\ Len(Answered) = Least(requested + PageSize, items) - requested
         /\ \A i \in 1..Len(Answered) :
              Answered[i] = requested + i /\ Answered[i] \in 1..items
<1> DEFINE n == Least(requested + PageSize, items) - requested
<1>1. n \in Nat /\ requested \in Nat /\ items \in Nat /\ requested + n <= items
  BY PagingAssumption DEF TypeOK, Least
<1>2. Answered = [i \in 1..n |-> requested + i]
  BY DEF Answered
<1> HIDE DEF n
<1>3. Answered \in Seq(Nat) /\ Len(Answered) = n
  BY <1>1, <1>2
<1> QED
  BY <1>1, <1>2, <1>3 DEF n

(* A cursor names no item beyond those of the date.                        *)
LEMMA MaxIdInRange ==
  ASSUME TypeOK, NEW maxId \in MaxIds
  PROVE  maxId = NoMaxId \/ maxId \in 0..items
<1>1. CASE misbehaves
  BY <1>1 DEF MaxIds
<1>2. CASE ~misbehaves /\ Answered = <<>>
  BY <1>2 DEF MaxIds, TypeOK
<1>3. CASE ~misbehaves /\ Answered # <<>>
  <2>1. maxId = Answered[Len(Answered)]
    BY <1>3 DEF MaxIds, Last
  <2>2. Len(Answered) \in 1..Len(Answered)
    BY <1>3, AnsweredFacts
  <2> QED
    BY <2>1, <2>2, AnsweredFacts DEF TypeOK
<1> QED
  BY <1>1, <1>2, <1>3 DEF TypeOK

(* A well-behaved service's cursor is the id of the last item collected.   *)
LEMMA MaxIdIsLast ==
  ASSUME TypeOK, ~misbehaves, NEW maxId \in MaxIds
  PROVE  /\ maxId \in {NoMaxId, requested} => Len(Answered) = 0 /\ requested = items
         /\ maxId \notin {NoMaxId, requested} =>
              /\ maxId = Least(requested + PageSize, items)
              /\ maxId = requested + Len(Answered)
<1>1. Len(Answered) \in Nat /\ requested \in 0..items /\ items \in Nat
  BY AnsweredFacts, PagingAssumption DEF TypeOK
<1>2. CASE Answered = <<>>
  <2>1. maxId \in {NoMaxId, requested}
    BY <1>2 DEF MaxIds
  <2>2. requested = items
    BY <1>1, <1>2, AnsweredFacts, PagingAssumption DEF Least
  <2> QED
    BY <1>2, <2>1, <2>2
<1>3. CASE Answered # <<>>
  <2>1. maxId = Answered[Len(Answered)]
    BY <1>3 DEF MaxIds, Last
  <2>2. Len(Answered) \in 1..Len(Answered) /\ Len(Answered) > 0
    BY <1>3, AnsweredFacts
  <2>3. maxId = requested + Len(Answered)
    BY <2>1, <2>2, AnsweredFacts
  <2>4. maxId = Least(requested + PageSize, items)
    BY <2>3, <1>1, AnsweredFacts, PagingAssumption DEF Least
  <2> QED
    BY <1>1, <2>2, <2>3, <2>4 DEF NoMaxId
<1> QED
  BY <1>2, <1>3

-----------------------------------------------------------------------------
(* The invariant of the client holds initially.                            *)
LEMMA InvInit == Init => IInv
<1> SUFFICES ASSUME Init PROVE IInv
  OBVIOUS
<1>1. TypeOK
  BY PagingAssumption DEF Init, TypeOK, Kinds
<1>2. OutInv
  BY DEF Init, OutInv
<1>3. FailureInv
  BY DEF Init, FailureInv
<1> QED
  BY <1>1, <1>2, <1>3 DEF IInv

(* Every step of the client preserves it.                                  *)
LEMMA InvNext == IInv /\ [Next]_vars => IInv'
<1> SUFFICES ASSUME IInv, [Next]_vars PROVE IInv'
  OBVIOUS
<1> USE PagingAssumption
<1>1. CASE Call
  <2>1. TypeOK'
    BY <1>1 DEF Call, IInv, TypeOK, service
  <2>2. OutInv'
    BY <1>1 DEF Call, OutInv
  <2>3. FailureInv'
    BY <1>1 DEF Call, FailureInv
  <2> QED
    BY <2>1, <2>2, <2>3 DEF IInv
<1>2. CASE Sell
  <2>1. TypeOK'
    <3>1. items' = items + 1 /\ items' \in 0..MaxItems
      BY <1>2 DEF Sell, IInv, TypeOK
    <3>2. UNCHANGED <<misbehaves, pc, page, requested, out, result>>
      BY <1>2 DEF Sell
    <3> QED
      BY <3>1, <3>2 DEF IInv, TypeOK
  <2>2. OutInv' /\ FailureInv'
    BY <1>2 DEF Sell, IInv, OutInv, FailureInv
  <2> QED
    BY <2>1, <2>2 DEF IInv
<1>3. ASSUME NEW http \in HttpResults, PageFailed(http) PROVE IInv'
  <2>1. Outcome(http) \in Kinds
    BY OutcomeIsKind
  <2>2. TypeOK'
    BY <1>3, <2>1 DEF PageFailed, IInv, TypeOK, service
  <2>3. OutInv' /\ FailureInv'
    BY <1>3 DEF PageFailed, IInv, OutInv, FailureInv
  <2> QED
    BY <2>2, <2>3 DEF IInv
<1>4. ASSUME NEW http \in HttpResults, NEW maxId \in MaxIds,
             PageFetched(http, maxId)
      PROVE  IInv'
  <2>1. maxId = NoMaxId \/ maxId \in 0..items
    BY MaxIdInRange DEF IInv
  <2>2. Answered \in Seq(Nat) /\ out \in Seq(Nat)
    BY AnsweredFacts DEF IInv, OutInv
  <2>3. out' = out \o Answered
    BY <1>4 DEF PageFetched
  <2>4. \A i \in DOMAIN out' : out'[i] \in 1..items
    <3> SUFFICES ASSUME NEW i \in DOMAIN out' PROVE out'[i] \in 1..items
      OBVIOUS
    <3>1. i \in 1..(Len(out) + Len(Answered))
      BY <2>2, <2>3
    <3>2. CASE i <= Len(out)
      BY <2>2, <2>3, <3>1, <3>2 DEF IInv, TypeOK
    <3>3. CASE i > Len(out)
      <4>1. i - Len(out) \in 1..Len(Answered)
        BY <3>1, <3>3, <2>2
      <4>2. out'[i] = Answered[i - Len(out)]
        BY <2>2, <2>3, <3>1, <3>3
      <4> QED
        BY <4>1, <4>2, AnsweredFacts DEF IInv
    <3> QED
      BY <3>1, <3>2, <3>3, <2>2
  <2>5. UNCHANGED <<items, misbehaves>>
    BY <1>4 DEF PageFetched, service
  <2>6. /\ requested' \in 0..items /\ page' \in 0..MaxPages
        /\ pc' \in {"Idle", "Loop"} /\ result' \in Kinds
    BY <1>4, <2>1 DEF PageFetched, IInv, TypeOK, Kinds, NextRequest
  <2>7. TypeOK'
    BY <2>4, <2>5, <2>6 DEF IInv, TypeOK
  <2>8. OutInv'
    BY <2>2, <2>3 DEF OutInv
  <2>9. FailureInv'
    <3>1. failed' = failed /\ pc = "Loop"
      BY <1>4, SuccessIsPage DEF PageFetched, IInv, FailureInv
    <3>2. failed = FALSE
      BY <3>1 DEF IInv, FailureInv
    <3> QED
      BY <3>1, <3>2 DEF FailureInv
  <2> QED
    BY <2>7, <2>8, <2>9 DEF IInv
<1>5. CASE PagesExhausted
  BY <1>5 DEF PagesExhausted, IInv, TypeOK, OutInv, FailureInv, service, Kinds
<1>6. CASE UNCHANGED vars
  BY <1>6 DEF vars, service, IInv, TypeOK, OutInv, FailureInv
<1> QED
  BY <1>1, <1>2, <1>3, <1>4, <1>5, <1>6 DEF Next, Client

(* The client's variables keep their types, and no item that the service   *)
(* does not have is returned.                                              *)
THEOREM ClientTypeCorrect == FairSpec => []TypeOK
<1>1. IInv => TypeOK
  BY DEF IInv
<1> QED
  BY <1>1, InvInit, InvNext, PTL DEF FairSpec, Spec

(* For every sequence of answers: a date one of whose answers was an error *)
(* payload, a refusal, broken or too large is never returned as a success. *)
THEOREM FailureIsReported == FairSpec => []NoFailureTakenForSuccess
<1>1. IInv => NoFailureTakenForSuccess
  BY DEF IInv, FailureInv, NoFailureTakenForSuccess
<1> QED
  BY <1>1, InvInit, InvNext, PTL DEF FairSpec, Spec

-----------------------------------------------------------------------------
(* A page extends the ids collected by those up to the new cursor.         *)
LEMMA PageExtends ==
  ASSUME IInv, Collected, ~misbehaves,
         NEW http \in HttpResults, NEW maxId \in MaxIds,
         PageFetched(http, maxId)
  PROVE  /\ out' = Upto(requested')
         /\ maxId \in {NoMaxId, requested} => requested' = items
         /\ maxId \notin {NoMaxId, requested} =>
              requested' = Least(requested + PageSize, items)
<1>1. TypeOK /\ requested \in Nat
  BY PagingAssumption DEF IInv, TypeOK
<1>2. out = Upto(requested) /\ Len(out) = requested /\ out \in Seq(Nat)
  BY <1>1 DEF Collected, Upto, IInv, OutInv
<1>3. out' = out \o Answered
  BY DEF PageFetched
<1>4. Answered \in Seq(Nat) /\ Len(Answered) \in Nat
  BY <1>1, AnsweredFacts
<1>5. requested' = requested + Len(Answered)
  <2>1. CASE maxId \in {NoMaxId, requested}
    BY <1>1, <2>1, MaxIdIsLast DEF PageFetched
  <2>2. CASE maxId \notin {NoMaxId, requested}
    BY <1>1, <2>2, MaxIdIsLast DEF PageFetched, NextRequest
  <2> QED
    BY <2>1, <2>2
<1>6. out' = Upto(requested')
  <2>1. out' \in Seq(Nat) /\ Len(out') = requested'
    BY <1>2, <1>3, <1>4, <1>5
  <2>2. ASSUME NEW i \in 1..Len(out') PROVE out'[i] = i
    <3>1. CASE i <= Len(out)
      BY <1>1, <1>2, <1>3, <1>4, <2>1, <2>2, <3>1 DEF Upto
    <3>2. CASE i > Len(out)
      <4>1. i - Len(out) \in 1..Len(Answered)
        BY <1>2, <1>4, <1>5, <1>1, <2>1, <2>2, <3>2
      <4>2. out'[i] = Answered[i - Len(out)]
        BY <1>2, <1>3, <1>4, <2>1, <2>2, <3>2
      <4> QED
        BY <4>1, <4>2, <1>1, <1>2, AnsweredFacts
    <3> QED
      BY <1>1, <1>2, <2>2, <3>1, <3>2, <2>1
  <2>3. out' = [i \in 1..Len(out') |-> out'[i]]
    BY <2>1
  <2> QED
    BY <2>1, <2>2, <2>3 DEF Upto
<1>7. maxId \in {NoMaxId, requested} => requested' = items
  BY <1>1, MaxIdIsLast DEF PageFetched
<1>8. maxId \notin {NoMaxId, requested} =>
        requested' = Least(requested + PageSize, items)
  BY <1>1, MaxIdIsLast DEF PageFetched, NextRequest
<1> QED
  BY <1>6, <1>7, <1>8

(* What the page loop has collected, before its first request.             *)
LEMMA LInvInit == Init => LInv
<1> SUFFICES ASSUME Init PROVE LInv
  OBVIOUS
<1>1. IInv
  BY InvInit
<1>2. out = Upto(requested)
  BY DEF Init, Upto
<1>3. Progress
  BY PagingAssumption DEF Init, Progress
<1> QED
  BY <1>1, <1>2, <1>3 DEF LInv, Collected

(* The bound on the pages is enough for the items of the date.             *)
LEMMA LInvNext ==
  ASSUME MaxItems <= MaxPages * PageSize
  PROVE  LInv /\ [Next]_vars => LInv'
<1> SUFFICES ASSUME LInv, [Next]_vars PROVE LInv'
  OBVIOUS
<1> USE PagingAssumption
<1>0. IInv' /\ IInv /\ TypeOK
  BY InvNext DEF LInv, IInv
<1>1. CASE Call
  <2>1. Collected'
    BY <1>1 DEF Call, Collected, Upto
  <2>2. Progress'
    BY <1>1, <1>0 DEF Call, Progress, service, TypeOK
  <2> QED
    BY <1>0, <2>1, <2>2 DEF LInv
<1>2. CASE Sell
  <2>1. Collected'
    BY <1>2 DEF Sell, LInv, Collected
  <2>2. Progress'
    BY <1>2, <1>0 DEF Sell, LInv, Progress, TypeOK
  <2> QED
    BY <1>0, <2>1, <2>2 DEF LInv
<1>3. ASSUME NEW http \in HttpResults, PageFailed(http) PROVE LInv'
  <2>1. Collected'
    BY <1>3 DEF PageFailed, LInv, Collected, service
  <2>2. Progress'
    BY <1>3 DEF PageFailed, LInv, Progress, service
  <2> QED
    BY <1>0, <2>1, <2>2 DEF LInv
<1>4. ASSUME NEW http \in HttpResults, NEW maxId \in MaxIds,
             PageFetched(http, maxId)
      PROVE  LInv'
  <2>1. UNCHANGED <<items, misbehaves, atCall>>
    BY <1>4 DEF PageFetched, service
  <2>2. CASE misbehaves
    BY <1>0, <2>1, <2>2 DEF LInv, Collected, Progress
  <2>3. CASE ~misbehaves
    <3>1. /\ out' = Upto(requested')
          /\ maxId \in {NoMaxId, requested} => requested' = items
          /\ maxId \notin {NoMaxId, requested} =>
               requested' = Least(requested + PageSize, items)
      BY <1>0, <1>4, <2>3, PageExtends DEF LInv
    <3>2. Progress'
      <4>1. atCall \in 0..items /\ items \in Nat /\ requested \in Nat
            /\ page \in Nat
        BY <1>0 DEF LInv, Progress, TypeOK
      <4>2. CASE maxId \in {NoMaxId, requested}
        BY <1>4, <2>1, <3>1, <4>1, <4>2 DEF PageFetched, Progress
      <4>3. CASE maxId \notin {NoMaxId, requested}
        <5>1. pc' = "Loop" /\ pc = "Loop" /\ page' = page + 1
          BY <1>4, <4>3 DEF PageFetched
        <5>2. requested >= page * PageSize \/ requested >= atCall
          BY <2>3, <5>1 DEF LInv, Progress
        <5>3. page' * PageSize = page * PageSize + PageSize
          BY <5>1, <4>1
        <5>4. page * PageSize \in Nat
          BY <4>1
        <5>5. requested' >= page' * PageSize \/ requested' >= atCall
          BY <3>1, <4>1, <4>3, <5>2, <5>3, <5>4 DEF Least
        <5> QED
          BY <2>1, <4>1, <5>1, <5>5 DEF Progress
      <4> QED
        BY <4>2, <4>3
    <3> QED
      BY <1>0, <3>1, <3>2 DEF LInv, Collected
  <2> QED
    BY <2>2, <2>3, <1>0 DEF TypeOK
<1>5. CASE PagesExhausted
  <2>1. Collected'
    BY <1>5 DEF PagesExhausted, LInv, Collected, service
  <2>2. UNCHANGED <<items, misbehaves, page, requested, atCall>>
        /\ pc = "Loop" /\ page = MaxPages /\ pc' = "Idle"
    BY <1>5 DEF PagesExhausted, service
  <2>3. /\ requested \in Nat /\ items \in Nat /\ atCall \in 0..items
        /\ items <= MaxItems
    BY <1>0 DEF TypeOK, LInv, Progress
  <2>4. ~misbehaves => requested >= atCall
    <3>1. ~misbehaves => requested >= MaxPages * PageSize \/ requested >= atCall
      BY <2>2 DEF LInv, Progress
    <3>2. MaxPages * PageSize \in Nat
      OBVIOUS
    <3> QED
      BY <2>3, <3>1, <3>2
  <2>5. Progress'
    BY <2>2, <2>3, <2>4 DEF Progress
  <2> QED
    BY <1>0, <2>1, <2>5 DEF LInv
<1>6. CASE UNCHANGED vars
  BY <1>0, <1>6 DEF vars, service, LInv, Collected, Progress
<1> QED
  BY <1>1, <1>2, <1>3, <1>4, <1>5, <1>6 DEF Next, Client

(* If the bound on the pages is enough for the date, a success returns     *)
(* every item that the service had when the call began, once and in order, *)
(* whatever items arrive between its pages.                                *)
THEOREM NoItemMissedOrDoubled ==
  ASSUME MaxItems <= MaxPages * PageSize
  PROVE  FairSpec => []EveryItemOnce
<1>1. LInv => EveryItemOnce
  <2> SUFFICES ASSUME LInv, pc = "Idle", result = "Success", ~misbehaves
               PROVE  /\ Len(out) >= atCall
                      /\ out = [i \in 1..Len(out) |-> i]
    BY DEF EveryItemOnce
  <2>1. out = Upto(requested) /\ requested \in Nat /\ requested >= atCall
    BY PagingAssumption DEF LInv, IInv, TypeOK, Collected, Progress
  <2>2. Len(out) = requested
    BY <2>1 DEF Upto
  <2> QED
    BY <2>1, <2>2 DEF Upto
<1> QED
  BY <1>1, LInvInit, LInvNext, PTL DEF FairSpec, Spec

-----------------------------------------------------------------------------
(* The numbers and the items of an answer.                                 *)

(* The bits of an integer are a signed integer, of one that fits itself.   *)
LEMMA WrapType ==
  ASSUME NEW n \in Int
  PROVE  Wrap(n) \in Int64 /\ (n \in Int64 => Wrap(n) = n)
<1>1. Wrap(n) \in Int64
  BY LimitAssumption DEF Wrap, Int64
<1>2. n \in Int64 => Wrap(n) = n
  BY LimitAssumption DEF Wrap, Int64
<1> QED
  BY <1>1, <1>2

(* So is what strtoll makes of a text.                                     *)
LEMMA ClampType ==
  ASSUME NEW n \in Int
  PROVE  Clamp(n) \in Int64 /\ (n \in Int64 => Clamp(n) = n)
BY LimitAssumption DEF Clamp, Int64

(* What stands for a missing number is a signed integer.                   *)
LEMMA ZeroFits == 0 \in Int64
BY LimitAssumption DEF Int64

(* GetInt64 returns a signed integer, and the one that is written if it    *)
(* fits: the spelling does not matter.                                     *)
LEMMA NumberType ==
  ASSUME NEW v \in JsonValues
  PROVE  GetInt64(v) \in Int64 /\ (Fits(v) => GetInt64(v) = v.number)
<1>1. CASE v.type \in {"uint", "sint"}
  <2>1. GetInt64(v) = Wrap(v.number)
    BY <1>1, Zenon DEF GetInt64
  <2> QED
    BY <2>1, WrapType DEF JsonValues, Fits
<1>2. CASE v.type = "real"
  <2>1. GetInt64(v) = v.number
    BY <1>2, Zenon DEF GetInt64
  <2> QED
    BY <1>2, <2>1 DEF JsonValues, Fits
<1>3. CASE v.type = "str"
  <2>1. GetInt64(v) = Clamp(v.number)
    BY <1>3, Zenon DEF GetInt64
  <2> QED
    BY <2>1, ClampType DEF JsonValues, Fits
<1>4. CASE v.type \in {"absent", "null"}
  <2>1. GetInt64(v) = 0
    BY <1>4, Zenon DEF GetInt64
  <2> QED
    BY <1>4, <2>1, ZeroFits DEF JsonValues, Fits
<1> QED
  BY <1>1, <1>2, <1>3, <1>4 DEF JsonValues

(* The first elements of s that are objects (Items).                       *)
IsSelection(s, n, g) ==
  g = [i \in 0..n |-> IF i = 0 THEN <<>>
                      ELSE IF s[i].object THEN Append(g[i - 1], s[i]) ELSE g[i - 1]]

(* Every sequence of elements has its partial selections.                  *)
LEMMA SelectionExists ==
  ASSUME NEW s, NEW n \in Nat
  PROVE  \E g : IsSelection(s, n, g)
<1> DEFINE S == {k \in Nat : ~ \E g : IsSelection(s, k, g)}
<1> SUFFICES ASSUME S # {} PROVE FALSE
  OBVIOUS
<1>1. PICK k \in S : k = 0 \/ k - 1 \notin S
  <2>1. S \in SUBSET Nat
    OBVIOUS
  <2> HIDE DEF S
  <2> QED
    BY <2>1, FirstNumber
<1>2. k # 0
  <2>1. IsSelection(s, 0, [i \in 0..0 |-> <<>>])
    BY DEF IsSelection
  <2> QED
    BY <2>1
<1>3. PICK g : IsSelection(s, k - 1, g)
  BY <1>1, <1>2
<1> DEFINE h == [i \in 0..k |-> IF i < k THEN g[i]
                   ELSE IF s[k].object THEN Append(g[k - 1], s[k]) ELSE g[k - 1]]
<1>4. \A i \in 0..k :
        h[i] = IF i = 0 THEN <<>>
               ELSE IF s[i].object THEN Append(h[i - 1], s[i]) ELSE h[i - 1]
  <2>1. \A i \in 0..k - 1 :
          g[i] = IF i = 0 THEN <<>>
                 ELSE IF s[i].object THEN Append(g[i - 1], s[i]) ELSE g[i - 1]
    BY <1>2, <1>3 DEF IsSelection
  <2> SUFFICES ASSUME NEW i \in 0..k
               PROVE  h[i] = IF i = 0 THEN <<>>
                             ELSE IF s[i].object THEN Append(h[i - 1], s[i])
                             ELSE h[i - 1]
    OBVIOUS
  <2>2. CASE i < k
    <3>1. h[i] = g[i] /\ (i # 0 => h[i - 1] = g[i - 1])
      BY <2>2
    <3> QED
      BY <2>1, <2>2, <3>1
  <2>3. CASE i = k
    <3>1. h[i - 1] = g[k - 1]
      BY <1>2, <2>3
    <3> QED
      BY <1>2, <2>3, <3>1
  <2> QED
    BY <2>2, <2>3
<1>5. IsSelection(s, k, h)
  <2>1. h = [i \in 0..k |-> h[i]]
    OBVIOUS
  <2> HIDE DEF h
  <2>2. [i \in 0..k |-> h[i]] =
          [i \in 0..k |-> IF i = 0 THEN <<>>
                          ELSE IF s[i].object THEN Append(h[i - 1], s[i])
                          ELSE h[i - 1]]
    BY <1>4
  <2> QED
    BY <2>1, <2>2 DEF IsSelection
<1> QED
  BY <1>5


(* A selection of elements of a sequence has elements of it only.          *)
LEMMA SelectionType ==
  ASSUME NEW T, NEW s \in Seq(T), NEW g, IsSelection(s, Len(s), g)
  PROVE  g[Len(s)] \in Seq(T)
<1> DEFINE S == {k \in Nat : k <= Len(s) /\ g[k] \notin Seq(T)}
<1>1. ASSUME S # {} PROVE FALSE
  <2>1. PICK k \in S : k = 0 \/ k - 1 \notin S
    <3>1. S \in SUBSET Nat
      OBVIOUS
    <3> HIDE DEF S
    <3> QED
      BY <1>1, <3>1, FirstNumber
  <2>2. \A i \in 0..Len(s) :
          g[i] = IF i = 0 THEN <<>>
                 ELSE IF s[i].object THEN Append(g[i - 1], s[i]) ELSE g[i - 1]
    BY DEF IsSelection
  <2>3. k \in 0..Len(s)
    OBVIOUS
  <2>4. k # 0
    <3>1. k = 0 => g[k] = <<>>
      BY <2>2, <2>3
    <3>2. <<>> \in Seq(T) /\ g[k] \notin Seq(T)
      OBVIOUS
    <3> QED
      BY <3>1, <3>2
  <2>5. g[k - 1] \in Seq(T) /\ s[k] \in T
    BY <2>1, <2>4
  <2>7. Append(g[k - 1], s[k]) \in Seq(T)
    BY <2>5
  <2>6. g[k] \in {Append(g[k - 1], s[k]), g[k - 1]}
    BY <2>2, <2>3, <2>4
  <2>8. g[k] \in Seq(T)
    BY <2>5, <2>6, <2>7, Zenon
  <2> QED
    BY <2>8
<1> QED
  BY <1>1

(* The array that is found is one of line items.                           *)
LEMMA LocatedType ==
  ASSUME NEW answer, IsBody(answer)
  PROVE  Located(answer) \in Seq(LineItems)
<1> DEFINE found == {k \in DOMAIN RecordArrayKeys :
                       RecordArrayKeys[k] \in DOMAIN answer.arrays}
<1>1. CASE found = {}
  BY <1>1 DEF Located
<1>2. CASE found # {}
  <2>1. Min(found) \in found
    <3>1. found \in SUBSET Nat /\ found # {}
      BY <1>2 DEF RecordArrayKeys
    <3> HIDE DEF found
    <3> QED
      BY <3>1, LeastMember DEF Min
  <2>2. Located(answer) = answer.arrays[RecordArrayKeys[Min(found)]]
    BY <1>2 DEF Located
  <2> QED
    BY <2>1, <2>2 DEF IsBody
<1> QED
  BY <1>1, <1>2

(* The items of an answer are line items.                                  *)
LEMMA ItemsType ==
  ASSUME NEW answer, IsBody(answer)
  PROVE  Items(answer) \in Seq(LineItems)
<1> DEFINE s == Located(answer)
           g == CHOOSE h : IsSelection(s, Len(s), h)
<1>1. s \in Seq(LineItems)
  BY LocatedType
<1>2. IsSelection(s, Len(s), g)
  <2>1. Len(s) \in Nat
    BY <1>1
  <2> HIDE DEF s
  <2>2. \E h : IsSelection(s, Len(s), h)
    BY <2>1, SelectionExists
  <2> QED
    BY <2>2
<1>3. Items(answer) = g[Len(s)]
  BY DEF Items, IsSelection
<1> HIDE DEF g, s
<1> QED
  BY <1>1, <1>2, <1>3, SelectionType

(* An app_info names products, and none with the empty name.               *)
LEMMA AppNamesType ==
  ASSUME NEW info \in Seq(Entries)
  PROVE  /\ DOMAIN AppNames(info) =
              {GetInt64(info[i].appid) : i \in NamedEntries(info)}
         /\ \A id \in DOMAIN AppNames(info) :
              AppNames(info)[id] \in Names /\ AppNames(info)[id] # NoName
<1>1. DOMAIN AppNames(info) =
        {GetInt64(info[i].appid) : i \in NamedEntries(info)}
  BY DEF AppNames
<1>2. ASSUME NEW id \in DOMAIN AppNames(info)
      PROVE  AppNames(info)[id] \in Names /\ AppNames(info)[id] # NoName
  <2> DEFINE mine == {i \in NamedEntries(info) : GetInt64(info[i].appid) = id}
  <2>1. mine # {} /\ mine \in SUBSET (1..Len(info))
    BY <1>1 DEF NamedEntries
  <2>2. Max(mine) \in mine
    <3>1. Len(info) \in Nat
      OBVIOUS
    <3> HIDE DEF mine
    <3> QED
      BY <2>1, <3>1, GreatestMember
  <2>3. AppNames(info)[id] = info[Max(mine)].name
    BY <1>1 DEF AppNames
  <2>4. Max(mine) \in 1..Len(info) /\ info[Max(mine)].name # NoName
    BY <2>1, <2>2 DEF NamedEntries
  <2> DEFINE e == info[Max(mine)]
  <2>5. e \in Entries
    BY <2>4
  <2> HIDE DEF mine, e
  <2>6. e.name \in Names \cup {NoName}
    BY <2>5 DEF Entries
  <2> QED
    BY <2>3, <2>4, <2>6 DEF e
<1> QED
  BY <1>1, <1>2

(* A page has one record per item, each made of its item and the app_info. *)
LEMMA PageRecordsType ==
  ASSUME NEW answer, IsBody(answer)
  PROVE  /\ PageRecords(answer) \in Seq(Records)
         /\ Len(PageRecords(answer)) = Len(Items(answer))
         /\ \A i \in 1..Len(Items(answer)) :
              PageRecords(answer)[i] =
                ParseRecord(Items(answer)[i], AppNames(answer.info))
<1> DEFINE lines == Items(answer)
           names == AppNames(answer.info)
           parsed == [i \in 1..Len(lines) |-> ParseRecord(lines[i], names)]
<1>1. lines \in Seq(LineItems)
  BY ItemsType
<1>2. \A id \in DOMAIN names : names[id] \in Names
  BY AppNamesType DEF IsBody
<1>3. PageRecords(answer) = parsed
  <2>1. DOMAIN lines = 1..Len(lines)
    BY <1>1
  <2> QED
    BY <2>1 DEF PageRecords
<1>4. ASSUME NEW i \in 1..Len(lines)
      PROVE  ParseRecord(lines[i], names) \in Records
  <2> DEFINE item == lines[i]
  <2>1. item \in LineItems
    BY <1>1
  <2> HIDE DEF item, names, lines
  <2>2. GetInt64(item.appid) \in Apps \cup {0} /\ GetInt64(item.units) \in Units
    BY <2>1, NumberType, Int64Assumption DEF LineItems
  <2>3. item.counted \in BOOLEAN /\ item.name \in Names \cup {NoName}
    BY <2>1 DEF LineItems
  <2>4. ParseRecord(item, names) \in Records
    BY <1>2, <2>2, <2>3 DEF ParseRecord, Records
  <2> QED
    BY <2>4 DEF item
<1> HIDE DEF lines, names
<1>5. parsed \in Seq(Records) /\ Len(parsed) = Len(lines)
  BY <1>1, <1>4
<1> QED
  BY <1>3, <1>5 DEF lines, names

-----------------------------------------------------------------------------
(* One more record.  OfIn, TotalIn and NameIn are what RowsAreSums says of *)
(* a product, for any sequence of records.                                 *)

OfIn(rs, a) == {j \in 1..Len(rs) : IsCounted(rs[j]) /\ rs[j].app = a}
NamedIn(rs, a) == {j \in OfIn(rs, a) : rs[j].name # NoName}
TotalIn(rs, a) == SumFunction([j \in OfIn(rs, a) |-> rs[j].units])
NameIn(rs, a) ==
  IF NamedIn(rs, a) = {} THEN NoName ELSE rs[Max(NamedIn(rs, a))].name

(* The units of a record are an integer.                                   *)
LEMMA UnitsOf ==
  ASSUME NEW rs \in Seq(Records), NEW j \in 1..Len(rs)
  PROVE  rs[j] \in Records /\ rs[j].units \in Int
<1>1. rs[j] \in Records
  OBVIOUS
<1> DEFINE rec == rs[j]
<1> HIDE DEF rec
<1>2. rec \in Records => rec.units \in Int
  BY LineUnitsAssumption DEF Records
<1> QED
  BY <1>1, <1>2 DEF rec

(* The sum over some of a product's records is one over a finite set.      *)
LEMMA TotalOver ==
  ASSUME NEW rs \in Seq(Records), NEW a, NEW T \in SUBSET OfIn(rs, a)
  PROVE  /\ IsFiniteSet(T)
         /\ SumFunction([j \in T |-> rs[j].units]) =
              SumFunctionOnSet([j \in 1..Len(rs) |-> rs[j].units], T)
         /\ SumFunction([j \in T |-> rs[j].units]) \in Int
<1> DEFINE f == [j \in 1..Len(rs) |-> rs[j].units]
           g == [j \in T |-> rs[j].units]
<1>1. T \in SUBSET (1..Len(rs))
  BY DEF OfIn
<1>2. IsFiniteSet(T)
  <2>1. IsFiniteSet(1..Len(rs))
    BY FS_Interval
  <2> QED
    BY <1>1, <2>1, FS_Subset
<1>3. \A j \in T : g[j] = f[j]
  BY <1>1
<1>4. \A j \in T : f[j] \in Int
  BY <1>1, UnitsOf
<1>5. SumFunction(g) = SumFunctionOnSet(g, T)
  BY DEF SumFunction
<1> HIDE DEF f, g
<1>6. SumFunctionOnSet(g, T) = SumFunctionOnSet(f, T)
  BY <1>2, <1>3, SumEqual
<1>7. SumFunctionOnSet(f, T) \in Int
  BY <1>2, <1>4, SumType
<1> QED
  BY <1>2, <1>5, <1>6, <1>7 DEF f, g

(* One more record changes the positions and the sum of its product only.  *)
LEMMA OneMoreTotal ==
  ASSUME NEW rs \in Seq(Records), NEW rec \in Records, NEW a
  PROVE  LET qs == Append(rs, rec)
             n == Len(rs) + 1
         IN IF IsCounted(rec) /\ rec.app = a
            THEN /\ OfIn(qs, a) = OfIn(rs, a) \cup {n}
                 /\ TotalIn(qs, a) = TotalIn(rs, a) + rec.units
            ELSE /\ OfIn(qs, a) = OfIn(rs, a)
                 /\ TotalIn(qs, a) = TotalIn(rs, a)
<1> DEFINE qs == Append(rs, rec)
           n == Len(rs) + 1
           f == [j \in 1..Len(rs) |-> rs[j].units]
           g == [j \in 1..Len(qs) |-> qs[j].units]
           S == OfIn(rs, a)
           T == OfIn(qs, a)
<1>1. /\ qs \in Seq(Records) /\ Len(qs) = n /\ n \in Nat /\ qs[n] = rec
      /\ \A j \in 1..Len(rs) : qs[j] = rs[j]
  OBVIOUS
<1>2. /\ TotalIn(rs, a) = SumFunctionOnSet(f, S)
      /\ TotalIn(rs, a) \in Int
      /\ IsFiniteSet(S)
  BY TotalOver DEF TotalIn
<1>3. /\ TotalIn(qs, a) = SumFunctionOnSet(g, T)
      /\ IsFiniteSet(T)
  BY <1>1, TotalOver DEF TotalIn
<1>4. S \subseteq 1..Len(rs) /\ T \subseteq 1..n
  BY <1>1 DEF OfIn
<1>5. SumFunctionOnSet(f, S) = SumFunctionOnSet(g, S)
  <2>1. \A j \in S : f[j] = g[j]
    BY <1>1, <1>4
  <2> HIDE DEF f, g, S
  <2> QED
    BY <1>2, <2>1, SumEqual
<1>6. CASE IsCounted(rec) /\ rec.app = a
  <2>1. T = S \cup {n}
    BY <1>1, <1>6 DEF OfIn
  <2>2. T \ {n} = S /\ n \in T
    BY <1>4, <2>1
  <2>3. \A j \in T : g[j] \in Int
    BY <1>1, <1>4, UnitsOf
  <2>4. g[n] = rec.units
    BY <1>1
  <2> HIDE DEF f, g, S, T, n, qs
  <2>5. SumFunctionOnSet(g, T) = g[n] + SumFunctionOnSet(g, S)
    BY <1>3, <2>2, <2>3, SumRemove
  <2>6. rec.units \in Int
    BY LineUnitsAssumption DEF Records
  <2>7. TotalIn(qs, a) = TotalIn(rs, a) + rec.units
    BY <1>2, <1>3, <1>5, <2>4, <2>5, <2>6
  <2> QED
    BY <1>6, <2>1, <2>7 DEF S, T, n, qs
<1>7. CASE ~(IsCounted(rec) /\ rec.app = a)
  <2>1. T = S
    BY <1>1, <1>7 DEF OfIn
  <2> HIDE DEF f, g, S, T, n, qs
  <2>2. TotalIn(qs, a) = TotalIn(rs, a)
    BY <1>2, <1>3, <1>5, <2>1
  <2> QED
    BY <1>7, <2>1, <2>2 DEF S, T, n, qs
<1> QED
  BY <1>6, <1>7

(* One more record changes the name of its product only, and only if it has*)
(* one: the last name wins.                                                *)
LEMMA OneMoreName ==
  ASSUME NEW rs \in Seq(Records), NEW rec \in Records, NEW a
  PROVE  NameIn(Append(rs, rec), a) =
           IF IsCounted(rec) /\ rec.app = a /\ rec.name # NoName
           THEN rec.name ELSE NameIn(rs, a)
<1> DEFINE qs == Append(rs, rec)
           n == Len(rs) + 1
           S == NamedIn(rs, a)
           T == NamedIn(qs, a)
<1>1. /\ Len(qs) = n /\ n \in Nat /\ Len(rs) \in Nat /\ qs[n] = rec
      /\ \A j \in 1..Len(rs) : qs[j] = rs[j]
  OBVIOUS
<1>2. S \in SUBSET (1..Len(rs)) /\ T \in SUBSET (1..n)
  BY <1>1 DEF OfIn, NamedIn
<1>3. CASE IsCounted(rec) /\ rec.app = a /\ rec.name # NoName
  <2>1. n \in T
    BY <1>1, <1>3 DEF OfIn, NamedIn
  <2> HIDE DEF S, T, n, qs
  <2>2. Max(T) \in T /\ n <= Max(T)
    BY <1>1, <1>2, <2>1, GreatestMember
  <2>3. Max(T) = n
    <3>1. Max(T) \in 1..n
      BY <1>2, <2>2
    <3> QED
      BY <1>1, <2>2, <3>1
  <2>4. NameIn(qs, a) = rec.name
    BY <1>1, <2>1, <2>3 DEF NameIn, T
  <2> QED
    BY <1>3, <2>4 DEF qs
<1>4. CASE ~(IsCounted(rec) /\ rec.app = a /\ rec.name # NoName)
  <2>1. T = S
    BY <1>1, <1>4 DEF OfIn, NamedIn
  <2> HIDE DEF S, T, n, qs
  <2>2. S # {} => Max(S) \in 1..Len(rs)
    BY <1>1, <1>2, GreatestMember
  <2>3. NameIn(qs, a) = NameIn(rs, a)
    BY <1>1, <2>1, <2>2 DEF NameIn, S, T
  <2> QED
    BY <1>4, <2>3 DEF qs
<1> QED
  BY <1>3, <1>4

(* A product without a record has the sum 0 and no name.                   *)
LEMMA NoRecordYet ==
  ASSUME NEW rs, NEW a, OfIn(rs, a) = {}
  PROVE  TotalIn(rs, a) = 0 /\ NameIn(rs, a) = NoName
<1>1. NamedIn(rs, a) = {}
  BY DEF NamedIn
<1> DEFINE f == [j \in OfIn(rs, a) |-> rs[j].units]
<1>2. DOMAIN f = {}
  OBVIOUS
<1> HIDE DEF f
<1>3. SumFunction(f) = 0
  BY <1>2, SumEmpty DEF SumFunction
<1> QED
  BY <1>1, <1>3 DEF TotalIn, NameIn, f

-----------------------------------------------------------------------------
(* The fetch loop.                                                         *)

FetchInv ==
  /\ collected \in Seq(Records) /\ Len(collected) <= MaxRecords
  /\ answers \in Seq(Answers) /\ Len(answers) <= MaxAnswers
  /\ phase \in {"fetch", "aggregate", "failed"}
  /\ phase = "fetch" => Len(answers) < MaxAnswers
  /\ CursorIsExact

(* What the parser makes of max_id is what is written there, in the order  *)
(* in which it tries the types: an unsigned integer is read as one, and the*)
(* bits of an integer with a minus sign are a signed integer.              *)
LEMMA CursorRead ==
  ASSUME NEW v \in JsonValues
  PROVE  GetNumberAsString(v) = Written(v)
<1>1. CASE v.type = "sint"
  <2>1. Wrap(v.number) = v.number
    <3>1. v.number \in Int64
      BY <1>1, LimitAssumption DEF JsonValues, Int64
    <3>2. v.number \in Int
      BY DEF JsonValues
    <3> QED
      BY <3>1, <3>2, WrapType
  <2>2. GetNumberAsString(v) = <<Wrap(v.number)>>
    BY <1>1 DEF GetNumberAsString
  <2>3. Written(v) = <<v.number>>
    BY <1>1, Zenon DEF Written
  <2> QED
    BY <2>1, <2>2, <2>3
<1>2. CASE v.type = "uint"
  <2>1. Written(v) = <<v.number>>
    BY <1>2, Zenon DEF Written
  <2> QED
    BY <1>2, <2>1 DEF GetNumberAsString
<1>3. CASE v.type = "str"
  <2>1. Written(v) = v.text
    BY <1>3, Zenon DEF Written
  <2> QED
    BY <1>3, <2>1 DEF GetNumberAsString
<1>4. CASE v.type \in {"absent", "null", "real"}
  <2>1. Written(v) = <<>>
    BY <1>4, Zenon DEF Written
  <2> QED
    BY <1>4, <2>1 DEF GetNumberAsString
<1> QED
  BY <1>1, <1>2, <1>3, <1>4 DEF JsonValues

(* The cursor of request i and the end of the date by the answers q, and   *)
(* what CursorIsExact says of them.                                        *)
CursorIn(q, i) == IF i = 1 THEN <<0>> ELSE Written(q[i - 1].max_id)

EndsIn(q, i) ==
  CursorIn(q, i + 1) \in {<<>>, CursorIn(q, i)} \/ i = MaxAnswers

ExactIn(q, c, p) ==
  /\ p = "fetch" => c = CursorIn(q, Len(q) + 1)
  /\ p = "fetch" => \A i \in DOMAIN q : ~EndsIn(q, i)
  /\ p # "fetch" => \A i \in 1..Len(q) - 1 : ~EndsIn(q, i)
  /\ p = "aggregate" => EndsIn(q, Len(q))

LEMMA ExactNow ==
  /\ CursorIsExact <=> ExactIn(answers, cursor, phase)
  /\ CursorIsExact' <=> ExactIn(answers', cursor', phase')
BY DEF CursorIsExact, ExactIn, Ends, EndsIn, CursorOf, CursorIn

(* One more answer leaves the cursors of the requests made so far, and so  *)
(* which of the earlier answers end the date.                              *)
LEMMA OneMoreAnswer ==
  ASSUME NEW q \in Seq(Answers), NEW answer \in Answers
  PROVE  LET r == Append(q, answer)
         IN /\ r \in Seq(Answers) /\ Len(r) = Len(q) + 1
            /\ \A i \in 1..Len(q) + 1 : CursorIn(r, i) = CursorIn(q, i)
            /\ CursorIn(r, Len(q) + 2) = Written(answer.max_id)
            /\ \A i \in 1..Len(q) : EndsIn(r, i) <=> EndsIn(q, i)
<1> DEFINE r == Append(q, answer)
<1>1. /\ r \in Seq(Answers) /\ Len(r) = Len(q) + 1
      /\ Len(q) \in Nat
      /\ \A j \in 1..Len(q) : r[j] = q[j]
      /\ r[Len(q) + 1] = answer
  OBVIOUS
<1> HIDE DEF r
<1>2. ASSUME NEW i \in 1..Len(q) + 1
      PROVE  CursorIn(r, i) = CursorIn(q, i)
  <2>1. CASE i = 1
    BY <2>1 DEF CursorIn
  <2>2. CASE i # 1
    <3>1. r[i - 1] = q[i - 1]
      BY <1>1, <2>2
    <3> QED
      BY <2>2, <3>1 DEF CursorIn
  <2> QED
    BY <2>1, <2>2
<1>3. CursorIn(r, Len(q) + 2) = Written(answer.max_id)
  <2>1. Len(q) + 2 # 1 /\ (Len(q) + 2) - 1 = Len(q) + 1
    BY <1>1
  <2> QED
    BY <1>1, <2>1 DEF CursorIn
<1>4. ASSUME NEW i \in 1..Len(q)
      PROVE  EndsIn(r, i) <=> EndsIn(q, i)
  <2>1. i \in 1..Len(q) + 1 /\ i + 1 \in 1..Len(q) + 1
    BY <1>1
  <2>2. CursorIn(r, i) = CursorIn(q, i) /\ CursorIn(r, i + 1) = CursorIn(q, i + 1)
    BY <1>2, <2>1
  <2> QED
    BY <2>2 DEF EndsIn
<1> QED
  BY <1>1, <1>2, <1>3, <1>4 DEF r

(* The fetch begins with nothing.                                          *)
LEMMA FetchInit == PagesInit => FetchInv
<1> SUFFICES ASSUME PagesInit PROVE FetchInv
  OBVIOUS
<1>1. Len(answers) = 0 /\ Len(collected) = 0 /\ phase = "fetch"
  BY DEF PagesInit
<1>2. CursorIsExact
  <2>1. cursor = CursorOf(Len(answers) + 1)
    BY <1>1 DEF PagesInit, CursorOf
  <2>2. DOMAIN answers = {}
    BY DEF PagesInit
  <2> QED
    BY <1>1, <2>1, <2>2 DEF CursorIsExact
<1> QED
  BY <1>1, <1>2, MaxRecordsAssumption, MaxAnswersAssumption
     DEF PagesInit, FetchInv

(* A page that is parsed leaves the cursor that it names, and ends the date*)
(* if that is none, the one it was asked with, or the bound is reached.    *)
LEMMA ParsedCursor ==
  ASSUME FetchInv, NEW answer \in Answers, PageParsed(answer)
  PROVE  CursorIsExact'
<1> DEFINE n == Len(answers)
           w == Written(answer.max_id)
           more == w \notin {<<>>, cursor} /\ n + 1 < MaxAnswers
<1>1. /\ answers \in Seq(Answers) /\ answers' = Append(answers, answer)
      /\ n \in Nat /\ phase = "fetch" /\ n + 1 <= MaxAnswers
  BY MaxAnswersAssumption DEF FetchInv, PageParsed
<1>2. /\ answers' \in Seq(Answers) /\ Len(answers') = n + 1
      /\ \A i \in 1..n + 1 : CursorIn(answers', i) = CursorIn(answers, i)
      /\ CursorIn(answers', n + 2) = w
      /\ \A i \in 1..n : EndsIn(answers', i) <=> EndsIn(answers, i)
  BY <1>1, OneMoreAnswer
<1>3. GetNumberAsString(answer.max_id) = w
  <2>1. answer.max_id \in JsonValues
    BY AnswersAssumption DEF IsBody
  <2> QED
    BY <2>1, CursorRead
<1>4. cursor = CursorIn(answers', n + 1) /\ \A i \in 1..n : ~EndsIn(answers', i)
  <2>1. ExactIn(answers, cursor, phase)
    BY ExactNow DEF FetchInv
  <2>2. n + 1 \in 1..n + 1 /\ DOMAIN answers = 1..n
    BY <1>1
  <2> QED
    BY <1>1, <1>2, <2>1, <2>2 DEF ExactIn
<1>5. /\ phase' = IF more THEN "fetch" ELSE "aggregate"
      /\ cursor' = IF more THEN w ELSE cursor
  BY <1>2, <1>3 DEF PageParsed
<1>6. EndsIn(answers', n + 1) <=> ~more
  <2>1. (n + 1) + 1 = n + 2
    BY <1>1
  <2>2. CursorIn(answers', (n + 1) + 1) = w
    BY <1>2, <2>1
  <2> HIDE DEF w
  <2>3. EndsIn(answers', n + 1) <=> (w \in {<<>>, cursor} \/ n + 1 = MaxAnswers)
    BY <1>4, <2>2 DEF EndsIn
  <2> QED
    BY <1>1, <2>3, MaxAnswersAssumption
<1>7. CASE more
  <2>1. cursor' = CursorIn(answers', Len(answers') + 1) /\ phase' = "fetch"
    <3>1. Len(answers') + 1 = n + 2
      BY <1>1, <1>2
    <3> QED
      BY <1>2, <1>5, <1>7, <3>1
  <2>2. ~EndsIn(answers', n + 1)
    BY <1>6, <1>7
  <2>3. DOMAIN answers' = 1..n + 1
    BY <1>2
  <2> HIDE DEF n, w, more
  <2>4. \A i \in DOMAIN answers' : ~EndsIn(answers', i)
    BY <1>1, <1>4, <2>2, <2>3
  <2>5. ExactIn(answers', cursor', phase')
    BY <2>1, <2>4 DEF ExactIn
  <2> QED
    BY <2>5, ExactNow
<1>8. CASE ~more
  <2>1. phase' = "aggregate" /\ EndsIn(answers', Len(answers'))
    BY <1>2, <1>5, <1>6, <1>8
  <2>2. 1..Len(answers') - 1 = 1..n
    BY <1>1, <1>2
  <2> HIDE DEF n, w, more
  <2>3. ExactIn(answers', cursor', phase')
    BY <1>4, <2>1, <2>2 DEF ExactIn
  <2> QED
    BY <2>3, ExactNow
<1> QED
  BY <1>7, <1>8

(* What a page that is parsed leaves of the fetch.                         *)
LEMMA ParsedFetch ==
  ASSUME FetchInv, NEW answer \in Answers, PageParsed(answer)
  PROVE  FetchInv'
<1>1. /\ PageRecords(answer) \in Seq(Records)
      /\ Len(PageRecords(answer)) = Len(Items(answer))
  BY AnswersAssumption, PageRecordsType
<1>2. /\ collected' \in Seq(Records)
      /\ Len(collected') = Len(collected) + Len(Items(answer))
  BY <1>1 DEF PageParsed, FetchInv
<1>3. answers' \in Seq(Answers) /\ Len(answers') = Len(answers) + 1
  BY DEF PageParsed, FetchInv
<1>4. phase' \in {"fetch", "aggregate"}
  BY DEF PageParsed
<1>5. phase' = "fetch" => Len(answers') < MaxAnswers
  BY DEF PageParsed
<1>6. Len(answers') <= MaxAnswers
  <2>1. Len(answers) < MaxAnswers /\ Len(answers) \in Nat
    BY DEF PageParsed, FetchInv
  <2> QED
    BY <1>3, <2>1, MaxAnswersAssumption
<1>7. CursorIsExact'
  BY ParsedCursor
<1>8. Len(collected') <= MaxRecords
  BY <1>2 DEF PageParsed
<1> QED
  BY <1>2, <1>3, <1>4, <1>5, <1>6, <1>7, <1>8 DEF FetchInv

(* Every step keeps the invariant of the fetch.                            *)
LEMMA FetchNext == FetchInv /\ [PagesNext]_allVars => FetchInv'
<1> SUFFICES ASSUME FetchInv, [PagesNext]_allVars PROVE FetchInv'
  OBVIOUS
<1>1. ASSUME NEW answer \in Answers, PageRefused(answer) PROVE FetchInv'
  <2>1. /\ answers \in Seq(Answers) /\ answers' = Append(answers, answer)
        /\ phase = "fetch" /\ phase' = "failed"
    BY <1>1 DEF PageRefused, FetchInv
  <2>2. /\ answers' \in Seq(Answers) /\ Len(answers') = Len(answers) + 1
        /\ Len(answers) \in Nat
        /\ \A i \in 1..Len(answers) : EndsIn(answers', i) <=> EndsIn(answers, i)
    BY <2>1, OneMoreAnswer
  <2>3. Len(answers') <= MaxAnswers
    BY <2>1, <2>2, MaxAnswersAssumption DEF FetchInv
  <2>4. \A i \in 1..Len(answers') - 1 : ~EndsIn(answers', i)
    <3>1. \A i \in DOMAIN answers : ~EndsIn(answers, i)
      BY <2>1, ExactNow DEF FetchInv, ExactIn
    <3>2. DOMAIN answers = 1..Len(answers) /\ 1..Len(answers') - 1 = 1..Len(answers)
      BY <2>1, <2>2
    <3> QED
      BY <2>2, <3>1, <3>2
  <2>5. CursorIsExact'
    BY <2>1, <2>4, ExactNow DEF ExactIn
  <2> QED
    BY <1>1, <2>1, <2>2, <2>3, <2>5 DEF PageRefused, FetchInv
<1>2. ASSUME UNCHANGED fetchVars PROVE FetchInv'
  <2>1. CursorIsExact'
    BY <1>2, ExactNow DEF fetchVars, FetchInv
  <2> QED
    BY <1>2, <2>1 DEF fetchVars, FetchInv
<1>3. CASE AggregateNext
  BY <1>2, <1>3 DEF AggregateNext
<1>4. CASE UNCHANGED allVars
  BY <1>2, <1>4 DEF allVars
<1> QED
  BY <1>1, <1>3, <1>4, ParsedFetch DEF PagesNext

-----------------------------------------------------------------------------
(* The loop over the records.                                              *)

Row == [app : Apps, units : Int, name : Names \cup {NoName}]

(* The loop has seen the beginning of what was collected.                  *)
PrefixInv ==
  /\ records \in Seq(Records) /\ Len(records) <= Len(collected)
  /\ \A j \in 1..Len(records) : records[j] = collected[j]

(* The index names the row of every product that has one, and no other.    *)
IndexInv ==
  /\ rows \in Seq(Row)
  /\ DOMAIN indexByApp \subseteq Apps
  /\ \A a \in DOMAIN indexByApp :
       indexByApp[a] \in 1..Len(rows) /\ rows[indexByApp[a]].app = a
  /\ \A i \in 1..Len(rows) :
       rows[i].app \in DOMAIN indexByApp /\ indexByApp[rows[i].app] = i

(* The rows have the sums and names of what the loop has seen.             *)
SumsInv ==
  /\ \A a \in Apps : a \in DOMAIN indexByApp <=> OfIn(records, a) # {}
  /\ \A i \in 1..Len(rows) :
       /\ rows[i].units = TotalIn(records, rows[i].app)
       /\ rows[i].name = NameIn(records, rows[i].app)

RowsInv == PrefixInv /\ IndexInv /\ SumsInv

(* The loop begins without rows.                                           *)
LEMMA RowsInvInit == PagesInit => RowsInv
<1> SUFFICES ASSUME PagesInit PROVE RowsInv
  OBVIOUS
<1>1. /\ records = <<>> /\ rows = <<>> /\ collected = <<>>
      /\ DOMAIN indexByApp = {}
  BY DEF PagesInit, RowsInit
<1>2. PrefixInv /\ IndexInv
  BY <1>1 DEF PrefixInv, IndexInv
<1>3. SumsInv
  BY <1>1 DEF SumsInv, OfIn
<1> QED
  BY <1>2, <1>3 DEF RowsInv

(* A turn takes the next record of the date.                               *)
LEMMA PrefixTurn ==
  ASSUME FetchInv, PrefixInv, Len(records) < Len(collected),
         Take(collected[Len(records) + 1]), UNCHANGED fetchVars
  PROVE  PrefixInv' /\ collected[Len(records) + 1] \in Records
<1> DEFINE rec == collected[Len(records) + 1]
<1>1. Len(records) \in Nat /\ Len(collected) \in Nat
  BY DEF FetchInv, PrefixInv
<1>2. rec \in Records
  BY <1>1 DEF FetchInv
<1>3. records' = Append(records, rec)
  BY DEF Take
<1>4. collected' = collected
  BY DEF fetchVars
<1> HIDE DEF rec
<1>5. /\ records' \in Seq(Records) /\ Len(records') = Len(records) + 1
      /\ records'[Len(records) + 1] = rec
      /\ \A j \in 1..Len(records) : records'[j] = records[j]
  BY <1>2, <1>3 DEF PrefixInv
<1>6. \A j \in 1..Len(records') : records'[j] = collected[j]
  BY <1>1, <1>5 DEF PrefixInv, rec
<1> QED
  BY <1>1, <1>2, <1>4, <1>5, <1>6 DEF PrefixInv, rec

(* A record that does not count leaves rows, sums and names alone.         *)
LEMMA SkipTurn ==
  ASSUME RowsInv, NEW rec \in Records, Skip(rec)
  PROVE  IndexInv' /\ SumsInv'
<1>1. records' = Append(records, rec) /\ UNCHANGED <<rows, indexByApp>>
  BY DEF Skip, Take
<1>2. \A a : /\ OfIn(records', a) = OfIn(records, a)
             /\ TotalIn(records', a) = TotalIn(records, a)
             /\ NameIn(records', a) = NameIn(records, a)
  <2> SUFFICES ASSUME NEW a
               PROVE  /\ OfIn(records', a) = OfIn(records, a)
                      /\ TotalIn(records', a) = TotalIn(records, a)
                      /\ NameIn(records', a) = NameIn(records, a)
    OBVIOUS
  <2>1. records \in Seq(Records) /\ ~IsCounted(rec)
    BY DEF RowsInv, PrefixInv, Skip
  <2> QED
    BY <1>1, <2>1, OneMoreTotal, OneMoreName
<1>3. IndexInv'
  BY <1>1 DEF RowsInv, IndexInv
<1>4. SumsInv'
  BY <1>1, <1>2 DEF RowsInv, SumsInv
<1> QED
  BY <1>3, <1>4

(* The first record of a product makes its row.                            *)
LEMMA FirstTurn ==
  ASSUME RowsInv, NEW rec \in Records, FirstOfProduct(rec)
  PROVE  IndexInv' /\ SumsInv'
<1> DEFINE row == [app |-> rec.app, units |-> rec.units, name |-> rec.name]
           n == Len(rows) + 1
<1>1. /\ records' = Append(records, rec) /\ rows' = Append(rows, row)
      /\ IsCounted(rec) /\ rec.app \notin DOMAIN indexByApp
  BY DEF FirstOfProduct, Take
<1>2. /\ rec.app \in Apps /\ rec.units \in Int
      /\ rec.name \in Names \cup {NoName}
  BY <1>1, LineUnitsAssumption DEF Records, IsCounted
<1>3. row \in Row
  BY <1>2 DEF Row
<1>4. /\ records \in Seq(Records) /\ rows \in Seq(Row)
  BY DEF RowsInv, PrefixInv, IndexInv
<1>5. row.app = rec.app /\ row.units = rec.units /\ row.name = rec.name
  OBVIOUS
<1>6. /\ DOMAIN indexByApp' = DOMAIN indexByApp \cup {rec.app}
      /\ indexByApp'[rec.app] = n
      /\ \A a \in DOMAIN indexByApp : indexByApp'[a] = indexByApp[a]
  BY DEF FirstOfProduct
<1> HIDE DEF row
<1>7. /\ rows' \in Seq(Row) /\ Len(rows') = n /\ rows'[n] = row
      /\ \A i \in 1..Len(rows) : rows'[i] = rows[i]
      /\ Len(rows) \in Nat
  BY <1>1, <1>3, <1>4
<1>8. IndexInv'
  <2>1. DOMAIN indexByApp' \subseteq Apps
    BY <1>2, <1>6 DEF RowsInv, IndexInv
  <2>2. ASSUME NEW a \in DOMAIN indexByApp'
        PROVE  indexByApp'[a] \in 1..Len(rows') /\ rows'[indexByApp'[a]].app = a
    <3>1. CASE a = rec.app
      BY <1>5, <1>6, <1>7, <3>1
    <3>2. CASE a \in DOMAIN indexByApp
      <4>1. indexByApp[a] \in 1..Len(rows) /\ rows[indexByApp[a]].app = a
        BY <3>2 DEF RowsInv, IndexInv
      <4> QED
        BY <1>6, <1>7, <3>2, <4>1
    <3> QED
      BY <1>6, <3>1, <3>2
  <2>3. ASSUME NEW i \in 1..Len(rows')
        PROVE  rows'[i].app \in DOMAIN indexByApp' /\ indexByApp'[rows'[i].app] = i
    <3>1. CASE i = n
      BY <1>5, <1>6, <1>7, <3>1
    <3>2. CASE i \in 1..Len(rows)
      <4>1. rows[i].app \in DOMAIN indexByApp /\ indexByApp[rows[i].app] = i
        BY <3>2 DEF RowsInv, IndexInv
      <4> QED
        BY <1>6, <1>7, <3>2, <4>1
    <3> QED
      BY <1>7, <3>1, <3>2
  <2> QED
    BY <1>7, <2>1, <2>2, <2>3 DEF IndexInv
<1>9. SumsInv'
  <2>1. /\ OfIn(records', rec.app) # {}
        /\ TotalIn(records', rec.app) = rec.units
        /\ NameIn(records', rec.app) = rec.name
    <3>1. OfIn(records, rec.app) = {}
      BY <1>1, <1>2 DEF RowsInv, SumsInv
    <3>2. TotalIn(records, rec.app) = 0 /\ NameIn(records, rec.app) = NoName
      BY <3>1, NoRecordYet
    <3>3. /\ OfIn(records', rec.app) # {}
          /\ TotalIn(records', rec.app) = 0 + rec.units
      BY <1>1, <1>4, <3>2, OneMoreTotal
    <3>4. NameIn(records', rec.app) = rec.name
      BY <1>1, <1>4, <3>2, OneMoreName
    <3> QED
      BY <1>2, <3>3, <3>4
  <2>2. \A a : a # rec.app =>
          /\ OfIn(records', a) = OfIn(records, a)
          /\ TotalIn(records', a) = TotalIn(records, a)
          /\ NameIn(records', a) = NameIn(records, a)
    <3> SUFFICES ASSUME NEW a, a # rec.app
                 PROVE  /\ OfIn(records', a) = OfIn(records, a)
                        /\ TotalIn(records', a) = TotalIn(records, a)
                        /\ NameIn(records', a) = NameIn(records, a)
      OBVIOUS
    <3> QED
      BY <1>1, <1>4, OneMoreTotal, OneMoreName
  <2>3. \A a \in Apps : a \in DOMAIN indexByApp' <=> OfIn(records', a) # {}
    BY <1>6, <2>1, <2>2 DEF RowsInv, SumsInv
  <2>4. ASSUME NEW i \in 1..Len(rows')
        PROVE  /\ rows'[i].units = TotalIn(records', rows'[i].app)
               /\ rows'[i].name = NameIn(records', rows'[i].app)
    <3>1. CASE i = n
      BY <1>5, <1>7, <2>1, <3>1
    <3>2. CASE i \in 1..Len(rows)
      <4>1. rows[i].app # rec.app
        BY <1>1, <3>2 DEF RowsInv, IndexInv
      <4>2. /\ rows[i].units = TotalIn(records, rows[i].app)
            /\ rows[i].name = NameIn(records, rows[i].app)
        BY <3>2 DEF RowsInv, SumsInv
      <4> QED
        BY <1>7, <2>2, <3>2, <4>1, <4>2
    <3> QED
      BY <1>7, <3>1, <3>2
  <2> QED
    BY <2>3, <2>4 DEF SumsInv
<1> QED
  BY <1>8, <1>9

(* A later record of a product is added to the row that its index names.   *)
LEMMA MergeTurn ==
  ASSUME RowsInv, NEW rec \in Records, Merge(rec)
  PROVE  IndexInv' /\ SumsInv'
<1> DEFINE k == indexByApp[rec.app]
           old == rows[k]
           row == rows'[k]
<1>1. /\ records' = Append(records, rec)
      /\ IsCounted(rec) /\ rec.app \in DOMAIN indexByApp
      /\ UNCHANGED indexByApp
  BY DEF Merge, Take
<1>2. rows' = [rows EXCEPT
                 ![k].units = @ + rec.units,
                 ![k].name = IF rec.name # NoName THEN rec.name ELSE @]
  BY DEF Merge
<1>3. records \in Seq(Records) /\ rows \in Seq(Row)
  BY DEF RowsInv, PrefixInv, IndexInv
<1>4. k \in 1..Len(rows) /\ old.app = rec.app /\ rec.app \in Apps
  BY <1>1 DEF RowsInv, IndexInv
<1>5. /\ old.units = TotalIn(records, rec.app)
      /\ old.name = NameIn(records, rec.app)
  BY <1>4 DEF RowsInv, SumsInv
<1>6. old \in Row
  BY <1>3, <1>4
<1>7. rec.units \in Int /\ rec.name \in Names \cup {NoName}
  BY LineUnitsAssumption DEF Records
<1> HIDE DEF k
<1>8. /\ row \in Row /\ row.app = old.app
      /\ row.units = old.units + rec.units
      /\ row.name = IF rec.name # NoName THEN rec.name ELSE old.name
  <2> DEFINE first == [old EXCEPT !.units = @ + rec.units]
             new == [first EXCEPT
                       !.name = IF rec.name # NoName THEN rec.name ELSE @]
  <2>1. DOMAIN rows = 1..Len(rows)
    BY <1>3
  <2>2. row = new
    BY <1>2, <1>4, <2>1
  <2> HIDE DEF row, old
  <2>3. /\ first \in Row /\ first.app = old.app /\ first.name = old.name
        /\ first.units = old.units + rec.units
    BY <1>6, <1>7 DEF Row
  <2> HIDE DEF first
  <2>4. /\ new \in Row /\ new.app = first.app /\ new.units = first.units
        /\ new.name = IF rec.name # NoName THEN rec.name ELSE first.name
    BY <1>7, <2>3 DEF Row
  <2> QED
    BY <2>2, <2>3, <2>4
<1> HIDE DEF row, old
<1>9. /\ rows' \in Seq(Row) /\ Len(rows') = Len(rows) /\ rows'[k] = row
      /\ \A i \in 1..Len(rows) : i # k => rows'[i] = rows[i]
  <2>1. DOMAIN rows = 1..Len(rows) /\ Len(rows) \in Nat
    BY <1>3
  <2>2. /\ rows' = [i \in 1..Len(rows) |-> rows'[i]]
        /\ \A i \in 1..Len(rows) : i # k => rows'[i] = rows[i]
    BY <1>2, <2>1
  <2>3. \A i \in 1..Len(rows) : rows'[i] \in Row
    BY <1>3, <1>8, <2>2 DEF row
  <2> QED
    BY <2>1, <2>2, <2>3 DEF row
<1>10. \A i \in 1..Len(rows) : rows'[i].app = rows[i].app
  BY <1>8, <1>9 DEF old
<1>11. IndexInv'
  BY <1>1, <1>9, <1>10 DEF RowsInv, IndexInv
<1>12. SumsInv'
  <2>1. /\ OfIn(records', rec.app) # {}
        /\ TotalIn(records', rec.app) = row.units
        /\ NameIn(records', rec.app) = row.name
    <3>1. /\ OfIn(records', rec.app) # {}
          /\ TotalIn(records', rec.app) = TotalIn(records, rec.app) + rec.units
      BY <1>1, <1>3, OneMoreTotal
    <3>2. NameIn(records', rec.app) = row.name
      BY <1>1, <1>3, <1>5, <1>8, OneMoreName
    <3> QED
      BY <1>5, <1>8, <3>1, <3>2
  <2>2. \A a : a # rec.app =>
          /\ OfIn(records', a) = OfIn(records, a)
          /\ TotalIn(records', a) = TotalIn(records, a)
          /\ NameIn(records', a) = NameIn(records, a)
    <3> SUFFICES ASSUME NEW a, a # rec.app
                 PROVE  /\ OfIn(records', a) = OfIn(records, a)
                        /\ TotalIn(records', a) = TotalIn(records, a)
                        /\ NameIn(records', a) = NameIn(records, a)
      OBVIOUS
    <3> QED
      BY <1>1, <1>3, OneMoreTotal, OneMoreName
  <2>3. \A a \in Apps : a \in DOMAIN indexByApp' <=> OfIn(records', a) # {}
    BY <1>1, <2>1, <2>2 DEF RowsInv, SumsInv
  <2>4. ASSUME NEW i \in 1..Len(rows')
        PROVE  /\ rows'[i].units = TotalIn(records', rows'[i].app)
               /\ rows'[i].name = NameIn(records', rows'[i].app)
    <3>1. CASE i = k
      BY <1>4, <1>8, <1>9, <2>1, <3>1
    <3>2. CASE i # k
      <4>1. rows[i].app # rec.app
        BY <1>9, <3>2 DEF RowsInv, IndexInv, k
      <4>2. /\ rows[i].units = TotalIn(records, rows[i].app)
            /\ rows[i].name = NameIn(records, rows[i].app)
        BY <1>9 DEF RowsInv, SumsInv
      <4> QED
        BY <1>9, <2>2, <3>2, <4>1, <4>2
    <3> QED
      BY <3>1, <3>2
  <2> QED
    BY <2>3, <2>4 DEF SumsInv
<1> QED
  BY <1>11, <1>12

(* Every step keeps the invariant of the loop.                             *)
LEMMA RowsInvNext == FetchInv /\ RowsInv /\ [PagesNext]_allVars => RowsInv'
<1> SUFFICES ASSUME FetchInv, RowsInv, [PagesNext]_allVars PROVE RowsInv'
  OBVIOUS
<1>1. ASSUME NEW answer \in Answers, PageParsed(answer) PROVE RowsInv'
  <2>1. UNCHANGED rowVars /\ collected' = collected \o PageRecords(answer)
    BY <1>1 DEF PageParsed
  <2>2. PageRecords(answer) \in Seq(Records)
    BY AnswersAssumption, PageRecordsType
  <2>3. PrefixInv'
    <3>1. /\ Len(collected) <= Len(collected') /\ Len(collected) \in Nat
          /\ \A j \in 1..Len(collected) : collected'[j] = collected[j]
      BY <2>1, <2>2 DEF FetchInv
    <3>2. Len(records) \in Nat /\ Len(collected') \in Nat
      BY <2>1, <2>2 DEF FetchInv, RowsInv, PrefixInv
    <3> QED
      BY <2>1, <3>1, <3>2 DEF RowsInv, PrefixInv, rowVars
  <2> QED
    BY <2>1, <2>3 DEF RowsInv, IndexInv, SumsInv, rowVars
<1>2. ASSUME NEW answer \in Answers, PageRefused(answer) PROVE RowsInv'
  BY <1>2 DEF PageRefused, RowsInv, PrefixInv, IndexInv, SumsInv, rowVars
<1>3. CASE AggregateNext
  <2> DEFINE rec == collected[Len(records) + 1]
  <2>1. /\ Len(records) < Len(collected) /\ UNCHANGED fetchVars
        /\ Skip(rec) \/ FirstOfProduct(rec) \/ Merge(rec)
    BY <1>3 DEF AggregateNext
  <2>2. Take(rec)
    BY <2>1 DEF Skip, FirstOfProduct, Merge
  <2>3. PrefixInv' /\ rec \in Records
    BY <2>1, <2>2, PrefixTurn DEF RowsInv
  <2> HIDE DEF rec
  <2>4. IndexInv' /\ SumsInv'
    BY <2>1, <2>3, SkipTurn, FirstTurn, MergeTurn
  <2> QED
    BY <2>3, <2>4 DEF RowsInv
<1>4. CASE UNCHANGED allVars
  BY <1>4 DEF allVars, rowVars, fetchVars, RowsInv, PrefixInv, IndexInv, SumsInv
<1> QED
  BY <1>1, <1>2, <1>3, <1>4 DEF PagesNext

(* Both invariants hold always.                                            *)
LEMMA IInvSpec == PagesSpec => [](FetchInv /\ RowsInv)
<1>1. PagesInit => FetchInv /\ RowsInv
  BY FetchInit, RowsInvInit
<1>2. FetchInv /\ RowsInv /\ [PagesNext]_allVars => FetchInv' /\ RowsInv'
  BY FetchNext, RowsInvNext
<1> QED
  BY <1>1, <1>2, PTL DEF PagesSpec

(* Every variable of the date keeps its type, and what the loop has seen is*)
(* the beginning of what was collected.                                    *)
THEOREM PagesTypeCorrect == PagesSpec => []PagesTypeOK
<1>1. FetchInv /\ RowsInv => PagesTypeOK
  <2> SUFFICES ASSUME FetchInv, RowsInv PROVE PagesTypeOK
    OBVIOUS
  <2>1. /\ records \in Seq(Records) /\ rows \in Seq(Row)
        /\ DOMAIN indexByApp \subseteq Apps
        /\ \A a \in DOMAIN indexByApp : indexByApp[a] \in 1..Len(rows)
    BY DEF RowsInv, PrefixInv, IndexInv
  <2>2. RowsTypeOK
    <3>1. DOMAIN rows = 1..Len(rows)
      BY <2>1
    <3> QED
      BY <2>1, <3>1 DEF RowsTypeOK, Row
  <2>3. IsPrefix(records, collected)
    <3>1. /\ Len(records) \in Nat /\ Len(records) <= Len(collected)
          /\ Len(collected) \in Nat
          /\ \A j \in 1..Len(records) : records[j] = collected[j]
      BY DEF FetchInv, RowsInv, PrefixInv
    <3>2. SubSeq(records, 1, Len(records)) = SubSeq(collected, 1, Len(records))
      BY <2>1, <3>1 DEF FetchInv
    <3> QED
      BY <3>1, <3>2 DEF IsPrefix
  <2> QED
    BY <2>2, <2>3 DEF FetchInv, PagesTypeOK
<1> QED
  BY <1>1, IInvSpec, PTL

(* For every sequence of answers: a cursor goes back to the service as it  *)
(* was written, also one that no signed integer holds, and the date ends   *)
(* with the first answer that names none or repeats the last, or with the  *)
(* last that the loop allows.                                              *)
THEOREM CursorGoesBackExact == PagesSpec => []CursorIsExact
<1>1. FetchInv => CursorIsExact
  BY DEF FetchInv
<1> QED
  BY <1>1, IInvSpec, PTL

(* The positions that RowsAreSums names are those of the invariant.        *)
LEMMA SameOf ==
  ASSUME records \in Seq(Records), NEW a
  PROVE  /\ Of(a) = OfIn(records, a) /\ Named(a) = NamedIn(records, a)
         /\ SumFunction([j \in Of(a) |-> records[j].units]) = TotalIn(records, a)
<1>1. DOMAIN records = 1..Len(records)
  OBVIOUS
<1>2. Of(a) = OfIn(records, a)
  BY <1>1 DEF Of, OfIn
<1> QED
  BY <1>2 DEF Named, NamedIn, TotalIn

(* For every sequence of records, however the products are mixed: one row  *)
(* per product, its sum and its last name.                                 *)
THEOREM RowsAddUp == PagesSpec => []RowsAreSums
<1>1. RowsInv => RowsAreSums
  <2> SUFFICES ASSUME RowsInv PROVE RowsAreSums
    OBVIOUS
  <2>1. /\ records \in Seq(Records) /\ rows \in Seq(Row)
        /\ DOMAIN rows = 1..Len(rows)
    BY DEF RowsInv, PrefixInv, IndexInv
  <2>2. \A a : Of(a) = OfIn(records, a)
    BY <2>1, SameOf
  <2>3. {rows[i].app : i \in DOMAIN rows} = {a \in Apps : Of(a) # {}}
    <3>1. \A i \in DOMAIN rows : rows[i].app \in DOMAIN indexByApp
      BY <2>1 DEF RowsInv, IndexInv
    <3>2. \A a \in DOMAIN indexByApp :
            a \in Apps /\ \E i \in DOMAIN rows : rows[i].app = a
      BY <2>1 DEF RowsInv, IndexInv
    <3>3. \A a \in Apps : a \in DOMAIN indexByApp <=> Of(a) # {}
      BY <2>2 DEF RowsInv, SumsInv
    <3> QED
      BY <3>1, <3>2, <3>3
  <2>4. \A i, j \in DOMAIN rows : rows[i].app = rows[j].app => i = j
    BY <2>1 DEF RowsInv, IndexInv
  <2>5. ASSUME NEW i \in DOMAIN rows
        PROVE  LET app == rows[i].app
               IN /\ rows[i].units = SumFunction([j \in Of(app) |-> records[j].units])
                  /\ rows[i].name = IF Named(app) = {} THEN NoName
                                    ELSE records[Max(Named(app))].name
    <3> DEFINE app == rows[i].app
    <3>1. /\ rows[i].units = TotalIn(records, app)
          /\ rows[i].name = NameIn(records, app)
      BY <2>1 DEF RowsInv, SumsInv
    <3> HIDE DEF app
    <3>2. /\ rows[i].units = SumFunction([j \in Of(app) |-> records[j].units])
          /\ rows[i].name = IF Named(app) = {} THEN NoName
                            ELSE records[Max(Named(app))].name
      BY <2>1, <3>1, SameOf DEF NameIn
    <3> QED
      BY <3>2 DEF app
  <2> QED
    BY <2>3, <2>4, <2>5 DEF RowsAreSums
<1> QED
  BY <1>1, IInvSpec, PTL

-----------------------------------------------------------------------------
(* The items of the answers, numbered in the order they were collected.    *)

PlacesIn(bodies) == UNION {{a} \X DOMAIN Items(bodies[a]) : a \in 1..Len(bodies)}
ItemIn(bodies, p) == Items(bodies[p[1]])[p[2]]
RecordIn(bodies, p) == ParseRecord(ItemIn(bodies, p), AppNames(bodies[p[1]].info))

(* m numbers the places in the order of the records made of their items.   *)
IsNumbering(rs, bodies, m) ==
  /\ \A j \in 1..Len(rs) : m[j] \in PlacesIn(bodies) /\ rs[j] = RecordIn(bodies, m[j])
  /\ \A i, j \in 1..Len(rs) : m[i] = m[j] => i = j
  /\ \A p \in PlacesIn(bodies) : \E j \in 1..Len(rs) : m[j] = p

PlacesInv == phase # "failed" => \E m : IsNumbering(collected, answers, m)

(* A place is an answer and a position in it.                              *)
LEMMA InPlaces ==
  ASSUME NEW bodies, NEW p
  PROVE  p \in PlacesIn(bodies) <=>
           \E a \in 1..Len(bodies) : \E i \in DOMAIN Items(bodies[a]) : p = <<a, i>>
<1>1. p \in PlacesIn(bodies) <=>
        \E a \in 1..Len(bodies) : p \in {a} \X DOMAIN Items(bodies[a])
  BY Zenon DEF PlacesIn
<1>2. \A a, D : p \in {a} \X D <=> \E i \in D : p = <<a, i>>
  OBVIOUS
<1> QED
  BY <1>1, <1>2, Zenon

(* Without answers there are no places.                                    *)
LEMMA PlacesInit == PagesInit => PlacesInv
<1> SUFFICES ASSUME PagesInit PROVE PlacesInv
  OBVIOUS
<1>1. Len(answers) = 0 /\ Len(collected) = 0
  BY DEF PagesInit
<1>2. PlacesIn(answers) = {}
  BY <1>1, InPlaces
<1>3. IsNumbering(collected, answers, <<>>)
  BY <1>1, <1>2 DEF IsNumbering
<1> QED
  BY <1>3 DEF PlacesInv

(* The elements of two sequences one after the other.                      *)
LEMMA Joined ==
  ASSUME NEW s \in Seq(Records), NEW t \in Seq(Records)
  PROVE  /\ Len(s \o t) = Len(s) + Len(t)
         /\ \A j \in 1..Len(s) : (s \o t)[j] = s[j]
         /\ \A j \in 1..(Len(s) + Len(t)) :
              ~(j <= Len(s)) => (s \o t)[j] = t[j - Len(s)]
OBVIOUS

(* The items of one more page are numbered after those of the others.      *)
LEMMA NumberedPage ==
  ASSUME NEW rs \in Seq(Records), NEW bodies \in Seq(Answers), NEW answer \in Answers,
         NEW m, IsNumbering(rs, bodies, m)
  PROVE  \E k : IsNumbering(rs \o PageRecords(answer), Append(bodies, answer), k)
<1> DEFINE bs == Append(bodies, answer)
           lines == Items(answer)
           added == PageRecords(answer)
           qs == rs \o added
           n == Len(rs)
           l == Len(lines)
           b == Len(bodies) + 1
           k == [j \in 1..(n + l) |-> IF j <= n THEN m[j] ELSE <<b, j - n>>]
<1>1. /\ added \in Seq(Records) /\ Len(added) = l /\ lines \in Seq(LineItems)
      /\ \A i \in 1..l : added[i] = ParseRecord(lines[i], AppNames(answer.info))
  <2>1. IsBody(answer)
    BY AnswersAssumption
  <2>2. lines \in Seq(LineItems)
    BY <2>1, ItemsType
  <2>3. /\ added \in Seq(Records) /\ Len(added) = l
        /\ \A i \in 1..l : added[i] = ParseRecord(lines[i], AppNames(answer.info))
    BY <2>1, PageRecordsType
  <2> QED
    BY <2>2, <2>3
<1>2. n \in Nat /\ l \in Nat /\ b \in Nat /\ DOMAIN lines = 1..l
  BY <1>1
<1>3. /\ Len(bs) = b /\ bs[b] = answer
      /\ \A a \in 1..Len(bodies) : bs[a] = bodies[a] /\ a # b /\ a \in 1..b
      /\ \A a \in 1..b : a # b => a \in 1..Len(bodies)
      /\ b \in 1..b
  <2>1. /\ Len(bs) = b /\ bs[b] = answer
        /\ \A a \in 1..Len(bodies) : bs[a] = bodies[a]
    OBVIOUS
  <2>2. Len(bodies) \in Nat
    OBVIOUS
  <2> QED
    BY <2>1, <2>2
<1>4. /\ Len(qs) = n + l
      /\ \A j \in 1..n : qs[j] = rs[j]
      /\ \A j \in 1..(n + l) : ~(j <= n) => qs[j] = added[j - n]
  <2> HIDE DEF added, lines, l
  <2>1. added \in Seq(Records) /\ Len(added) = l
    BY <1>1
  <2> QED
    BY <2>1, Joined
<1> HIDE DEF bs, added, qs, n, l, b
<1>5. ASSUME NEW p \in PlacesIn(bodies)
      PROVE  /\ p \in PlacesIn(bs) /\ p[1] # b
             /\ RecordIn(bs, p) = RecordIn(bodies, p)
  <2>1. PICK a \in 1..Len(bodies) : \E i \in DOMAIN Items(bodies[a]) : p = <<a, i>>
    BY InPlaces
  <2>2. PICK i \in DOMAIN Items(bodies[a]) : p = <<a, i>>
    BY <2>1
  <2>3. p[1] = a /\ bs[a] = bodies[a] /\ a # b /\ a \in 1..b
    BY <1>3, <2>2
  <2>4. p \in PlacesIn(bs)
    BY <1>3, <2>2, <2>3, InPlaces
  <2> QED
    BY <2>3, <2>4 DEF RecordIn, ItemIn
<1>6. ASSUME NEW i \in 1..l
      PROVE  /\ <<b, i>> \in PlacesIn(bs)
             /\ RecordIn(bs, <<b, i>>) = added[i]
  <2>1. <<b, i>>[1] = b /\ <<b, i>>[2] = i
    OBVIOUS
  <2>2. <<b, i>> \in PlacesIn(bs)
    BY <1>2, <1>3, InPlaces
  <2>3. RecordIn(bs, <<b, i>>) = ParseRecord(Items(bs[b])[i], AppNames(bs[b].info))
    BY <2>1 DEF RecordIn, ItemIn
  <2> QED
    BY <1>1, <1>3, <2>2, <2>3
<1>7. ASSUME NEW p \in PlacesIn(bs)
      PROVE  p \in PlacesIn(bodies) \/ \E i \in 1..l : p = <<b, i>>
  <2>1. PICK a \in 1..b : \E i \in DOMAIN Items(bs[a]) : p = <<a, i>>
    BY <1>3, InPlaces
  <2>2. CASE a = b
    BY <1>2, <1>3, <2>1, <2>2
  <2>3. CASE a # b
    <3>1. a \in 1..Len(bodies) /\ bs[a] = bodies[a]
      BY <1>3, <2>3
    <3> QED
      BY <2>1, <3>1, InPlaces
  <2> QED
    BY <2>2, <2>3
<1>8. \A j \in 1..(n + l) :
        /\ j \in 1..n => k[j] = m[j]
        /\ j \notin 1..n => j - n \in 1..l /\ k[j] = <<b, j - n>> /\ ~(j <= n)
  BY <1>2
<1>9. /\ \A j \in 1..n : m[j] \in PlacesIn(bodies) /\ rs[j] = RecordIn(bodies, m[j])
      /\ \A i, j \in 1..n : m[i] = m[j] => i = j
      /\ \A p \in PlacesIn(bodies) : \E j \in 1..n : m[j] = p
  BY DEF IsNumbering, n
<1> HIDE DEF k, lines
<1>10. ASSUME NEW j \in 1..(n + l)
       PROVE  k[j] \in PlacesIn(bs) /\ qs[j] = RecordIn(bs, k[j])
  <2>1. CASE j \in 1..n
    BY <1>4, <1>5, <1>8, <1>9, <2>1
  <2>2. CASE j \notin 1..n
    BY <1>4, <1>6, <1>8, <2>2
  <2> QED
    BY <2>1, <2>2
<1>11. ASSUME NEW i \in 1..(n + l), NEW j \in 1..(n + l), k[i] = k[j]
       PROVE  i = j
  <2>1. CASE i \in 1..n /\ j \in 1..n
    BY <1>8, <1>9, <1>11, <2>1
  <2>2. CASE i \notin 1..n /\ j \notin 1..n
    <3>1. <<b, i - n>> = <<b, j - n>>
      BY <1>8, <1>11, <2>2
    <3>2. i - n = j - n
      BY <3>1
    <3> QED
      BY <1>2, <3>2
  <2>3. \A x, y \in 1..(n + l) : x \in 1..n /\ y \notin 1..n => k[x] # k[y]
    <3> SUFFICES ASSUME NEW x \in 1..(n + l), NEW y \in 1..(n + l),
                        x \in 1..n, y \notin 1..n
                 PROVE  k[x] # k[y]
      OBVIOUS
    <3>1. k[x][1] # b
      BY <1>5, <1>8, <1>9
    <3>2. k[y] = <<b, y - n>>
      BY <1>8
    <3>3. k[y][1] = b
      BY <3>2
    <3> QED
      BY <3>1, <3>3
  <2> QED
    BY <1>11, <2>1, <2>2, <2>3
<1>12. ASSUME NEW p \in PlacesIn(bs)
       PROVE  \E j \in 1..(n + l) : k[j] = p
  <2>1. CASE p \in PlacesIn(bodies)
    <3>1. PICK j \in 1..n : m[j] = p
      BY <1>9, <2>1
    <3>2. j \in 1..(n + l)
      BY <1>2
    <3> QED
      BY <1>8, <3>1, <3>2
  <2>2. CASE \E i \in 1..l : p = <<b, i>>
    <3>1. PICK i \in 1..l : p = <<b, i>>
      BY <2>2
    <3>2. n + i \in 1..(n + l) /\ n + i \notin 1..n /\ (n + i) - n = i
      BY <1>2
    <3> QED
      BY <1>8, <3>1, <3>2
  <2> QED
    BY <1>7, <2>1, <2>2
<1>13. IsNumbering(qs, bs, k)
  BY <1>4, <1>10, <1>11, <1>12 DEF IsNumbering
<1> QED
  BY <1>13 DEF qs, bs, added

(* Every step keeps the numbering.                                         *)
LEMMA PlacesNext ==
  FetchInv /\ PlacesInv /\ [PagesNext]_allVars => PlacesInv'
<1> SUFFICES ASSUME FetchInv, PlacesInv, [PagesNext]_allVars PROVE PlacesInv'
  OBVIOUS
<1>1. ASSUME NEW answer \in Answers, PageParsed(answer) PROVE PlacesInv'
  <2>1. PICK m : IsNumbering(collected, answers, m)
    BY <1>1 DEF PlacesInv, PageParsed
  <2>2. /\ answers' = Append(answers, answer)
        /\ collected' = collected \o PageRecords(answer)
    BY <1>1 DEF PageParsed
  <2>3. \E k : IsNumbering(collected', answers', k)
    BY <2>1, <2>2, NumberedPage DEF FetchInv
  <2> QED
    BY <2>3 DEF PlacesInv
<1>2. ASSUME NEW answer \in Answers, PageRefused(answer) PROVE PlacesInv'
  BY <1>2 DEF PageRefused, PlacesInv
<1>3. CASE AggregateNext
  BY <1>3 DEF AggregateNext, fetchVars, PlacesInv
<1>4. CASE UNCHANGED allVars
  BY <1>4 DEF allVars, fetchVars, PlacesInv
<1> QED
  BY <1>1, <1>2, <1>3, <1>4 DEF PagesNext

(* The records can always be numbered by the places they come from.        *)
LEMMA PlacesSpec == PagesSpec => []PlacesInv
<1> QED
  BY PlacesInit, PlacesNext, IInvSpec, PTL DEF PagesSpec

-----------------------------------------------------------------------------
(* What is written in the answers.                                         *)

(* What is at a place is a line item, in an answer with its app_info.      *)
LEMMA PlaceType ==
  ASSUME FetchInv, NEW p \in Places
  PROVE  /\ p \in PlacesIn(answers) /\ ItemAt(p) = ItemIn(answers, p)
         /\ ItemAt(p) \in LineItems
         /\ p[1] \in DOMAIN answers /\ answers[p[1]].info \in Seq(Entries)
<1>1. answers \in Seq(Answers) /\ DOMAIN answers = 1..Len(answers)
  BY DEF FetchInv
<1>2. p \in PlacesIn(answers)
  BY <1>1, Zenon DEF Places, PlacesIn
<1>3. PICK a \in 1..Len(answers) : \E i \in DOMAIN Items(answers[a]) : p = <<a, i>>
  BY <1>2, InPlaces
<1>4. PICK i \in DOMAIN Items(answers[a]) : p = <<a, i>>
  BY <1>3
<1>5. IsBody(answers[a])
  BY <1>1, AnswersAssumption
<1>6. Items(answers[a]) \in Seq(LineItems)
  BY <1>5, ItemsType
<1>7. p[1] = a /\ p[2] = i
  BY <1>4
<1>8. Items(answers[a])[i] \in LineItems
  BY <1>6
<1> QED
  BY <1>1, <1>2, <1>5, <1>7, <1>8 DEF ItemAt, ItemIn, IsBody

(* The products that an app_info names, when its numbers fit.              *)
LEMMA NamedByInfo ==
  ASSUME NEW info \in Seq(Entries), \A e \in Range(info) : Fits(e.appid),
         NEW a \in Apps
  PROVE  a \in DOMAIN AppNames(info) <=>
           \E e \in Range(info) : e.appid.number = a /\ e.name # NoName
<1>1. \A e \in Range(info) :
        e \in Entries /\ GetInt64(e.appid) = e.appid.number
  <2> SUFFICES ASSUME NEW e \in Range(info)
               PROVE  e \in Entries /\ GetInt64(e.appid) = e.appid.number
    OBVIOUS
  <2>1. e \in Entries
    BY DEF Range
  <2>2. e.appid \in JsonValues
    BY <2>1 DEF Entries
  <2> QED
    BY <2>1, <2>2, NumberType
<1>2. Range(info) = {info[i] : i \in DOMAIN info}
  BY DEF Range
<1>3. a # 0
  BY AppsAssumption
<1>4. a \in DOMAIN AppNames(info) <=>
        \E i \in DOMAIN info : /\ GetInt64(info[i].appid) = a
                               /\ info[i].name # NoName
  BY <1>3, AppNamesType DEF NamedEntries
<1> QED
  BY <1>1, <1>2, <1>4

(* The record of an item has the product, the units and, if there is one, a*)
(* name that is written in the answer.                                     *)
LEMMA RecordAsWritten ==
  ASSUME FetchInv, NumbersFit, NEW p \in Places, NEW a \in Apps
  PROVE  LET rec == RecordIn(answers, p)
         IN /\ rec.units = ItemAt(p).units.number
            /\ IsCounted(rec) /\ rec.app = a <=> p \in PlacesOf(a)
            /\ p \in PlacesOf(a) =>
                 (rec.name # NoName <=> NamesFor(p) # {NoName})
<1> DEFINE item == ItemAt(p)
           info == answers[p[1]].info
           rec == RecordIn(answers, p)
<1>1. /\ item \in LineItems /\ info \in Seq(Entries)
      /\ rec = ParseRecord(item, AppNames(info))
  BY PlaceType DEF RecordIn
<1>2. /\ Fits(item.appid) /\ Fits(item.units)
      /\ \A e \in Range(info) : Fits(e.appid)
  BY PlaceType DEF NumbersFit
<1>3. p \in PlacesOf(a) <=> item.counted /\ item.appid.number = a
  BY DEF PlacesOf
<1>4. NamesFor(p) = {item.name} \cup
        {e.name : e \in {f \in Range(info) : f.appid.number = item.appid.number}}
  BY DEF NamesFor
<1> HIDE DEF item, info, rec
<1>5. /\ GetInt64(item.appid) = item.appid.number
      /\ GetInt64(item.units) = item.units.number
  <2>1. item.appid \in JsonValues /\ item.units \in JsonValues
    BY <1>1 DEF LineItems
  <2> QED
    BY <1>2, <2>1, NumberType
<1> DEFINE names == AppNames(info)
<1>6. /\ rec.app = item.appid.number /\ rec.counted = item.counted
      /\ rec.units = item.units.number
      /\ rec.name = IF item.name = NoName /\ item.appid.number \in DOMAIN names
                    THEN names[item.appid.number] ELSE item.name
  BY <1>1, <1>5 DEF ParseRecord
<1>7. \A id \in DOMAIN names : names[id] # NoName
  BY <1>1, AppNamesType
<1>8. a # 0
  BY AppsAssumption
<1>9. a \in DOMAIN names <=>
        \E e \in Range(info) : e.appid.number = a /\ e.name # NoName
  BY <1>1, <1>2, NamedByInfo
<1> HIDE DEF names
<1>10. IsCounted(rec) /\ rec.app = a <=> p \in PlacesOf(a)
  BY <1>3, <1>6, <1>8 DEF IsCounted
<1>11. ASSUME p \in PlacesOf(a)
       PROVE  rec.name # NoName <=> NamesFor(p) # {NoName}
  <2>1. item.appid.number = a
    BY <1>3, <1>11
  <2>2. NamesFor(p) # {NoName} <=>
          \/ item.name # NoName
          \/ \E e \in Range(info) : e.appid.number = a /\ e.name # NoName
    BY <1>4, <2>1
  <2> QED
    BY <1>6, <1>7, <1>9, <2>1, <2>2
<1> QED
  BY <1>6, <1>10, <1>11 DEF item, rec

(* A product's records are the items of the answers that are its own: the  *)
(* sum is the same over both, and there is a name on one side if there is  *)
(* one on the other.                                                       *)
LEMMA OfProduct ==
  ASSUME FetchInv, RowsInv, NumbersFit, records = collected, NEW a \in Apps,
         NEW m, IsNumbering(records, answers, m)
  PROVE  LET S == OfIn(records, a)
         IN /\ \A j \in S : m[j] \in PlacesOf(a)
            /\ \A p \in PlacesOf(a) : \E j \in S : m[j] = p
            /\ TotalIn(records, a) =
                 SumFunction([p \in PlacesOf(a) |-> ItemAt(p).units.number])
            /\ NameIn(records, a) # NoName <=>
                 \E p \in PlacesOf(a) : NamesFor(p) # {NoName}
<1> DEFINE S == OfIn(records, a)
           mine == PlacesOf(a)
           f == [j \in S |-> records[j].units]
           g == [p \in mine |-> ItemAt(p).units.number]
<1>1. records \in Seq(Records) /\ DOMAIN answers = 1..Len(answers)
  BY DEF RowsInv, PrefixInv, FetchInv
<1>2. Places = PlacesIn(answers) /\ mine \subseteq Places
  BY <1>1 DEF Places, PlacesIn, PlacesOf
<1>3. /\ \A j \in 1..Len(records) :
           m[j] \in Places /\ records[j] = RecordIn(answers, m[j])
      /\ \A i, j \in 1..Len(records) : m[i] = m[j] => i = j
      /\ \A p \in Places : \E j \in 1..Len(records) : m[j] = p
  BY <1>2 DEF IsNumbering
<1>4. \A p \in Places :
        LET rec == RecordIn(answers, p)
        IN /\ rec.units = ItemAt(p).units.number
           /\ IsCounted(rec) /\ rec.app = a <=> p \in PlacesOf(a)
           /\ p \in PlacesOf(a) =>
                (rec.name # NoName <=> NamesFor(p) # {NoName})
  BY RecordAsWritten
<1>5. \A j \in 1..Len(records) :
        /\ j \in S <=> m[j] \in mine
        /\ records[j].units = ItemAt(m[j]).units.number
        /\ j \in S => (records[j].name # NoName <=> NamesFor(m[j]) # {NoName})
  BY <1>3, <1>4 DEF OfIn
<1>6. S \in SUBSET (1..Len(records))
  BY DEF OfIn
<1>7. /\ \A j \in S : m[j] \in mine /\ g[m[j]] = f[j]
      /\ \A i, j \in S : m[i] = m[j] => i = j
      /\ \A p \in mine : \E j \in S : m[j] = p
  BY <1>2, <1>3, <1>5, <1>6
<1>8. IsFiniteSet(S) /\ \A j \in S : f[j] \in Int
  BY <1>1, <1>6, TotalOver, UnitsOf
<1>9. TotalIn(records, a) = SumFunction(g)
  <2>1. TotalIn(records, a) = SumFunctionOnSet(f, S)
    BY DEF TotalIn, SumFunction
  <2>2. SumFunction(g) = SumFunctionOnSet(g, mine)
    BY DEF SumFunction
  <2> HIDE DEF f, g, S, mine
  <2> QED
    BY <1>7, <1>8, <2>1, <2>2, SumRenamed
<1>10. NameIn(records, a) # NoName <=> \E p \in mine : NamesFor(p) # {NoName}
  <2>1. NameIn(records, a) # NoName <=> NamedIn(records, a) # {}
    <3> DEFINE N == NamedIn(records, a)
    <3>1. N \in SUBSET (1..Len(records)) /\ Len(records) \in Nat
      BY <1>1, <1>6 DEF NamedIn
    <3>2. \A j \in N : records[j].name # NoName
      BY DEF NamedIn
    <3> HIDE DEF N
    <3>3. N # {} => Max(N) \in N
      BY <3>1, GreatestMember
    <3> QED
      BY <3>2, <3>3 DEF NameIn, N
  <2>2. NamedIn(records, a) # {} <=> \E j \in S : NamesFor(m[j]) # {NoName}
    BY <1>5, <1>6 DEF NamedIn
  <2> HIDE DEF f, g, S, mine
  <2>3. (\E j \in S : NamesFor(m[j]) # {NoName}) <=>
          \E p \in mine : NamesFor(p) # {NoName}
    BY <1>7, Zenon
  <2> QED
    BY <2>1, <2>2, <2>3
<1> QED
  BY <1>7, <1>9, <1>10

(* For every sequence of answers whose numbers fit: however the service    *)
(* spells its numbers and spreads the items of a product over pages, its   *)
(* row has the sum of the units written in the answers, and a name if one  *)
(* of its items has one or came with an app_info that names it.            *)
THEOREM RowsAreWhatWasAnswered == PagesSpec => []RowsMatchAnswers
<1>1. FetchInv /\ RowsInv /\ PlacesInv => RowsMatchAnswers
  <2> SUFFICES ASSUME FetchInv, RowsInv, PlacesInv, phase = "aggregate",
                      records = collected, NumbersFit, NEW app \in Apps
               PROVE  LET mine == PlacesOf(app)
                          named == \E p \in mine : NamesFor(p) # {NoName}
                      IN IF mine = {} THEN \A i \in DOMAIN rows : rows[i].app # app
                         ELSE \E i \in DOMAIN rows :
                                /\ rows[i].app = app
                                /\ rows[i].units =
                                     SumFunction([p \in mine |->
                                                    ItemAt(p).units.number])
                                /\ named <=> rows[i].name # NoName
    BY DEF RowsMatchAnswers
  <2>1. PICK m : IsNumbering(records, answers, m)
    BY DEF PlacesInv
  <2> DEFINE mine == PlacesOf(app)
             S == OfIn(records, app)
             total == SumFunction([p \in mine |-> ItemAt(p).units.number])
             named == \E p \in mine : NamesFor(p) # {NoName}
  <2>2. /\ mine = {} <=> S = {}
        /\ TotalIn(records, app) = total
        /\ NameIn(records, app) # NoName <=> named
    BY <2>1, OfProduct
  <2>3. app \in DOMAIN indexByApp <=> S # {}
    BY DEF RowsInv, SumsInv
  <2>4. DOMAIN rows = 1..Len(rows)
    BY DEF RowsInv, IndexInv
  <2> HIDE DEF mine, S, total, named
  <2>5. CASE mine = {}
    <3>1. \A i \in DOMAIN rows : rows[i].app # app
      BY <2>2, <2>3, <2>4, <2>5 DEF RowsInv, IndexInv
    <3> QED
      BY <2>5, <3>1 DEF mine
  <2>6. CASE mine # {}
    <3> DEFINE i == indexByApp[app]
    <3>1. i \in DOMAIN rows /\ rows[i].app = app
      BY <2>2, <2>3, <2>4, <2>6 DEF RowsInv, IndexInv
    <3>2. rows[i].units = total /\ (named <=> rows[i].name # NoName)
      BY <2>2, <2>4, <3>1 DEF RowsInv, SumsInv
    <3> QED
      BY <2>6, <3>1, <3>2 DEF mine, total, named
  <2> QED
    BY <2>5, <2>6
<1> QED
  BY <1>1, IInvSpec, PlacesSpec, PTL
=============================================================================
