----------------------------- MODULE SalesPages -----------------------------
(***************************************************************************)
(* From the bodies of the service's answers for one date to the rows that  *)
(* are stored: the parser (steam/SteamJsonParser.cpp) on each answer, the  *)
(* records of all pages one after the other, and the aggregation of them   *)
(* (SalesAggregator).                                                      *)
(*                                                                         *)
(* A JSON value has a type, and the number that is written there: the      *)
(* reader makes a uint of an integer, a sint of one with a minus sign; a   *)
(* real stands for its whole part.  A text is <<>> if empty, <<n>> if it   *)
(* is the decimal numeral of n, and <<n, k>> if it is some other text whose*)
(* leading digits say n (0 if there are none).                             *)
(* Which outcome of a request leads to the parser is in FinancialClient.   *)
(*                                                                         *)
(* NumbersOnly and SignedFirst are faulty variants of the definition that  *)
(* follows them.                                                           *)
(***************************************************************************)
EXTENDS SalesAggregator

CONSTANTS Limit,      \* a signed integer is less (2^63)
          MaxAnswers, \* kMaxPagesPerDate
          Answers     \* bodies of the answers of the service

Int64 == -Limit..Limit - 1

ASSUME LimitAssumption == Limit \in Nat \ {0}
ASSUME Int64Assumption == Int64 \subseteq Apps \cup {0} /\ Int64 \subseteq Units
ASSUME MaxAnswersAssumption == MaxAnswers \in Nat \ {0}

VARIABLES answers,    \* history: the bodies that were parsed
          collected,  \* the records of all pages
          cursor,     \* highwatermark_id of the next request
          phase       \* "fetch", "aggregate" or "failed"

fetchVars == <<answers, collected, cursor, phase>>
allVars == <<rowVars, fetchVars>>

-----------------------------------------------------------------------------
(* JSON values.                                                            *)

Json(type, number) == [type |-> type, number |-> number, text |-> <<>>]
Str(text) == [type |-> "str", text |-> text,
              number |-> IF text = <<>> THEN 0 ELSE text[1]]
Absent == Json("absent", 0)

(* The bits of an unsigned integer taken for a signed one.                 *)
Wrap(n) == ((n + Limit) % (2 * Limit)) - Limit

(* strtoll stops at the limits.                                            *)
Clamp(n) == IF n >= Limit THEN Limit - 1 ELSE IF n < -Limit THEN -Limit ELSE n

NumbersOnly(v) ==
  CASE v.type \in {"uint", "sint"} -> Wrap(v.number)
    [] v.type = "real" -> v.number
    [] OTHER -> 0

GetInt64(v) ==
  CASE v.type \in {"uint", "sint"} -> Wrap(v.number)
    [] v.type = "real" -> v.number
    [] v.type = "str" -> Clamp(v.number)
    [] OTHER -> 0

SignedFirst(v) ==
  CASE v.type = "str" -> v.text
    [] v.type \in {"uint", "sint"} -> <<Wrap(v.number)>>
    [] OTHER -> <<>>

(* The types are tried in this order; yyjson_is_int, the last, is true of  *)
(* both kinds of integers, and a real number is no text.                   *)
GetNumberAsString(v) ==
  IF v.type = "str" THEN v.text
  ELSE IF v.type = "uint" THEN <<v.number>>
  ELSE IF v.type \in {"uint", "sint"} THEN <<Wrap(v.number)>>
  ELSE <<>>

-----------------------------------------------------------------------------
(* One answer.                                                             *)

(* GetResponse: an error is looked for before the response.                *)
Status(answer) ==
  CASE answer.root = "broken" -> "InvalidJson"
    [] answer.root = "other" -> "StructureError"
    [] answer.root = "object" /\ answer.error -> "ApiError"
    [] OTHER -> IF answer.response THEN "Ok" ELSE "MissingResponse"

(* The names that app_info gives; of two for one product the later.        *)
NamedEntries(info) ==
  {i \in DOMAIN info : GetInt64(info[i].appid) # 0 /\ info[i].name # NoName}

AppNames(info) ==
  [id \in {GetInt64(info[i].appid) : i \in NamedEntries(info)} |->
     info[Max({i \in NamedEntries(info) : GetInt64(info[i].appid) = id})].name]

ParseRecord(item, names) ==
  LET app == GetInt64(item.appid)
  IN [app |-> app, counted |-> item.counted, units |-> GetInt64(item.units),
      name |-> IF item.name = NoName /\ app \in DOMAIN names
               THEN names[app] ELSE item.name]

RecordArrayKeys == <<"results", "sales", "line_items">>

(* The first array under a key that may hold the records.                  *)
Located(answer) ==
  LET found == {k \in DOMAIN RecordArrayKeys :
                  RecordArrayKeys[k] \in DOMAIN answer.arrays}
  IN IF found = {} THEN <<>> ELSE answer.arrays[RecordArrayKeys[Min(found)]]

(* Elements that are no objects are passed over.                           *)
Items(answer) ==
  LET array == Located(answer)
      objects[n \in 0..Len(array)] ==
        IF n = 0 THEN <<>>
        ELSE IF array[n].object THEN Append(objects[n - 1], array[n])
        ELSE objects[n - 1]
  IN objects[Len(array)]

PageRecords(answer) ==
  LET names == AppNames(answer.info)
      items == Items(answer)
  IN [i \in DOMAIN items |-> ParseRecord(items[i], names)]

-----------------------------------------------------------------------------
(* What the service may answer (external).  A real number that no integer  *)
(* of the program can hold is not modelled.                                *)

Fits(v) == v.number \in Int64

JsonValues ==
  {v \in [type : {"absent", "null", "uint", "sint", "real", "str"},
          number : Int, text : Seq(Int)] :
     CASE v.type = "uint" -> v.number \in 0..2 * Limit - 1
       [] v.type = "sint" -> v.number \in -Limit..-1
       [] v.type = "real" -> Fits(v)
       [] v.type = "str" -> v.number = IF v.text = <<>> THEN 0 ELSE v.text[1]
       [] OTHER -> v.number = 0}

LineItems == [object : BOOLEAN, counted : BOOLEAN, appid : JsonValues,
              units : JsonValues, name : Names \cup {NoName}]

Entries == [appid : JsonValues, name : Names \cup {NoName}]

IsBody(answer) ==
  /\ answer.root \in {"object", "other", "broken"}
  /\ answer.error \in BOOLEAN /\ answer.response \in BOOLEAN
  /\ answer.max_id \in JsonValues
  /\ answer.info \in Seq(Entries)
  /\ DOMAIN answer.arrays \subseteq Range(RecordArrayKeys)
  /\ \A key \in DOMAIN answer.arrays : answer.arrays[key] \in Seq(LineItems)

ASSUME AnswersAssumption == \A answer \in Answers : IsBody(answer)

-----------------------------------------------------------------------------
(* The date.                                                               *)

PagesInit ==
  /\ RowsInit
  /\ answers = <<>> /\ collected = <<>> /\ cursor = <<0>>
  /\ phase = "fetch"

(* The cursor that repeats itself, none, or the bound ends the loop.       *)
PageParsed(answer) ==
  /\ phase = "fetch"
  /\ Status(answer) = "Ok"
  /\ Len(collected) + Len(Items(answer)) <= MaxRecords
  /\ answers' = Append(answers, answer)
  /\ collected' = collected \o PageRecords(answer)
  /\ LET maxId == GetNumberAsString(answer.max_id)
         more == maxId \notin {<<>>, cursor} /\ Len(answers') < MaxAnswers
     IN /\ phase' = IF more THEN "fetch" ELSE "aggregate"
        /\ cursor' = IF more THEN maxId ELSE cursor
  /\ UNCHANGED rowVars

(* The date is given up, and what was collected with it.                   *)
PageRefused(answer) ==
  /\ phase = "fetch"
  /\ Status(answer) # "Ok"
  /\ answers' = Append(answers, answer)
  /\ phase' = "failed"
  /\ UNCHANGED <<collected, cursor, rowVars>>

AggregateNext ==
  /\ phase = "aggregate"
  /\ Len(records) < Len(collected)
  /\ LET rec == collected[Len(records) + 1]
     IN Skip(rec) \/ FirstOfProduct(rec) \/ Merge(rec)
  /\ UNCHANGED fetchVars

PagesNext ==
  \/ \E answer \in Answers :
       PageParsed(answer) \/ PageRefused(answer)
  \/ AggregateNext

PagesSpec == PagesInit /\ [][PagesNext]_allVars

-----------------------------------------------------------------------------
(* Every variable keeps its type, and the aggregation is a part of it.     *)
PagesTypeOK ==
  /\ RowsTypeOK
  /\ collected \in Seq(Records) /\ Len(collected) <= MaxRecords
  /\ phase \in {"fetch", "aggregate", "failed"}
  /\ Len(answers) <= MaxAnswers
  /\ IsPrefix(records, collected)

(* The items of all answers, by the answer and the position in its array;  *)
(* an item comes with the app_info of its answer.                          *)
Places == UNION {{a} \X DOMAIN Items(answers[a]) : a \in DOMAIN answers}
ItemAt(p) == Items(answers[p[1]])[p[2]]

(* What product an item is of, read off the answer: an integer, a string of*)
(* digits and a real number mean the same.                                 *)
PlacesOf(app) ==
  {p \in Places : ItemAt(p).counted /\ ItemAt(p).appid.number = app}

NamesFor(p) ==
  {ItemAt(p).name} \cup
  {e.name : e \in {f \in Range(answers[p[1]].info) :
                     f.appid.number = ItemAt(p).appid.number}}

NumbersFit ==
  /\ \A p \in Places : Fits(ItemAt(p).appid) /\ Fits(ItemAt(p).units)
  /\ \A a \in DOMAIN answers : \A e \in Range(answers[a].info) : Fits(e.appid)

(* However the service spells its numbers and spreads a product's items    *)
(* over pages, a product gets the sum of the units that are written in the *)
(* answers, and it gets a name if one of its items came with one or with an*)
(* app_info that names it, if only on one page.                            *)
RowsMatchAnswers ==
  phase = "aggregate" /\ records = collected /\ NumbersFit
  => \A app \in Apps :
       LET mine == PlacesOf(app)
           named == \E p \in mine : NamesFor(p) # {NoName}
       IN IF mine = {} THEN \A i \in DOMAIN rows : rows[i].app # app
          ELSE \E i \in DOMAIN rows :
                 /\ rows[i].app = app
                 /\ rows[i].units =
                      SumFunction([p \in mine |-> ItemAt(p).units.number])
                 /\ named <=> rows[i].name # NoName

(* The cursor that request i carried, read off the answer before it: the   *)
(* text of max_id, or the digits of the number that is written there.      *)
Written(v) ==
  CASE v.type = "str" -> v.text
    [] v.type \in {"uint", "sint"} -> <<v.number>>
    [] OTHER -> <<>>

CursorOf(i) == IF i = 1 THEN <<0>> ELSE Written(answers[i - 1].max_id)

Ends(i) == CursorOf(i + 1) \in {<<>>, CursorOf(i)} \/ i = MaxAnswers

(* The cursor goes back to the service as it was written, also one "that   *)
(* can exceed signed range" (SteamJsonParser.cpp:80), and the date is taken*)
(* for complete exactly when an answer names none, not even an empty text, *)
(* repeats the one it was asked with, or is the last that the loop allows: *)
(* no request is made after such an answer, and no date is aggregated      *)
(* without one.                                                            *)
CursorIsExact ==
  /\ phase = "fetch" => cursor = CursorOf(Len(answers) + 1)
  /\ phase = "fetch" => \A i \in DOMAIN answers : ~Ends(i)
  /\ phase # "fetch" => \A i \in 1..Len(answers) - 1 : ~Ends(i)
  /\ phase = "aggregate" => Ends(Len(answers))
=============================================================================
