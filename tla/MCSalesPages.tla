---------------------------- MODULE MCSalesPages ----------------------------
(***************************************************************************)
(* The answers that SalesPages is checked with: an item, an entry and an   *)
(* envelope differ from a plain one in one respect.                        *)
(***************************************************************************)
EXTENDS SalesPages

MCApps == Int64 \ {0}
MCUnits == Int64

Item == [object |-> TRUE, counted |-> TRUE, appid |-> Json("uint", 1),
         units |-> Json("uint", 1), name |-> NoName]

(* Too large for a signed integer: taken for -1.                           *)
Beyond == 2 * Limit - 1

OddItems ==
  {Item, [Item EXCEPT !.object = FALSE], [Item EXCEPT !.counted = FALSE]}
  \cup {[Item EXCEPT !.name = n] : n \in Names}
  \cup {[Item EXCEPT !.appid = v] :
          v \in {Absent, Str(<<1>>), Json("sint", -1),
                 Json("uint", Beyond)}}
  \cup {[Item EXCEPT !.units = v] :
          v \in {Str(<<1>>), Json("real", 1), Json("sint", -1),
                 Json("null", 0)}}

Infos ==
  LET Entry(v, n) == [appid |-> v, name |-> n]
  IN {<<>>} \cup
     {<<Entry(Str(<<1>>), n), Entry(Json("uint", 0), n)>> : n \in Names}
     \cup {<<Entry(Json("uint", 1), n), Entry(Json("uint", 1), NoName)>> :
             n \in Names}
     \cup {<<Entry(Json("uint", Beyond), n)>> : n \in Names}

Page == [root |-> "object", error |-> FALSE, response |-> TRUE,
         max_id |-> Absent, info |-> <<>>, arrays |-> [key \in {} |-> <<>>]]

(* A number beyond the signed range, the first cursor again, one number in *)
(* three spellings, the empty text, and values that are no cursor.         *)
MaxIdValues ==
  {Json("uint", Beyond), Json("uint", 0), Json("uint", 1), Str(<<1>>),
   Str(<<1, 0>>), Str(<<>>), Json("sint", -1), Json("real", 1), Absent}

Pages ==
  {[Page EXCEPT !.max_id = v, !.info = info, !.arrays = "results" :> <<item>>] :
     v \in {Absent, Json("uint", 1)}, info \in Infos, item \in OddItems}
  \cup {[Page EXCEPT !.info = info, !.arrays = "results" :> <<item, Item>>] :
          info \in Infos, item \in OddItems}
  \cup {[Page EXCEPT !.arrays = "sales" :> <<item>> @@ "line_items" :> <<Item>>] :
          item \in OddItems}
  \cup {[Page EXCEPT !.max_id = v] : v \in MaxIdValues}

Failures ==
  {[Page EXCEPT !.root = root] : root \in {"broken", "other"}}
  \cup {[Page EXCEPT !.error = TRUE, !.response = r] : r \in BOOLEAN}
  \cup {[Page EXCEPT !.response = FALSE]}

MCAnswers == Pages \cup Failures
=============================================================================
