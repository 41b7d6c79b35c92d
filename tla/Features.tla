------------------------------ MODULE Features ------------------------------
(***************************************************************************)
(* One cell (zone, weekday, hour) as the model sees it when it is trained  *)
(* (buildFeatureContext and rawFeatures, internal/ml/features.go) and when *)
(* a node is asked about it (buildFeatures, internal/node/predictor.go).   *)
(*                                                                         *)
(* A vector maps the name of a feature to its value before it is           *)
(* standardized, which both sides do alike.  The sine and cosine of an     *)
(* hour, a day or a month are the hour, day or month itself, and "history" *)
(* is all that FeatureHistory makes of the past weeks.  A definition named *)
(* Bug... is one of the code with a mistake, to show that a property can   *)
(* fail.                                                                   *)
(***************************************************************************)
EXTENDS FeatureHistory

CONSTANTS MaxDistrict, MaxArea,  \* size of the one-hot groups
          Inputs                 \* a query and the aggregates of the training

(* A query is [features, district, area, dow, hour, week]: features is     *)
(* "none", or a full vector of the right or of a wrong length; week is     *)
(* [given, month, monday, number], the months of the date that is asked    *)
(* about and of the Monday of its week.                                    *)

(* The aggregates count the crimes of a cell: all, and those of a group.   *)
(* Week 1 is not later than the first of the data.                         *)
Cell == [week : Nat \ {0}, place : [district : Int, area : Int], slot : [dow : Int, hour : Int]]
CrimeCount == {v \in [Group -> Nat] : v.relevant <= v.total /\ v.minor <= v.total}

ASSUME FeaturesAssumption ==
  /\ MaxDistrict \in Nat /\ MaxArea \in Nat
  /\ \A in \in Inputs : LET q == in.query  a == in.aggregates IN
       /\ q.features \in {"none", "fits", "misfits"}
       /\ {q.district, q.area, q.dow, q.hour, q.week.number} \subseteq Int
       /\ q.week.given \in BOOLEAN
       /\ {q.week.month, q.week.monday} \subseteq 1 .. 12
       /\ IsFiniteSet(DOMAIN a)
       /\ \A k \in DOMAIN a : k \in Cell /\ a[k] \in CrimeCount

VARIABLES query,
          aggregates,
          todo,     \* entries that the loop over this map has not come to
          ctx,      \* featureContext
          served,   \* what the node makes of the query
          trained   \* what the model was trained on for this cell

cellVars == <<query, aggregates, todo, ctx, served, trained>>

NotYet   == [made |-> "not yet"]
Rejected == [made |-> "error"]
Echo     == [made |-> "the features of the query"]
Made(v)  == [made |-> "vector", of |-> v]

Bit(b) == IF b THEN 1 ELSE 0

OneHot(value, size) == [i \in 1 .. size |-> Bit(i = value)]

(* What the two sides compute alike; the other arguments differ. *)
Vector(q, month, night, fridayNight, history) ==
  [district      |-> q.district,
   area          |-> q.area,
   hour          |-> q.hour,
   day           |-> q.dow,
   month         |-> month,
   is_weekend    |-> Bit(q.dow \in {0, 6}),
   is_night      |-> Bit(night),
   is_morning    |-> Bit(q.hour \in 6 .. 11),
   is_afternoon  |-> Bit(q.hour \in 12 .. 17),
   is_evening    |-> Bit(q.hour \in 18 .. 23),
   is_friday_saturday_night |-> Bit(fridayNight),
   district_onehot          |-> OneHot(q.district, MaxDistrict),
   community_area_onehot    |-> OneHot(q.area, MaxArea),
   history       |-> history]

CellOf(q) == [week |-> q.week.number, place |-> [district |-> q.district, area |-> q.area],
              slot |-> [dow |-> q.dow, hour |-> q.hour]]

(* rawFeatures(k, ...): the month is that of the Monday k.WeekStart. *)
RawFeatures(q) ==
  Vector(q, q.week.monday,
         q.hour >= 20 \/ q.hour <= 5,
         q.dow \in {5, 6} /\ (q.hour >= 18 \/ q.hour <= 3),
         History(aggregates, ctx, CellOf(q)))

Fits(q) == /\ q.district > 0 /\ q.area > 0
           /\ q.dow \in 0 .. 6
           /\ q.hour \in 0 .. 23

(* Saturday's small hours are taken for the night of Friday. *)
BugBaseFeatures(q) ==
  Vector(q, IF q.week.given THEN q.week.month ELSE 1,
         q.hour \in 0 .. 5,
         q.dow \in {5, 6} /\ (q.hour >= 18 \/ q.hour <= 5), NoHistory)

(* The switch of buildFeatures: January, unless week_start is a date. *)
BaseFeatures(q) ==
  Vector(q, IF q.week.given THEN q.week.month ELSE 1,
         q.hour \in 0 .. 5,
         q.dow \in {5, 6} /\ q.hour >= 18, NoHistory)

BuildFeatures(q) == CASE q.features = "fits"    -> Echo
                      [] q.features = "misfits" -> Rejected
                      [] ~Fits(q) -> Rejected
                      [] OTHER    -> Made(BaseFeatures(q))

CellInit == /\ \E in \in Inputs : query = in.query /\ aggregates = in.aggregates
        /\ todo = DOMAIN aggregates /\ ctx = <<>>
        /\ served = NotYet /\ trained = NotYet

(* A node gets a vector for the query, or refuses it. *)
Serve == /\ served = NotYet
         /\ served' = BuildFeatures(query)
         /\ UNCHANGED <<query, aggregates, todo, ctx, trained>>

(* buildFeatureContext: an entry of the map, in any order. *)
AddEntry == /\ \E k \in todo : /\ todo' = todo \ {k}
                              /\ ctx' = Collected(ctx, k, aggregates[k])
           /\ UNCHANGED <<query, aggregates, served, trained>>

(* The grid of BuildSamples: every zone and every week of the data but the *)
(* last, at every hour. *)
InGrid(q) == /\ \E k \in DOMAIN aggregates : k.place = CellOf(q).place
             /\ \E j, k \in DOMAIN aggregates : j.week = q.week.number /\ k.week > j.week
             /\ q.dow \in 0 .. 6 /\ q.hour \in 0 .. 23

(* The vector of a cell of the grid. *)
Train == /\ trained = NotYet /\ todo = {}
         /\ InGrid(query)
         /\ trained' = Made(RawFeatures(query))
         /\ UNCHANGED <<query, aggregates, todo, ctx, served>>

Compared == /\ served # NotYet /\ todo = {} /\ (trained # NotYet \/ ~InGrid(query))
        /\ UNCHANGED cellVars

CellNext == Serve \/ AddEntry \/ Train \/ Compared

CellSpec == CellInit /\ [][CellNext]_cellVars

----------------------------------------------------------------------------
(* Properties.                                                             *)

Both == served.made = "vector" /\ trained.made = "vector"

Skewed == {f \in DOMAIN served.of : served.of[f] # trained.of[f]}

(* "El nodo construye un vector base compatible con el modelo": a node     *)
(* that is given the Monday of the week sees a cell without history as the *)
(* training saw it. *)
ServedAsTrained ==
  Both /\ trained.of.history = NoHistory /\ query.week.given
       /\ query.week.month = query.week.monday => Skewed = {}

(* Something happened in the cell in the last 12 weeks, or in its district *)
(* or its slot in the last 4, which is as far as the trainer looks there. *)
Eventful ==
  LET cell == CellOf(query) IN
  \E k \in DOMAIN aggregates :
    /\ aggregates[k].total > 0
    /\ \/ /\ k.week \in cell.week - 11 .. cell.week
          /\ k.place = cell.place /\ k.slot = cell.slot
       \/ /\ k.week \in cell.week - 3 .. cell.week
          /\ k.place.district = cell.place.district \/ k.slot = cell.slot

(* How far the two really disagree: from 20 to 23 h on is_night, from 0 to *)
(* 3 h on Fridays and Saturdays on is_friday_saturday_night, on the month  *)
(* when the week is not given by its Monday, and on the history when there *)
(* is one.  Nowhere else, and there always. *)
KnownSkew ==
  Both => Skewed =
    {f \in {"is_night"} : query.hour >= 20}
    \cup {f \in {"is_friday_saturday_night"} : query.dow \in {5, 6} /\ query.hour <= 3}
    \cup {f \in {"month"} :
            query.week.monday # (IF query.week.given THEN query.week.month ELSE 1)}
    \cup {f \in {"history"} : Eventful}

(* The entries seen so far that count for a total. *)
Entries(key) == {k \in DOMAIN aggregates \ todo : key \in Keys(k)}

(* In whatever order the map is gone through, each total is the sum of the *)
(* entries that were seen, of its own week only. *)
ContextIsSum ==
  /\ DOMAIN ctx = UNION {Keys(k) : k \in DOMAIN aggregates \ todo}
  /\ \A key \in DOMAIN ctx, g \in Group :
       ctx[key][g] = SumFunction([k \in Entries(key) |-> aggregates[k][g]])

Now == ValueAt(aggregates, CellOf(query))

(* The same counts in every week from the first, of which there are data. *)
Steady == \A w \in 1 .. query.week.number :
            /\ \E k \in DOMAIN aggregates : k.week = w
            /\ ValueAt(aggregates, [CellOf(query) EXCEPT !.week = w]) = Now

(* The averages divide by the weeks asked for, not by those there are: a   *)
(* series that never changes has a rising trend until there are 12 weeks   *)
(* of data, and no trend after that.  It never seems to fall. *)
ColdStart ==
  trained # NotYet /\ Steady =>
    \A a \in TrendAverages : LET trend == trained.of.history.trend[a] IN
      /\ trend >= 0
      /\ trend = 0 <=> (query.week.number >= 12 \/ Now[a[1]] = 0)
=============================================================================
