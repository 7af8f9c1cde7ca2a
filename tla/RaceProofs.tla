----------------------------- MODULE RaceProofs -----------------------------
(***************************************************************************)
(* Theorems about Race, for a race of any length, any entries, sector      *)
(* times, wear and streams.                                                *)
(***************************************************************************)
EXTENDS Race, FoldLemmas

-----------------------------------------------------------------------------
(* Numbers and rows                                                        *)

LEMMA Numbers ==
    /\ Laps \in Nat /\ Laps >= 1
    /\ NoTime \in Nat /\ NoTime >= 51
    /\ FreshWear = 2 /\ ChangedWear = 5 /\ PitLoss = 22
<1>1. NoTime \in Nat /\ NoTime >= 51
  BY SMT DEF NoTime
<1>2. QED
  BY <1>1, RaceDataAssumption DEF FreshWear, ChangedWear, PitLoss

LEMMA MinOfTwo == \A a, b \in Int : Min({a, b}) = IF a <= b THEN a ELSE b
BY DEF Min

LEMMA MaxOfTwo == \A a, b \in Int : Max({a, b}) = IF a >= b THEN a ELSE b
BY DEF Max

LEMMA TyreLossType == \A worn \in Nat : TyreLoss(worn) \in 0..3
BY DEF TyreLoss

LEMMA PlanType ==
    ASSUME NEW window \in Int \X Int
    PROVE  PlanOf(window, Laps) \in Plan /\ PlanOf(window, Laps).latest >= 1
<1> DEFINE earliest == Max({1, Min({window[1], Laps - 2})})
           latest == Max({earliest, Min({window[2], Laps - 2})})
           middle == (earliest + latest) \div 2
           optimal == Min({Laps - 5, Max({earliest, middle})})
<1>1. window[1] \in Int /\ window[2] \in Int /\ Laps - 2 \in Int /\ Laps - 5 \in Int
  BY Numbers
<1>2. Min({window[1], Laps - 2}) \in Int /\ Min({window[2], Laps - 2}) \in Int
  BY <1>1, MinOfTwo
<1>3. earliest \in Int /\ earliest >= 1
  BY <1>2, MaxOfTwo
<1>4. latest \in Int /\ latest >= 1
  <2> DEFINE closes == Min({window[2], Laps - 2})
  <2>1. closes \in Int /\ latest = Max({earliest, closes})
    BY <1>2
  <2> HIDE DEF earliest, closes, latest
  <2>2. QED
    BY <1>3, <2>1, MaxOfTwo
<1>5. middle \in Int
  BY <1>3, <1>4
<1>6. Max({earliest, middle}) \in Int
  BY <1>3, <1>5, MaxOfTwo
<1>7. optimal \in Int
  BY <1>1, <1>6, MinOfTwo
<1>8. PlanOf(window, Laps) = [earliest |-> earliest, latest |-> latest, optimal |-> optimal]
  BY DEF PlanOf
<1> HIDE DEF earliest, latest, middle, optimal
<1>9. QED
  BY <1>3, <1>4, <1>7, <1>8 DEF Plan

-----------------------------------------------------------------------------
(* One lap                                                                 *)

\* The lap that c drives next.
Lap(c) == Len(rows[c]) + 1

\* sessionBestLap and bestSector, once the lap that row tells is driven.
BestWith(c, row) ==
    [lap |-> Min({best[c].lap, row.time}), sector |-> Min({best[c].sector, row.sector})]

\* What the proofs need of a lap: the row it adds, and whether it ends with a stop.
Driven(c, row, time, worn, locked, pits) ==
    /\ row.compound = tyres[c].compound /\ row.tireAge = tyres[c].age /\ row.wear = worn
    /\ row.time = time /\ time \in 1..NoTime /\ row.sector \in 1..NoTime
    /\ row.delta = row.sector - best'[c].sector
    /\ row.failure = ProjectedFailure(Lap(c), worn)
    /\ worn > tyres[c].wear \/ (tyres[c].wear = 100 /\ worn = 100)
    /\ pits = Pits(plan[c], tyres[c].stint, Lap(c), worn)
    /\ Len(rows[c]) # Laps
    /\ drawn' = [drawn EXCEPT ![c] = drawn[c] + 3]
    /\ rows' = [rows EXCEPT ![c] = Append(rows[c], row)]
    /\ events' = [events EXCEPT ![c] = events[c] \cup LapEvents(c, time, locked, pits)]
    /\ tyres' = [tyres EXCEPT ![c] = TyresAfter(c, worn, pits)]
    /\ total' = [total EXCEPT ![c] = TotalAfter(c, time, pits)]
    /\ best' = [best EXCEPT ![c] = BestWith(c, row)]
    /\ total' \in [Car -> Nat]
    /\ best' \in [Car -> [lap : 1..NoTime, sector : 1..NoTime]]
    /\ UNCHANGED <<stream, plan, result>>

\* What a lap may draw.
LEMMA LapChoices ==
    ASSUME NEW c \in Car, NEW k \in Compound
    PROVE  SectorTimes[c] \subseteq 1..NoTime - 50 /\ WearPerLap[c][k] \subseteq 1..100
<1>1. SectorTimes[c] \in SUBSET (1..NoTime - 50)
  BY RaceAssumption
<1>2. WearPerLap[c] \in [Compound -> SUBSET (1..100)]
  BY RaceAssumption
<1>3. QED
  BY <1>1, <1>2

LEMMA Locks ==
    ASSUME NEW c, NEW l \in {FALSE} \cup {Len(rows[c]) + 1 \in LockUpLaps[c]}
    PROVE  l \in BOOLEAN
<1>1. CASE l = FALSE
  BY <1>1
<1>2. CASE l = (Len(rows[c]) + 1 \in LockUpLaps[c])
  <2> DEFINE may == Len(rows[c]) + 1 \in LockUpLaps[c]
  <2>1. may \in BOOLEAN
    OBVIOUS
  <2> HIDE DEF may
  <2>2. l = may
    BY <1>2 DEF may
  <2>3. QED
    BY <2>1, <2>2
<1>3. QED
  BY <1>1, <1>2

LEMMA LapTimeType ==
    ASSUME NEW c \in Car, tyres[c].wear \in Nat, NEW sector \in 1..NoTime - 50,
           NEW locked \in BOOLEAN
    PROVE  LapTime(c, sector, locked) \in 1..NoTime
<1>1. TyreLoss(tyres[c].wear) \in 0..3
  BY TyreLossType
<1>2. QED
  BY <1>1, Numbers DEF LapTime, SafetyCarLoss, LockUpLoss, OverheatLoss

LEMMA WornType ==
    ASSUME NEW c \in Car, tyres[c].wear \in 0..100, NEW loss \in 1..100
    PROVE  /\ Worn(c, loss) \in 0..100
           /\ Worn(c, loss) > tyres[c].wear \/ (tyres[c].wear = 100 /\ Worn(c, loss) = 100)
<1> DEFINE w == tyres[c].wear
<1>1. w \in 0..100
  OBVIOUS
<1>2. Worn(c, loss) = Min({100, w + loss})
  BY DEF Worn
<1> HIDE DEF w
<1>3. w + loss \in Int /\ 100 \in Int
  BY <1>1
<1>4. Min({100, w + loss}) = IF 100 <= w + loss THEN 100 ELSE w + loss
  BY <1>3, MinOfTwo
<1>5. Worn(c, loss) \in 0..100 /\ (Worn(c, loss) > w \/ (w = 100 /\ Worn(c, loss) = 100))
  BY <1>1, <1>2, <1>4
<1>6. QED
  BY <1>5 DEF w

LEMMA LapDriven ==
    ASSUME TypeOK, NEW c \in Car, DriveLap(c)
    PROVE  \E row \in Row, time \in Nat, worn \in 0..100, locked \in BOOLEAN, pits \in BOOLEAN :
                Driven(c, row, time, worn, locked, pits)
<1> USE Numbers
<1>1. /\ tyres[c] \in Tyres /\ plan[c] \in Plan /\ drawn[c] \in Nat /\ total[c] \in Nat
      /\ best[c] \in [lap : 1..NoTime, sector : 1..NoTime]
      /\ rows[c] \in Seq(Row)
  BY DEF TypeOK
<1>2. /\ tyres[c].compound \in Compound /\ tyres[c].wear \in 0..100 /\ tyres[c].age \in Nat
      /\ tyres[c].stint \in {0, 1}
  BY <1>1 DEF Tyres
<1>3. tyres[c].wear \in Nat
  BY <1>2
<1>4. SectorTimes[c] \subseteq 1..NoTime - 50 /\ WearPerLap[c][tyres[c].compound] \subseteq 1..100
  BY <1>2, LapChoices
<1>5. \A l \in {FALSE} \cup {Len(rows[c]) + 1 \in LockUpLaps[c]} : l \in BOOLEAN
  BY Locks
<1>6. PICK sector \in SectorTimes[c], loss \in WearPerLap[c][tyres[c].compound],
           locked \in {FALSE} \cup {Len(rows[c]) + 1 \in LockUpLaps[c]} :
        LET lap == Len(rows[c]) + 1
            time == LapTime(c, sector, locked)
            worn == Worn(c, loss)
            pits == Pits(plan[c], tyres[c].stint, lap, worn)
        IN  /\ drawn' = [drawn EXCEPT ![c] = Draws(c, locked)]
            /\ best' = [best EXCEPT ![c].lap = Min({@, time}), ![c].sector = Min({@, sector})]
            /\ rows' = [rows EXCEPT ![c] = Append(@,
                          [sector |-> sector, delta |-> sector - best'[c].sector,
                           time |-> time, best |-> time = best'[c].lap,
                           compound |-> tyres[c].compound, tireAge |-> tyres[c].age,
                           wear |-> worn, failure |-> ProjectedFailure(lap, worn)])]
            /\ events' = [events EXCEPT ![c] = @ \cup LapEvents(c, time, locked, pits)]
            /\ tyres' = [tyres EXCEPT ![c] = TyresAfter(c, worn, pits)]
            /\ total' = [total EXCEPT ![c] = TotalAfter(c, time, pits)]
  BY DEF DriveLap
<1> DEFINE lap == Len(rows[c]) + 1
           time == LapTime(c, sector, locked)
           worn == Worn(c, loss)
           pits == Pits(plan[c], tyres[c].stint, lap, worn)
           row == [sector |-> sector, delta |-> sector - best'[c].sector,
                   time |-> time, best |-> time = best'[c].lap,
                   compound |-> tyres[c].compound, tireAge |-> tyres[c].age,
                   wear |-> worn, failure |-> ProjectedFailure(lap, worn)]
<1>7. sector \in 1..NoTime - 50 /\ loss \in 1..100 /\ locked \in BOOLEAN
  <2>1. sector \in 1..NoTime - 50 /\ loss \in 1..100
    BY <1>4, <1>6
  <2>2. locked \in BOOLEAN
    BY <1>5
  <2>3. QED
    BY <2>1, <2>2
<1>8. time \in 1..NoTime
  BY <1>7, <1>3, LapTimeType
<1>9. worn \in 0..100 /\ (worn > tyres[c].wear \/ (tyres[c].wear = 100 /\ worn = 100))
  BY <1>2, <1>7, WornType
<1>10. pits \in BOOLEAN
  BY DEF Pits
<1>11. /\ drawn' = [drawn EXCEPT ![c] = Draws(c, locked)]
      /\ best' = [best EXCEPT ![c].lap = Min({@, time}), ![c].sector = Min({@, sector})]
      /\ rows' = [rows EXCEPT ![c] = Append(@, row)]
      /\ events' = [events EXCEPT ![c] = @ \cup LapEvents(c, time, locked, pits)]
      /\ tyres' = [tyres EXCEPT ![c] = TyresAfter(c, worn, pits)]
      /\ total' = [total EXCEPT ![c] = TotalAfter(c, time, pits)]
  BY <1>6
<1> HIDE DEF time, worn, pits
<1>12. Min({best[c].lap, time}) \in 1..NoTime /\ Min({best[c].sector, sector}) \in 1..NoTime
      /\ Min({best[c].sector, sector}) <= sector
  <2>1. sector \in 1..NoTime
    BY <1>7
  <2>2. best[c].lap \in 1..NoTime /\ best[c].sector \in 1..NoTime
    BY <1>1
  <2>3. QED
    BY <1>8, <2>1, <2>2, MinOfTwo
<1>13. /\ best' \in [Car -> [lap : 1..NoTime, sector : 1..NoTime]]
       /\ best'[c].sector = Min({best[c].sector, sector})
  <2>1. best \in [Car -> [lap : 1..NoTime, sector : 1..NoTime]]
    BY DEF TypeOK
  <2>2. QED
    BY <1>11, <1>12, <2>1
<1>14. best' = [best EXCEPT ![c] = BestWith(c, row)]
  <2>1. best \in [Car -> [lap : 1..NoTime, sector : 1..NoTime]]
    BY DEF TypeOK
  <2>2. BestWith(c, row) = [lap |-> Min({best[c].lap, time}),
                            sector |-> Min({best[c].sector, sector})]
    <3>1. row.time = time /\ row.sector = sector
      OBVIOUS
    <3> HIDE DEF row
    <3>2. QED
      BY <3>1 DEF BestWith
  <2>3. best'[c] = [lap |-> Min({best[c].lap, time}), sector |-> Min({best[c].sector, sector})]
    BY <1>11, <2>1
  <2>4. best' = [best EXCEPT ![c] = best'[c]]
    BY <1>11, <2>1
  <2>5. QED
    BY <2>2, <2>3, <2>4
<1>15. row \in Row
  <2>1. sector - best'[c].sector \in Nat
    BY <1>7, <1>12, <1>13
  <2>2. ProjectedFailure(lap, worn) \in Nat
    BY <1>1, <1>9 DEF ProjectedFailure, NoFailure
  <2>3. sector \in Nat /\ time \in Nat /\ worn \in Nat
    BY <1>7, <1>8, <1>9
  <2>4. (time = best'[c].lap) \in BOOLEAN
    BY Zenon
  <2>5. QED
    BY <1>2, <2>1, <2>2, <2>3, <2>4 DEF Row
<1>16. total' \in [Car -> Nat]
  <2>1. TotalAfter(c, time, pits) \in Nat
    BY <1>1, <1>8 DEF TotalAfter
  <2>2. QED
    BY <1>11, <2>1 DEF TypeOK
<1>17. drawn' = [drawn EXCEPT ![c] = drawn[c] + 3]
  BY <1>11 DEF Draws, Roll
<1>18. Len(rows[c]) # Laps /\ UNCHANGED <<stream, plan, result>>
  BY DEF DriveLap, Finished
<1>19. /\ row.compound = tyres[c].compound /\ row.tireAge = tyres[c].age /\ row.wear = worn
      /\ row.time = time /\ row.sector = sector /\ row.delta = sector - best'[c].sector
      /\ row.failure = ProjectedFailure(lap, worn)
  OBVIOUS
<1>20. pits = Pits(plan[c], tyres[c].stint, Lap(c), worn)
  BY DEF pits, Lap
<1> HIDE DEF row
<1>21. Driven(c, row, time, worn, locked, pits)
  <2>1. row.time \in 1..NoTime /\ row.sector \in 1..NoTime
    BY <1>7, <1>8, <1>19, Numbers
  <2>2. row.failure = ProjectedFailure(Lap(c), worn)
    BY <1>19 DEF Lap
  <2>3. QED
    BY <1>9, <1>11, <1>13, <1>14, <1>16, <1>17, <1>18, <1>19, <1>20, <2>1, <2>2 DEF Driven
<1>22. time \in Nat /\ worn \in 0..100
  BY <1>8, <1>9
<1>23. QED
  BY <1>7, <1>10, <1>15, <1>21, <1>22, Zenon

-----------------------------------------------------------------------------
(* Types                                                                   *)

LEMMA TypeInit == Init => TypeOK
<1> SUFFICES ASSUME Init
             PROVE  TypeOK
  OBVIOUS
<1>1. PICK e \in Entries :
        /\ plan = [c \in Car |-> PlanOf(e[c].window, Laps)]
        /\ tyres = [c \in Car |-> [compound |-> e[c].compound, wear |-> FreshWear,
                                   age |-> 0, stint |-> 0]]
  BY DEF Init
<1>2. \A c \in Car : e[c].window \in Int \X Int /\ e[c].compound \in Compound
  BY RaceAssumption DEF Entry
<1>3. plan \in [Car -> Plan]
  BY <1>1, <1>2, PlanType
<1>4. tyres \in [Car -> Tyres]
  BY <1>1, <1>2, Numbers DEF Tyres
<1>5. best \in [Car -> [lap : 1..NoTime, sector : 1..NoTime]]
  BY Numbers DEF Init
<1>6. /\ stream \in Streams /\ drawn \in [Car -> Nat] /\ total \in [Car -> Nat]
      /\ rows \in [Car -> Seq(Row)]
  BY DEF Init
<1>7. (\A c \in Car : Len(rows[c]) <= Laps) /\ events \in [Car -> SUBSET Event]
  BY Numbers DEF Init
<1>8. QED
  BY <1>3, <1>4, <1>5, <1>6, <1>7 DEF TypeOK

LEMMA LapEventsType ==
    ASSUME TypeOK, NEW c \in Car, Len(rows[c]) # Laps, NEW time, NEW locked, NEW pits
    PROVE  LapEvents(c, time, locked, pits) \subseteq Event
<1>1. Lap(c) \in 1..Laps
  BY Numbers DEF TypeOK, Lap
<1>2. \A e \in LapEvents(c, time, locked, pits) :
        \E t \in EventType : e = [lap |-> Lap(c), type |-> t]
  BY DEF LapEvents, EventType, Lap
<1>3. QED
  BY <1>1, <1>2 DEF Event

LEMMA TyresType ==
    ASSUME TypeOK, NEW c \in Car, NEW worn \in 0..100, NEW pits \in BOOLEAN
    PROVE  TyresAfter(c, worn, pits) \in Tyres
<1>1. tyres[c] \in Tyres
  BY DEF TypeOK
<1>2. CASE pits
  BY <1>2, Numbers DEF TyresAfter, Tyres, Compound
<1>3. CASE ~pits
  <2>1. TyresAfter(c, worn, pits) = [tyres[c] EXCEPT !.wear = worn, !.age = @ + 1]
    BY <1>3 DEF TyresAfter
  <2>2. tyres[c].age + 1 \in Nat
    BY <1>1 DEF Tyres
  <2>3. QED
    BY <1>1, <2>1, <2>2 DEF Tyres
<1>4. QED
  BY <1>2, <1>3

LEMMA TypeNext == TypeOK /\ [Next]_vars => TypeOK'
<1> SUFFICES ASSUME TypeOK, [Next]_vars
             PROVE  TypeOK'
  OBVIOUS
<1>1. ASSUME NEW c \in Car, DriveLap(c)
      PROVE  TypeOK'
  <2>1. PICK row \in Row, time \in Nat, worn \in 0..100, locked \in BOOLEAN, pits \in BOOLEAN :
            Driven(c, row, time, worn, locked, pits)
    BY <1>1, LapDriven
  <2>2. tyres' \in [Car -> Tyres]
    BY <2>1, TyresType DEF Driven, TypeOK
  <2>3. rows' \in [Car -> Seq(Row)]
    BY <2>1 DEF Driven, TypeOK
  <2>4. \A d \in Car : Len(rows'[d]) <= Laps
    <3>1. rows'[c] = Append(rows[c], row) /\ \A d \in Car : d # c => rows'[d] = rows[d]
      BY <2>1 DEF Driven, TypeOK
    <3>2. Len(rows'[c]) = Len(rows[c]) + 1 /\ Len(rows[c]) < Laps
      <4>1. rows[c] \in Seq(Row) /\ Len(rows[c]) <= Laps /\ Len(rows[c]) # Laps
        BY <2>1 DEF Driven, TypeOK
      <4>2. QED
        BY <3>1, <4>1, Numbers
    <3>3. Len(rows'[c]) <= Laps
      <4>1. Len(rows[c]) \in Nat
        BY DEF TypeOK
      <4>2. QED
        BY <3>2, <4>1, Numbers
    <3>4. ASSUME NEW d \in Car
          PROVE  Len(rows'[d]) <= Laps
      <4>1. CASE d = c
        BY <3>3, <4>1
      <4>2. CASE d # c
        BY <3>1, <4>2 DEF TypeOK
      <4>3. QED
        BY <4>1, <4>2
    <3>5. QED
      BY <3>4
  <2>5. events' \in [Car -> SUBSET Event]
    <3>1. LapEvents(c, time, locked, pits) \subseteq Event
      BY <2>1, LapEventsType DEF Driven
    <3>2. events' = [events EXCEPT ![c] = events[c] \cup LapEvents(c, time, locked, pits)]
      BY <2>1 DEF Driven
    <3>3. QED
      BY <3>1, <3>2 DEF TypeOK
  <2>6. drawn' \in [Car -> Nat]
    BY <2>1 DEF Driven, TypeOK
  <2>7. QED
    BY <2>1, <2>2, <2>3, <2>4, <2>5, <2>6 DEF Driven, TypeOK
<1>2. CASE StoreResult
  BY <1>2 DEF StoreResult, TypeOK
<1>3. CASE UNCHANGED vars
  BY <1>3 DEF vars, TypeOK
<1>4. QED
  BY <1>1, <1>2, <1>3 DEF Next

\* Every variable keeps its type and no tyre is more than worn out, however long the race.
THEOREM TypeCorrect == Spec => []TypeOK
BY TypeInit, TypeNext, PTL DEF Spec
-----------------------------------------------------------------------------
(* What a lap tells                                                        *)

LEMMA LapEventsTell ==
    ASSUME NEW c \in Car, NEW time, NEW locked \in BOOLEAN, NEW pits \in BOOLEAN, NEW n
    PROVE  /\ [lap |-> n, type |-> "SAFETY_CAR"] \in LapEvents(c, time, locked, pits)
                <=> n = Lap(c) /\ SafetyCar(c)
           /\ [lap |-> n, type |-> "PIT_STOP"] \in LapEvents(c, time, locked, pits)
                <=> n = Lap(c) /\ pits
           /\ [lap |-> n, type |-> "FASTEST_LAP"] \in LapEvents(c, time, locked, pits)
                <=> n = Lap(c) /\ time <= best[c].lap
<1> DEFINE happens == [SAFETY_CAR |-> SafetyCar(c), LOCK_UP |-> locked,
                       TIRE_OVERHEAT |-> Overheated(c), PIT_STOP |-> pits,
                       FASTEST_LAP |-> time <= best[c].lap]
           told == {u \in DOMAIN happens : happens[u]}
<1>1. LapEvents(c, time, locked, pits) = {[lap |-> Lap(c), type |-> t] : t \in told}
  BY DEF LapEvents, Lap
<1>2. /\ "SAFETY_CAR" \in told <=> SafetyCar(c)
      /\ "PIT_STOP" \in told <=> pits
      /\ "FASTEST_LAP" \in told <=> time <= best[c].lap
  OBVIOUS
<1> HIDE DEF happens, told
<1>3. \A u : [lap |-> n, type |-> u] \in LapEvents(c, time, locked, pits)
               <=> n = Lap(c) /\ u \in told
  <2>1. \A u, v, m : [lap |-> n, type |-> u] = [lap |-> m, type |-> v] <=> n = m /\ u = v
    <3>1. TAKE u, v, m
    <3>2. [lap |-> n, type |-> u] = [lap |-> m, type |-> v] => n = m /\ u = v
      <4> DEFINE r == [lap |-> n, type |-> u]
                 s == [lap |-> m, type |-> v]
      <4>1. r.lap = n /\ r.type = u /\ s.lap = m /\ s.type = v
        OBVIOUS
      <4> HIDE DEF r, s
      <4>2. r = s => n = m /\ u = v
        BY <4>1
      <4>3. QED
        BY <4>2 DEF r, s
    <3>3. QED
      BY <3>2
  <2>2. QED
    BY <1>1, <2>1
<1>4. QED
  BY <1>2, <1>3

LEMMA ToldMeans ==
    ASSUME TypeOK, NEW c \in Car, NEW type
    PROVE  \A n : n \in Told(c, type) <=> [lap |-> n, type |-> type] \in events[c]
<1>1. events[c] \subseteq Event
  BY DEF TypeOK
<1>2. \A e \in events[c] : e = [lap |-> e.lap, type |-> e.type]
  BY <1>1 DEF Event
<1>3. QED
  BY <1>2 DEF Told

\* A lap tells what it is told with, and nothing of the laps before.
LEMMA LapTells ==
    ASSUME TypeOK, TypeOK', NEW c \in Car, NEW row, NEW time, NEW worn, NEW locked \in BOOLEAN,
           NEW pits \in BOOLEAN,
           Driven(c, row, time, worn, locked, pits), NEW n
    PROVE  /\ n \in Told(c, "SAFETY_CAR")'
                <=> n \in Told(c, "SAFETY_CAR") \/ (n = Lap(c) /\ SafetyCar(c))
           /\ n \in Told(c, "PIT_STOP")' <=> n \in Told(c, "PIT_STOP") \/ (n = Lap(c) /\ pits)
           /\ n \in Told(c, "FASTEST_LAP")' <=> n \in Told(c, "FASTEST_LAP")
                                                \/ (n = Lap(c) /\ time <= best[c].lap)
<1>1. events'[c] = events[c] \cup LapEvents(c, time, locked, pits)
  BY DEF Driven, TypeOK
<1>2. \A type : n \in Told(c, type) <=> [lap |-> n, type |-> type] \in events[c]
  BY ToldMeans
<1>3. \A type : n \in Told(c, type)' <=> [lap |-> n, type |-> type] \in events'[c]
  <2>1. events'[c] \subseteq Event'
    BY DEF TypeOK
  <2>2. \A e \in events'[c] : e = [lap |-> e.lap, type |-> e.type]
    BY <2>1 DEF Event
  <2>3. QED
    BY <2>2 DEF Told
<1>4. QED
  BY <1>1, <1>2, <1>3, LapEventsTell

\* What a lap of c leaves of the other car.
LEMMA OtherCarWaits ==
    ASSUME TypeOK, NEW c \in Car, NEW row, NEW time, NEW worn, NEW locked \in BOOLEAN,
           NEW pits \in BOOLEAN,
           Driven(c, row, time, worn, locked, pits), NEW d \in Car, d # c
    PROVE  /\ rows'[d] = rows[d] /\ events'[d] = events[d] /\ tyres'[d] = tyres[d]
           /\ drawn'[d] = drawn[d] /\ plan'[d] = plan[d] /\ stream' = stream
           /\ total'[d] = total[d] /\ best'[d] = best[d]
BY DEF Driven, TypeOK

\* What a lap of c makes of c.
LEMMA CarDrives ==
    ASSUME TypeOK, NEW c \in Car, NEW row \in Row, NEW time, NEW worn, NEW locked \in BOOLEAN,
           NEW pits \in BOOLEAN,
           Driven(c, row, time, worn, locked, pits)
    PROVE  /\ rows'[c] = Append(rows[c], row) /\ Len(rows'[c]) = Lap(c) /\ Lap(c) \in 1..Laps
           /\ rows'[c][Lap(c)] = row /\ \A n \in 1..Len(rows[c]) : rows'[c][n] = rows[c][n]
           /\ tyres'[c] = TyresAfter(c, worn, pits)
           /\ drawn'[c] = drawn[c] + 3 /\ plan'[c] = plan[c] /\ stream' = stream
<1>1. /\ rows[c] \in Seq(Row) /\ Len(rows[c]) <= Laps /\ Len(rows[c]) # Laps
      /\ Len(rows[c]) \in Nat
  BY DEF TypeOK, Driven
<1>2. /\ rows'[c] = Append(rows[c], row) /\ tyres'[c] = TyresAfter(c, worn, pits)
      /\ drawn'[c] = drawn[c] + 3 /\ plan'[c] = plan[c] /\ stream' = stream
  BY DEF Driven, TypeOK
<1>3. QED
  BY <1>1, <1>2, Numbers DEF Lap

-----------------------------------------------------------------------------
(* The shared stream                                                       *)

\* A car rolls for the safety car in draw 3n of lap n.
InStep(c) ==
    /\ drawn[c] = 3 * Len(rows[c])
    /\ \A n : n \in Told(c, "SAFETY_CAR") <=> n \in 1..Len(rows[c]) /\ 3 * n \in stream

StreamInv == \A c \in Car : InStep(c)

LEMMA StreamInit == Init => StreamInv
BY DEF Init, StreamInv, InStep, Told

LEMMA StreamStep ==
    ASSUME TypeOK, TypeOK', StreamInv, NEW c \in Car, DriveLap(c)
    PROVE  StreamInv'
<1>1. PICK row \in Row, time \in Nat, worn \in 0..100, locked \in BOOLEAN, pits \in BOOLEAN :
        Driven(c, row, time, worn, locked, pits)
  BY LapDriven
<1>2. ASSUME NEW d \in Car, d # c
      PROVE  InStep(d)'
  <2>1. rows'[d] = rows[d] /\ events'[d] = events[d] /\ drawn'[d] = drawn[d] /\ stream' = stream
    BY <1>1, <1>2, OtherCarWaits
  <2>2. InStep(d)
    BY DEF StreamInv
  <2>3. QED
    BY <2>1, <2>2 DEF InStep, Told
<1>3. InStep(c)'
  <2>1. /\ Len(rows'[c]) = Lap(c) /\ drawn'[c] = drawn[c] + 3 /\ stream' = stream
    <3>1. rows'[c] = Append(rows[c], row) /\ drawn'[c] = drawn[c] + 3 /\ stream' = stream
      BY <1>1 DEF Driven, TypeOK
    <3>2. rows[c] \in Seq(Row)
      BY DEF TypeOK
    <3>3. QED
      BY <3>1, <3>2 DEF Lap
  <2>2. Len(rows[c]) \in Nat /\ Lap(c) = Len(rows[c]) + 1
    BY DEF TypeOK, Lap
  <2>3. drawn[c] = 3 * Len(rows[c])
    BY DEF StreamInv, InStep
  <2>4. SafetyCar(c) <=> 3 * Lap(c) \in stream
    BY <2>2, <2>3 DEF SafetyCar, Roll
  <2>5. ASSUME NEW n
        PROVE  n \in Told(c, "SAFETY_CAR")' <=> n \in 1..Lap(c) /\ 3 * n \in stream
    <3>1. n \in Told(c, "SAFETY_CAR")'
            <=> n \in Told(c, "SAFETY_CAR") \/ (n = Lap(c) /\ SafetyCar(c))
      BY <1>1, LapTells
    <3>2. n \in Told(c, "SAFETY_CAR") <=> n \in 1..Len(rows[c]) /\ 3 * n \in stream
      BY DEF StreamInv, InStep
    <3>3. n \in 1..Lap(c) <=> n \in 1..Len(rows[c]) \/ n = Lap(c)
      BY <2>2
    <3>4. QED
      BY <2>4, <3>1, <3>2, <3>3
  <2>6. QED
    BY <2>1, <2>2, <2>3, <2>5 DEF InStep
<1>4. QED
  BY <1>2, <1>3 DEF StreamInv

LEMMA StreamNext == TypeOK /\ TypeOK' /\ StreamInv /\ [Next]_vars => StreamInv'
<1>1. ASSUME TypeOK, TypeOK', StreamInv, NEW c \in Car, DriveLap(c)
      PROVE  StreamInv'
  BY <1>1, StreamStep
<1>2. ASSUME StreamInv, StoreResult \/ UNCHANGED vars
      PROVE  StreamInv'
  BY <1>2 DEF StoreResult, vars, StreamInv, InStep, Told
<1>3. QED
  BY <1>1, <1>2 DEF Next

LEMMA StreamShares == TypeOK /\ StreamInv => SafetyCarsShared
<1> SUFFICES ASSUME TypeOK, StreamInv, NEW n \in 1..Min({Len(rows["host"]), Len(rows["opponent"])})
             PROVE  n \in Told("host", "SAFETY_CAR") <=> n \in Told("opponent", "SAFETY_CAR")
  BY DEF SafetyCarsShared
<1>1. Len(rows["host"]) \in Nat /\ Len(rows["opponent"]) \in Nat
  BY DEF TypeOK, Car
<1> DEFINE h == Len(rows["host"])
           o == Len(rows["opponent"])
<1> HIDE DEF h, o
<1>2. n \in 1..Min({h, o}) /\ h \in Int /\ o \in Int
  BY <1>1 DEF h, o
<1>3. n \in 1..h /\ n \in 1..o
  BY <1>2, MinOfTwo
<1>4. QED
  BY <1>3 DEF h, o, StreamInv, InStep, Car

(* The safety car is out for both cars in the same laps, however many draws    *)
(* each makes for itself: both roll for it in draw 3n of lap n.                *)
THEOREM OneSafetyCar == Spec => []SafetyCarsShared
<1>1. Init => TypeOK /\ StreamInv
  BY TypeInit, StreamInit
<1>2. (TypeOK /\ StreamInv) /\ [Next]_vars => (TypeOK /\ StreamInv)'
  BY TypeNext, StreamNext
<1>3. TypeOK /\ StreamInv => SafetyCarsShared
  BY StreamShares
<1>4. QED
  BY <1>1, <1>2, <1>3, PTL DEF Spec

-----------------------------------------------------------------------------
(* The stop                                                                *)

Stops(c) == Told(c, "PIT_STOP")

\* A car that has not stopped has a lap left to do so in, unless its window closes too late.
StopOpen(c) ==
    /\ plan[c].latest \in Nat \ {0}
    /\ Stops(c) \subseteq 1..Len(rows[c])
    /\ \A n \in Stops(c) : n <= plan[c].latest /\ n < Laps - 2
    /\ \A m, n \in Stops(c) : m = n
    /\ tyres[c].stint = 0 <=> Stops(c) = {}
    /\ tyres[c].stint = 0 /\ plan[c].latest <= Laps - 3 => Len(rows[c]) < plan[c].latest

StopInv == \A c \in Car : StopOpen(c)

LEMMA StopInit == Init => StopInv
<1> SUFFICES ASSUME Init, NEW c \in Car
             PROVE  StopOpen(c)
  BY DEF StopInv
<1>1. PICK e \in Entries :
        /\ plan = [d \in Car |-> PlanOf(e[d].window, Laps)]
        /\ tyres = [d \in Car |-> [compound |-> e[d].compound, wear |-> FreshWear,
                                   age |-> 0, stint |-> 0]]
  BY DEF Init
<1>2. e[c].window \in Int \X Int
  BY RaceAssumption DEF Entry
<1>3. plan[c].latest \in Nat \ {0}
  BY <1>1, <1>2, PlanType DEF Plan
<1>4. tyres[c].stint = 0 /\ rows[c] = <<>> /\ Stops(c) = {}
  BY <1>1 DEF Init, Stops, Told
<1>5. QED
  BY <1>3, <1>4 DEF StopOpen

LEMMA StopStep ==
    ASSUME TypeOK, TypeOK', StopInv, NEW c \in Car, DriveLap(c)
    PROVE  StopInv'
<1>1. PICK row \in Row, time \in Nat, worn \in 0..100, locked \in BOOLEAN, pits \in BOOLEAN :
        Driven(c, row, time, worn, locked, pits)
  BY LapDriven
<1>2. ASSUME NEW d \in Car, d # c
      PROVE  StopOpen(d)'
  <2>1. /\ rows'[d] = rows[d] /\ events'[d] = events[d] /\ tyres'[d] = tyres[d]
        /\ plan'[d] = plan[d]
    BY <1>1, <1>2, OtherCarWaits
  <2>2. Stops(d)' = Stops(d)
    BY <2>1 DEF Stops, Told
  <2>3. StopOpen(d)
    BY DEF StopInv
  <2>4. QED
    BY <2>1, <2>2, <2>3 DEF StopOpen
<1>3. StopOpen(c)'
  <2> DEFINE latest == plan[c].latest
             lap == Lap(c)
  <2>1. /\ Len(rows'[c]) = Lap(c) /\ plan'[c] = plan[c] /\ Lap(c) \in 1..Laps
        /\ tyres'[c] = TyresAfter(c, worn, pits)
    BY <1>1, CarDrives
  <2>2. Len(rows[c]) \in Nat /\ lap = Len(rows[c]) + 1 /\ tyres[c].stint \in {0, 1}
    BY DEF TypeOK, Lap, Tyres
  <2>3. \A n : n \in Stops(c)' <=> n \in Stops(c) \/ (n = lap /\ pits)
    BY <1>1, LapTells DEF Stops
  <2>4. pits <=> /\ ShouldPit(plan[c], tyres[c].stint, lap, worn)
                 /\ tyres[c].stint = 0 /\ lap < Laps - 2
    BY <1>1 DEF Driven, Pits
  <2>5. lap >= latest /\ tyres[c].stint = 0 => ShouldPit(plan[c], tyres[c].stint, lap, worn)
    BY DEF ShouldPit
  <2>6. /\ latest \in Nat \ {0}
        /\ Stops(c) \subseteq 1..Len(rows[c])
        /\ \A n \in Stops(c) : n <= latest /\ n < Laps - 2
        /\ \A m, n \in Stops(c) : m = n
        /\ tyres[c].stint = 0 <=> Stops(c) = {}
        /\ tyres[c].stint = 0 /\ latest <= Laps - 3 => Len(rows[c]) < latest
    BY DEF StopInv, StopOpen
  <2>7. tyres'[c].stint = IF pits THEN 1 ELSE tyres[c].stint
    BY <2>1 DEF TyresAfter, TypeOK, Tyres
  <2>8. Len(rows'[c]) = lap /\ plan'[c].latest = latest
    BY <2>1
  <2> HIDE DEF latest, lap
  <2>9. CASE pits
    <3>1. Stops(c) = {} /\ tyres'[c].stint = 1 /\ lap < Laps - 2
      BY <2>4, <2>6, <2>7, <2>9
    <3>2. lap <= latest
      BY <2>2, <2>4, <2>6, <2>9, <3>1, Numbers
    <3>3. Stops(c)' = {lap} /\ lap \in 1..lap
      <4>1. \A n : n \in Stops(c)' <=> n = lap
        BY <2>3, <2>9, <3>1
      <4>2. Stops(c)' = {lap}
        BY <4>1, Zenon
      <4>3. QED
        BY <2>2, <4>2
    <3>4. /\ \A n \in Stops(c)' : n <= latest /\ n < Laps - 2 /\ n \in 1..lap
          /\ \A m, n \in Stops(c)' : m = n
          /\ Stops(c)' # {}
      BY <2>2, <3>1, <3>2, <3>3
    <3>5. /\ Stops(c)' \subseteq 1..Len(rows'[c]) /\ plan'[c].latest = latest
          /\ latest \in Nat \ {0} /\ Len(rows'[c]) = lap
      BY <2>1, <2>6, <2>8, <3>4
    <3>6. QED
      BY <3>1, <3>4, <3>5 DEF StopOpen
  <2>10. CASE ~pits
    <3>1. Stops(c)' = Stops(c) /\ tyres'[c].stint = tyres[c].stint
      BY <2>3, <2>7, <2>10
    <3>2. tyres[c].stint = 0 /\ latest <= Laps - 3 => lap < latest
      <4>1. SUFFICES ASSUME tyres[c].stint = 0, latest <= Laps - 3, ~(lap < latest)
                     PROVE  FALSE
        OBVIOUS
      <4>2. Len(rows[c]) < latest
        BY <2>6, <4>1
      <4>3. lap = latest
        BY <2>2, <2>6, <4>1, <4>2
      <4>4. lap < Laps - 2
        BY <2>2, <4>1, <4>3, Numbers
      <4>5. ShouldPit(plan[c], tyres[c].stint, lap, worn)
        BY <2>2, <2>5, <4>1, <4>3
      <4>6. QED
        BY <2>4, <2>10, <4>1, <4>4, <4>5
    <3>3. Stops(c) \subseteq 1..lap
      BY <2>2, <2>6
    <3>4. QED
      BY <2>8, <2>6, <3>1, <3>2, <3>3 DEF StopOpen
  <2>11. QED
    BY <2>9, <2>10
<1>4. QED
  BY <1>2, <1>3 DEF StopInv

LEMMA StopNext == TypeOK /\ TypeOK' /\ StopInv /\ [Next]_vars => StopInv'
<1>1. ASSUME TypeOK, TypeOK', StopInv, NEW c \in Car, DriveLap(c)
      PROVE  StopInv'
  BY <1>1, StopStep
<1>2. ASSUME StopInv, StoreResult \/ UNCHANGED vars
      PROVE  StopInv'
  BY <1>2 DEF StoreResult, vars, StopInv, StopOpen, Stops, Told
<1>3. QED
  BY <1>1, <1>2 DEF Next

LEMMA StopTimely == TypeOK /\ StopInv => StopsInTime
<1> SUFFICES ASSUME TypeOK, StopInv, NEW c \in Car
             PROVE  /\ \A n \in Stops(c) : n <= plan[c].latest /\ n < Laps - 2
                    /\ plan[c].latest \in 1..Min({Len(rows[c]), Laps - 3}) => Stops(c) # {}
  BY DEF StopsInTime, Stops
<1>1. StopOpen(c) /\ tyres[c].stint \in {0, 1} /\ Len(rows[c]) \in Nat
  BY DEF StopInv, TypeOK, Tyres
<1> DEFINE ran == Len(rows[c])
<1>2. ASSUME plan[c].latest \in 1..Min({ran, Laps - 3})
      PROVE  Stops(c) # {}
  <2>1. ran \in Int /\ Laps - 3 \in Int
    BY <1>1, Numbers
  <2> HIDE DEF ran
  <2>2. plan[c].latest <= ran /\ plan[c].latest <= Laps - 3
    BY <1>2, <2>1, MinOfTwo
  <2>3. QED
    BY <1>1, <2>1, <2>2 DEF ran, StopOpen
<1>3. QED
  BY <1>1, <1>2 DEF StopOpen

(* A car stops within its window or, worn out, before it, not in the last laps, *)
(* and never drives past a window that closes before them without a stop.       *)
THEOREM StopMade == Spec => []StopsInTime
<1>1. Init => TypeOK /\ StopInv
  BY TypeInit, StopInit
<1>2. (TypeOK /\ StopInv) /\ [Next]_vars => (TypeOK /\ StopInv)'
  BY TypeNext, StopNext
<1>3. TypeOK /\ StopInv => StopsInTime
  BY StopTimely
<1>4. QED
  BY <1>1, <1>2, <1>3, PTL DEF Spec

-----------------------------------------------------------------------------
(* The stints                                                              *)

\* What the row prev is followed by: the tyre of the next lap, after a stop or none.
Continues(prev, tyre, stopped) ==
    IF stopped
    THEN tyre.compound = "HARD" /\ tyre.age = 0
    ELSE tyre.compound = prev.compound /\ tyre.age = prev.tireAge + 1 /\ tyre.wear = prev.wear

\* The rows link up, and the last one with what the car is on.
Linked(c) ==
    /\ \A n \in 2..Len(rows[c]) :
        IF n - 1 \in Stops(c)
        THEN rows[c][n].compound = "HARD" /\ rows[c][n].tireAge = 0
        ELSE /\ rows[c][n].compound = rows[c][n - 1].compound
             /\ rows[c][n].tireAge = rows[c][n - 1].tireAge + 1
             /\ \/ rows[c][n].wear > rows[c][n - 1].wear
                \/ rows[c][n].wear = 100 /\ rows[c][n - 1].wear = 100
    /\ Len(rows[c]) > 0 =>
        Continues(rows[c][Len(rows[c])], tyres[c], Len(rows[c]) \in Stops(c))

StintInv == \A c \in Car : Linked(c)

LEMMA StintInit == Init => StintInv
<1> SUFFICES ASSUME Init, NEW c \in Car
             PROVE  Linked(c)
  BY DEF StintInv
<1>1. rows[c] = <<>>
  BY DEF Init
<1>2. QED
  BY <1>1 DEF Linked

LEMMA StintStep ==
    ASSUME TypeOK, TypeOK', StopInv, StintInv, NEW c \in Car, DriveLap(c)
    PROVE  StintInv'
<1>1. PICK row \in Row, time \in Nat, worn \in 0..100, locked \in BOOLEAN, pits \in BOOLEAN :
        Driven(c, row, time, worn, locked, pits)
  BY LapDriven
<1>2. ASSUME NEW d \in Car, d # c
      PROVE  Linked(d)'
  <2>1. rows'[d] = rows[d] /\ events'[d] = events[d] /\ tyres'[d] = tyres[d]
    BY <1>1, <1>2, OtherCarWaits
  <2>2. Stops(d)' = Stops(d)
    BY <2>1 DEF Stops, Told
  <2>3. Linked(d)
    BY DEF StintInv
  <2>4. QED
    BY <2>1, <2>2, <2>3 DEF Linked, Continues
<1>3. Linked(c)'
  <2> DEFINE ran == Len(rows[c])
             lap == Lap(c)
             old == rows[c]
             new == rows'[c]
             stops == Stops(c)
             tyre == tyres[c]
             tyreNext == tyres'[c]
  <2>1. /\ Len(new) = lap /\ new[lap] = row /\ \A n \in 1..ran : new[n] = old[n]
        /\ tyreNext = TyresAfter(c, worn, pits)
    BY <1>1, CarDrives
  <2>2. ran \in Nat /\ lap = ran + 1
    BY DEF TypeOK, Lap
  <2>3. /\ row.compound = tyre.compound /\ row.tireAge = tyre.age /\ row.wear = worn
        /\ worn > tyre.wear \/ (tyre.wear = 100 /\ worn = 100)
    BY <1>1 DEF Driven
  <2>4. \A n : n \in Stops(c)' <=> n \in stops \/ (n = lap /\ pits)
    BY <1>1, LapTells DEF Stops
  <2>5. stops \subseteq 1..ran
    BY DEF StopInv, StopOpen
  <2>6. Linked(c)
    BY DEF StintInv
  <2>7. Continues(row, tyreNext, pits)
    <3>1. CASE pits
      BY <2>1, <3>1 DEF TyresAfter, Continues
    <3>2. CASE ~pits
      <4>1. tyreNext = [tyre EXCEPT !.wear = worn, !.age = @ + 1] /\ tyre \in Tyres
        BY <2>1, <3>2 DEF TyresAfter, TypeOK
      <4>2. tyreNext.compound = tyre.compound /\ tyreNext.age = tyre.age + 1 /\ tyreNext.wear = worn
        BY <4>1 DEF Tyres
      <4>3. QED
        BY <2>3, <3>2, <4>2 DEF Continues
    <3>3. QED
      BY <3>1, <3>2
  <2>8. lap \in Stops(c)' <=> pits
    BY <2>2, <2>4, <2>5
  <2>9. Continues(new[lap], tyreNext, lap \in Stops(c)')
    BY <2>1, <2>7, <2>8 DEF Continues
  <2>10. ASSUME NEW n \in 2..lap
         PROVE  IF n - 1 \in Stops(c)'
                THEN new[n].compound = "HARD" /\ new[n].tireAge = 0
                ELSE /\ new[n].compound = new[n - 1].compound
                     /\ new[n].tireAge = new[n - 1].tireAge + 1
                     /\ \/ new[n].wear > new[n - 1].wear
                        \/ new[n].wear = 100 /\ new[n - 1].wear = 100
    <3>1. n - 1 \in 1..ran /\ n - 1 # lap
      BY <2>2
    <3>2. n - 1 \in Stops(c)' <=> n - 1 \in stops
      BY <2>4, <3>1
    <3>3. new[n - 1] = old[n - 1]
      BY <2>1, <3>1
    <3>4. CASE n = lap
      <4>1. n - 1 = ran /\ ran > 0 /\ new[n] = row
        BY <2>1, <2>2, <3>1, <3>4
      <4>2. Continues(old[ran], tyre, ran \in stops)
        BY <2>6, <4>1 DEF Linked
      <4>3. QED
        BY <2>3, <3>2, <3>3, <4>1, <4>2 DEF Continues
    <3>5. CASE n # lap
      <4>1. n \in 2..ran /\ n \in 1..ran
        BY <2>2, <3>5
      <4>2. new[n] = old[n]
        BY <2>1, <4>1
      <4>3. QED
        BY <2>6, <3>2, <3>3, <4>1, <4>2 DEF Linked
    <3>6. QED
      BY <3>4, <3>5
  <2>11. QED
    BY <2>1, <2>9, <2>10 DEF Linked
<1>4. QED
  BY <1>2, <1>3 DEF StintInv

LEMMA StintNext == TypeOK /\ TypeOK' /\ StopInv /\ StintInv /\ [Next]_vars => StintInv'
<1>1. ASSUME TypeOK, TypeOK', StopInv, StintInv, NEW c \in Car, DriveLap(c)
      PROVE  StintInv'
  BY <1>1, StintStep
<1>2. ASSUME StintInv, StoreResult \/ UNCHANGED vars
      PROVE  StintInv'
  BY <1>2 DEF StoreResult, vars, StintInv, Linked, Continues, Stops, Told
<1>3. QED
  BY <1>1, <1>2 DEF Next

LEMMA StintTells == TypeOK /\ StopInv /\ StintInv => StintsTold
<1> SUFFICES ASSUME TypeOK, StopInv, StintInv, NEW c \in Car
             PROVE  /\ Cardinality(Stops(c)) <= 1
                    /\ \A n \in 2..Len(rows[c]) :
                        LET row == rows[c][n]
                            prev == rows[c][n - 1]
                        IN  IF n - 1 \in Stops(c)
                            THEN row.compound = "HARD" /\ row.tireAge = 0
                            ELSE /\ row.compound = prev.compound
                                 /\ row.tireAge = prev.tireAge + 1
                                 /\ row.wear > prev.wear \/ prev.wear = 100
  BY DEF StintsTold, Stops
<1>1. Linked(c) /\ StopOpen(c)
  BY DEF StintInv, StopInv
<1>2. Cardinality(Stops(c)) <= 1
  <2>1. CASE Stops(c) = {}
    BY <2>1, FS_EmptySet
  <2>2. CASE Stops(c) # {}
    <3>1. PICK n \in Stops(c) : TRUE
      BY <2>2
    <3>2. Stops(c) = {n}
      BY <1>1, <3>1 DEF StopOpen
    <3>3. QED
      BY <3>2, FS_Singleton
  <2>3. QED
    BY <2>1, <2>2
<1>3. QED
  BY <1>1, <1>2 DEF Linked

(* The rows of a race tell the stints that its stops make: new tyres of age 0   *)
(* in the lap after a stop and in no other, wear that only a stop takes back,   *)
(* and one stop at most.                                                        *)
THEOREM RowsTellStints == Spec => []StintsTold
<1>1. Init => TypeOK /\ StopInv /\ StintInv
  BY TypeInit, StopInit, StintInit
<1>2. (TypeOK /\ StopInv /\ StintInv) /\ [Next]_vars => (TypeOK /\ StopInv /\ StintInv)'
  BY TypeNext, StopNext, StintNext
<1>3. TypeOK /\ StopInv /\ StintInv => StintsTold
  BY StintTells
<1>4. QED
  BY <1>1, <1>2, <1>3, PTL DEF Spec
-----------------------------------------------------------------------------
(* Times, and the rows they are told in                                    *)

Ran(c) == 1..Len(rows[c])

\* totalRace: what the laps and the stops took.
Summed(c) ==
    total[c] = SumFunctionOnSet(Times(rows[c]), Ran(c)) + PitLoss * Cardinality(Stops(c))

\* sessionBestLap and bestSector are the greatest that no lap so far beats.
Quickest(c) ==
    /\ \A n \in Ran(c) : rows[c][n].time \in 1..NoTime /\ rows[c][n].sector \in 1..NoTime
    /\ \A t \in 1..NoTime : t <= best[c].lap <=> \A n \in Ran(c) : t <= rows[c][n].time
    /\ \A t \in 1..NoTime : t <= best[c].sector <=> \A n \in Ran(c) : t <= rows[c][n].sector

\* What the laps told when they were driven.
ToldThen(c) ==
    /\ \A n : n \in Told(c, "FASTEST_LAP") <=>
                n \in Ran(c) /\ \A m \in 1..n : rows[c][n].time <= rows[c][m].time
    /\ \A n \in Ran(c) :
        rows[c][n].delta = 0 <=> \A m \in 1..n : rows[c][n].sector <= rows[c][m].sector

\* A tyre that is worn out was changed, unless there is no stop left to make.
ChangedInTime(c) ==
    \A n \in Ran(c) :
        /\ rows[c][n].wear > 87 => n >= Laps - 2 \/ \E m \in 1..n : m \in Stops(c)
        /\ rows[c][n].failure = ProjectedFailure(n, rows[c][n].wear)

TimesInv == \A c \in Car : Summed(c) /\ Quickest(c) /\ ToldThen(c) /\ ChangedInTime(c)

LEMMA TimesInit == Init => TimesInv
<1> SUFFICES ASSUME Init, NEW c \in Car
             PROVE  Summed(c) /\ Quickest(c) /\ ToldThen(c) /\ ChangedInTime(c)
  BY DEF TimesInv
<1>1. /\ rows[c] = <<>> /\ events[c] = {} /\ total[c] = 0
      /\ best[c] = [lap |-> NoTime, sector |-> NoTime]
  BY DEF Init
<1>2. Ran(c) = {} /\ \A type : Told(c, type) = {}
  BY <1>1 DEF Ran, Told
<1>3. Summed(c)
  <2>1. SumFunctionOnSet(Times(rows[c]), {}) = 0 /\ Cardinality({}) = 0
    BY SumEmpty, FS_EmptySet
  <2>2. Ran(c) = {} /\ Stops(c) = {} /\ total[c] = 0
    BY <1>1, <1>2 DEF Stops
  <2>3. QED
    BY <2>1, <2>2, Numbers DEF Summed
<1>4. QED
  BY <1>1, <1>2, <1>3, Numbers DEF Quickest, ToldThen, ChangedInTime

\* The times of the laps, and of one lap more.
LEMMA TimesType ==
    ASSUME NEW r \in Seq(Row)
    PROVE  Times(r) \in [1..Len(r) -> Nat]
<1>1. \A n \in 1..Len(r) : r[n].time \in Nat
  <2>1. \A n \in 1..Len(r) : r[n] \in Row
    OBVIOUS
  <2>2. QED
    BY <2>1 DEF Row
<1>2. QED
  BY <1>1 DEF Times

LEMMA SumOfLaps ==
    ASSUME NEW r \in Seq(Row), NEW n \in 0..Len(r)
    PROVE  SumFunctionOnSet(Times(r), 1..n) \in Nat /\ IsFiniteSet(1..n)
<1>1. 1..n \in SUBSET (1..Len(r)) /\ IsFiniteSet(1..n)
  BY FS_Interval
<1>2. QED
  BY <1>1, TimesType, SumNat

LEMMA SumOfOneMore ==
    ASSUME NEW r \in Seq(Row), NEW row \in Row
    PROVE  SumFunctionOnSet(Times(Append(r, row)), 1..Len(r) + 1)
             = row.time + SumFunctionOnSet(Times(r), 1..Len(r))
<1> DEFINE ran == Len(r)
           S == 1..ran
           x == ran + 1
           f == Times(r)
           g == Times(Append(r, row))
<1>1. ran \in Nat /\ Append(r, row) \in Seq(Row) /\ Len(Append(r, row)) = x
  OBVIOUS
<1>2. IsFiniteSet(S) /\ x \notin S /\ S \cup {x} = 1..ran + 1
  <2> HIDE DEF ran
  <2>1. IsFiniteSet(1..ran)
    BY <1>1, FS_Interval
  <2>2. QED
    BY <1>1, <2>1
<1>3. f \in [S -> Int] /\ g \in [S \cup {x} -> Int]
  <2>1. f \in [1..ran -> Nat] /\ g \in [1..ran + 1 -> Nat]
    BY <1>1, TimesType
  <2>2. QED
    BY <1>2, <2>1
<1>4. g[x] = row.time /\ \A y \in S : g[y] = f[y]
  BY <1>1 DEF Times
<1> HIDE DEF S, x, f, g
<1>5. SumFunctionOnSet(g, S \cup {x}) = g[x] + SumFunctionOnSet(f, S)
  BY <1>2, <1>3, <1>4, SumExtend
<1>6. QED
  BY <1>2, <1>4, <1>5 DEF S, x, f, g

LEMMA TimesStep ==
    ASSUME TypeOK, TypeOK', StopInv, StopInv', TimesInv, NEW c \in Car, DriveLap(c)
    PROVE  TimesInv'
<1>1. PICK row \in Row, time \in Nat, worn \in 0..100, locked \in BOOLEAN, pits \in BOOLEAN :
        Driven(c, row, time, worn, locked, pits)
  BY LapDriven
<1>2. ASSUME NEW d \in Car, d # c
      PROVE  (Summed(d) /\ Quickest(d) /\ ToldThen(d) /\ ChangedInTime(d))'
  <2>1. /\ rows'[d] = rows[d] /\ events'[d] = events[d]
        /\ total'[d] = total[d] /\ best'[d] = best[d]
    BY <1>1, <1>2, OtherCarWaits
  <2>2. \A type : Told(d, type)' = Told(d, type)
    BY <2>1 DEF Told
  <2>3. Ran(d)' = Ran(d) /\ Stops(d)' = Stops(d)
    BY <2>1, <2>2 DEF Ran, Stops
  <2>4. Summed(d) /\ Quickest(d) /\ ToldThen(d) /\ ChangedInTime(d)
    BY DEF TimesInv
  <2>5. QED
    BY <2>1, <2>2, <2>3, <2>4 DEF Summed, Quickest, ToldThen, ChangedInTime
<1> DEFINE ran == Len(rows[c])
           lap == Lap(c)
           old == rows[c]
           new == rows'[c]
<1>3. /\ ran \in Nat /\ lap = ran + 1 /\ Len(new) = lap /\ new = Append(old, row)
      /\ new[lap] = row /\ \A n \in 1..ran : new[n] = old[n]
      /\ old \in Seq(Row) /\ new \in Seq(Row)
  <2>1. ran \in Nat /\ old \in Seq(Row) /\ new \in Seq(Row) /\ lap = ran + 1
    BY DEF TypeOK, Lap
  <2>2. new = Append(old, row)
    BY <1>1 DEF Driven, TypeOK
  <2> HIDE DEF old, new, lap
  <2>3. ran = Len(old)
    BY DEF old
  <2>4. Len(new) = lap /\ new[lap] = row /\ \A n \in 1..ran : new[n] = old[n]
    BY <2>1, <2>2, <2>3
  <2>5. QED
    BY <2>1, <2>2, <2>4
<1>4. /\ row.time = time /\ time \in 1..NoTime /\ row.sector \in 1..NoTime /\ row.wear = worn
      /\ row.delta = row.sector - best'[c].sector
      /\ row.failure = ProjectedFailure(lap, worn)
      /\ pits = Pits(plan[c], tyres[c].stint, lap, worn)
  BY <1>1 DEF Driven
<1>5. /\ total'[c] = total[c] + time + (IF pits THEN PitLoss ELSE 0)
      /\ best'[c].lap = Min({best[c].lap, time})
      /\ best'[c].sector = Min({best[c].sector, row.sector})
  <2>1. total'[c] = TotalAfter(c, time, pits) /\ best'[c] = BestWith(c, row)
    BY <1>1 DEF Driven, TypeOK
  <2>2. QED
    BY <1>4, <2>1 DEF TotalAfter, BestWith
<1>6. /\ Summed(c) /\ Quickest(c) /\ ToldThen(c) /\ ChangedInTime(c) /\ StopOpen(c) /\ StopOpen(c)'
      /\ total[c] \in Nat /\ best[c].lap \in 1..NoTime /\ best[c].sector \in 1..NoTime
  BY DEF TimesInv, StopInv, TypeOK
<1>7. /\ \A n : n \in Stops(c)' <=> n \in Stops(c) \/ (n = lap /\ pits)
      /\ \A n : n \in Told(c, "FASTEST_LAP")' <=> n \in Told(c, "FASTEST_LAP")
                                                  \/ (n = lap /\ time <= best[c].lap)
  BY <1>1, LapTells DEF Stops
<1> HIDE DEF ran, lap, old, new
<1>8. Summed(c)'
  <2>1. SumFunctionOnSet(Times(new), 1..lap) = time + SumFunctionOnSet(Times(old), 1..ran)
    BY <1>3, <1>4, SumOfOneMore DEF ran
  <2>2. SumFunctionOnSet(Times(old), 1..ran) \in Nat
    BY <1>3, SumOfLaps DEF ran, old
  <2>3. total[c] = SumFunctionOnSet(Times(old), 1..ran) + PitLoss * Cardinality(Stops(c))
    BY <1>6 DEF Summed, Ran, ran, old
  <2>4. /\ Cardinality(Stops(c)') =
              IF pits THEN Cardinality(Stops(c)) + 1 ELSE Cardinality(Stops(c))
        /\ Cardinality(Stops(c)) \in Nat
    <3>1. CASE pits
      <4>1. Stops(c) = {}
        BY <1>4, <1>6, <3>1 DEF Pits, StopOpen
      <4>2. \A n : n \in Stops(c)' <=> n = lap
        BY <1>7, <3>1, <4>1
      <4>3. Stops(c)' = {lap}
        BY <4>2, Zenon
      <4>4. Cardinality(Stops(c)) = 0 /\ Cardinality(Stops(c)') = 1
        BY <4>1, <4>3, FS_EmptySet, FS_Singleton
      <4>5. QED
        BY <3>1, <4>4
    <3>2. CASE ~pits
      <4>1. Stops(c)' = Stops(c)
        BY <1>7, <3>2
      <4>2. IsFiniteSet(Stops(c))
        <5>1. Stops(c) \subseteq 1..ran
          BY <1>6 DEF StopOpen, ran
        <5>2. IsFiniteSet(1..ran)
          <6>1. 1 \in Int /\ ran \in Int
            BY <1>3
          <6>2. QED
            BY <6>1, FS_Interval
        <5>3. QED
          BY <5>1, <5>2, FS_Subset
      <4>3. QED
        BY <3>2, <4>1, <4>2, FS_CardinalityType
    <3>3. QED
      BY <3>1, <3>2
  <2> DEFINE laps == SumFunctionOnSet(Times(old), 1..ran)
             stops == Cardinality(Stops(c))
  <2>5. total'[c] = (time + laps) + PitLoss * Cardinality(Stops(c)')
    <3>1. laps \in Nat /\ stops \in Nat /\ total[c] = laps + 22 * stops
      BY <2>2, <2>3, <2>4, Numbers
    <3>2. Cardinality(Stops(c)') = IF pits THEN stops + 1 ELSE stops
      BY <2>4
    <3>3. total'[c] = total[c] + time + (IF pits THEN 22 ELSE 0)
      BY <1>5, Numbers
    <3> HIDE DEF laps, stops
    <3>4. QED
      BY <3>1, <3>2, <3>3, Numbers
  <2>6. QED
    BY <1>3, <2>1, <2>5 DEF Summed, Ran, new
<1>9. Quickest(c)'
  <2>1. Ran(c)' = 1..lap /\ Ran(c) = 1..ran
    BY <1>3 DEF Ran, new, ran
  <2>2. /\ \A t \in 1..NoTime : t <= best'[c].lap <=> t <= best[c].lap /\ t <= time
        /\ \A t \in 1..NoTime : t <= best'[c].sector <=> t <= best[c].sector /\ t <= row.sector
    BY <1>4, <1>5, <1>6, MinOfTwo
  <2>3. \A n \in 1..lap : n \in 1..ran \/ n = lap
    BY <1>3
  <2>4. \A n \in 1..ran : n \in 1..lap
    BY <1>3
  <2>5. lap \in 1..lap
    BY <1>3
  <2>6. \A n \in 1..lap : new[n].time \in 1..NoTime /\ new[n].sector \in 1..NoTime
    BY <1>3, <1>4, <1>6, <2>1, <2>3 DEF Quickest, old
  <2>7. ASSUME NEW t \in 1..NoTime
        PROVE  /\ (\A n \in 1..lap : t <= new[n].time) <=>
                    (\A n \in 1..ran : t <= old[n].time) /\ t <= time
               /\ (\A n \in 1..lap : t <= new[n].sector) <=>
                    (\A n \in 1..ran : t <= old[n].sector) /\ t <= row.sector
    BY <1>3, <1>4, <2>3, <2>4, <2>5
  <2>8. QED
    BY <1>6, <2>1, <2>2, <2>6, <2>7 DEF Quickest, old, new
<1>10. ToldThen(c)'
  <2>1. Ran(c)' = 1..lap /\ Ran(c) = 1..ran
    BY <1>3 DEF Ran, new, ran
  <2>2. \A n \in 1..ran : \A m \in 1..n : m \in 1..ran /\ new[m] = old[m] /\ new[n] = old[n]
    BY <1>3
  <2>3. /\ time <= best[c].lap <=> \A m \in 1..ran : time <= old[m].time
        /\ row.sector <= best[c].sector <=> \A m \in 1..ran : row.sector <= old[m].sector
    BY <1>4, <1>6, <2>1 DEF Quickest, old
  <2>4. \A m \in 1..lap : m \in 1..ran \/ m = lap
    BY <1>3
  <2>5. \A m \in 1..ran : m \in 1..lap /\ m # lap
    BY <1>3
  <2>6. /\ time <= best[c].lap <=> \A m \in 1..lap : time <= new[m].time
        /\ row.sector <= best[c].sector <=> \A m \in 1..lap : row.sector <= new[m].sector
    BY <1>3, <1>4, <2>3, <2>4, <2>5
  <2>7. row.delta = 0 <=> row.sector <= best[c].sector
    BY <1>4, <1>5, <1>6, MinOfTwo
  <2>8. ASSUME NEW n
        PROVE  n \in Told(c, "FASTEST_LAP")' <=>
                 n \in 1..lap /\ \A m \in 1..n : new[n].time <= new[m].time
    <3>1. CASE n = lap
      <4>1. n \notin Told(c, "FASTEST_LAP")
        BY <1>6, <2>1, <2>5, <3>1 DEF ToldThen
      <4>2. n \in 1..lap /\ new[n].time = time
        BY <1>3, <1>4, <3>1
      <4>3. QED
        BY <1>7, <2>6, <3>1, <4>1, <4>2
    <3>2. CASE n # lap
      <4>1. n \in 1..lap <=> n \in 1..ran
        BY <2>4, <2>5, <3>2
      <4>2. n \in Told(c, "FASTEST_LAP") <=>
              n \in 1..ran /\ \A m \in 1..n : old[n].time <= old[m].time
        BY <1>6, <2>1 DEF ToldThen, old
      <4>3. QED
        BY <1>7, <2>2, <3>2, <4>1, <4>2
    <3>3. QED
      BY <3>1, <3>2
  <2>9. ASSUME NEW n \in 1..lap
        PROVE  new[n].delta = 0 <=> \A m \in 1..n : new[n].sector <= new[m].sector
    <3>1. CASE n = lap
      BY <1>3, <2>6, <2>7, <3>1
    <3>2. CASE n # lap
      <4>1. n \in 1..ran
        BY <2>4, <3>2
      <4>2. old[n].delta = 0 <=> \A m \in 1..n : old[n].sector <= old[m].sector
        BY <1>6, <2>1, <4>1 DEF ToldThen, old
      <4>3. QED
        BY <2>2, <4>1, <4>2
    <3>3. QED
      BY <3>1, <3>2
  <2>10. QED
    BY <2>1, <2>8, <2>9 DEF ToldThen, new
<1>11. ChangedInTime(c)'
  <2>1. Ran(c)' = 1..lap /\ Ran(c) = 1..ran
    BY <1>3 DEF Ran, new, ran
  <2>2. ASSUME NEW n \in 1..lap
        PROVE  /\ new[n].wear > 87 => n >= Laps - 2 \/ \E m \in 1..n : m \in Stops(c)'
               /\ new[n].failure = ProjectedFailure(n, new[n].wear)
    <3>1. CASE n # lap
      <4>1. n \in 1..ran /\ new[n] = old[n]
        BY <1>3, <3>1
      <4>2. /\ old[n].wear > 87 => n >= Laps - 2 \/ \E m \in 1..n : m \in Stops(c)
            /\ old[n].failure = ProjectedFailure(n, old[n].wear)
        BY <1>6, <2>1, <4>1 DEF ChangedInTime, old
      <4>3. QED
        BY <1>7, <4>1, <4>2
    <3>2. CASE n = lap
      <4>1. new[n].wear = worn /\ new[n].failure = ProjectedFailure(n, worn)
        BY <1>3, <1>4, <3>2
      <4>2. ASSUME worn > 87, ~(lap >= Laps - 2)
            PROVE  \E m \in 1..n : m \in Stops(c)'
        <5>1. lap < Laps - 2
          BY <1>3, <4>2, Numbers
        <5>2. CASE tyres[c].stint = 0
          <6>1. pits
            BY <1>4, <4>2, <5>1, <5>2 DEF Pits, ShouldPit
          <6>2. QED
            BY <1>7, <3>2, <6>1
        <5>3. CASE tyres[c].stint # 0
          <6>1. PICK m \in Stops(c) : m \in 1..ran
            BY <1>6, <5>3 DEF StopOpen, ran
          <6>2. m \in 1..n
            BY <1>3, <3>2, <6>1
          <6>3. QED
            BY <1>7, <6>1, <6>2
        <5>4. QED
          BY <5>2, <5>3
      <4>3. QED
        BY <3>2, <4>1, <4>2
    <3>3. QED
      BY <3>1, <3>2
  <2>3. QED
    BY <2>1, <2>2 DEF ChangedInTime, new
<1>12. QED
  BY <1>2, <1>8, <1>9, <1>10, <1>11 DEF TimesInv

LEMMA TimesNext == TypeOK /\ TypeOK' /\ StopInv /\ StopInv' /\ TimesInv /\ [Next]_vars => TimesInv'
<1>1. ASSUME TypeOK, TypeOK', StopInv, StopInv', TimesInv, NEW c \in Car, DriveLap(c)
      PROVE  TimesInv'
  BY <1>1, TimesStep
<1>2. ASSUME TimesInv, StoreResult \/ UNCHANGED vars
      PROVE  TimesInv'
  <2>1. UNCHANGED <<best, total, rows, events>>
    BY <1>2 DEF StoreResult, vars
  <2>2. \A c \in Car : Ran(c)' = Ran(c) /\ \A type : Told(c, type)' = Told(c, type)
    BY <2>1 DEF Ran, Told
  <2>3. \A c \in Car : Stops(c)' = Stops(c)
    BY <2>2 DEF Stops
  <2>4. ASSUME NEW c \in Car
        PROVE  (Summed(c) /\ Quickest(c) /\ ToldThen(c) /\ ChangedInTime(c))'
    <3>1. Summed(c) /\ Quickest(c) /\ ToldThen(c) /\ ChangedInTime(c)
      BY <1>2 DEF TimesInv
    <3>2. QED
      BY <2>1, <2>2, <2>3, <3>1 DEF Summed, Quickest, ToldThen, ChangedInTime
  <2>5. QED
    BY <2>4 DEF TimesInv
<1>3. QED
  BY <1>1, <1>2 DEF Next

LEMMA TimesTold == TimesInv => TimesAddUp
<1> SUFFICES ASSUME TimesInv, NEW c \in Car
             PROVE  /\ total[c] = SumFunctionOnSet(Times(rows[c]), Ran(c))
                                    + PitLoss * Cardinality(Stops(c))
                    /\ Told(c, "FASTEST_LAP") =
                          {n \in Ran(c) : \A m \in 1..n : rows[c][n].time <= rows[c][m].time}
  BY DEF TimesAddUp, Ran, Stops
<1>1. Summed(c) /\ ToldThen(c)
  BY DEF TimesInv
<1>2. QED
  BY <1>1 DEF Summed, ToldThen

(* totalRace is what the laps and the stops took, and FASTEST_LAP is told of    *)
(* the laps that none before them beats, however many laps there are.           *)
THEOREM TotalsAddUp == Spec => []TimesAddUp
<1>1. Init => TypeOK /\ StopInv /\ TimesInv
  BY TypeInit, StopInit, TimesInit
<1>2. (TypeOK /\ StopInv /\ TimesInv) /\ [Next]_vars => (TypeOK /\ StopInv /\ TimesInv)'
  BY TypeNext, StopNext, TimesNext
<1>3. TypeOK /\ StopInv /\ TimesInv => TimesAddUp
  BY TimesTold
<1>4. QED
  BY <1>1, <1>2, <1>3, PTL DEF Spec
-----------------------------------------------------------------------------
(* The stored result                                                       *)

LEMMA Least ==
    ASSUME NEW T, T \subseteq Nat, T # {}
    PROVE  Min(T) \in T /\ \A y \in T : Min(T) <= y
<1>1. \E n \in T : \A m \in T : n <= m
  BY MinimalNat
<1>2. QED
  BY <1>1 DEF Min

LEMMA Greatest ==
    ASSUME NEW k \in Nat, NEW T, T \subseteq 1..k, T # {}
    PROVE  Max(T) \in T /\ \A y \in T : Max(T) >= y
<1> DEFINE Below == {k - t : t \in T}
<1>1. Below \subseteq Nat /\ Below # {}
  <2>1. \A t \in T : k - t \in Nat
    OBVIOUS
  <2>2. QED
    BY <2>1
<1>2. PICK b \in Below : \A m \in Below : b <= m
  <2> HIDE DEF Below
  <2>1. QED
    BY <1>1, MinimalNat
<1>3. PICK t \in T : b = k - t
  BY <1>2
<1>4. \A y \in T : t >= y
  BY <1>2, <1>3
<1>5. QED
  BY <1>3, <1>4 DEF Max

\* What is stored was built of both races, and neither goes on.
ResultInv ==
    result # NoResult =>
        /\ \A c \in Car : Len(rows[c]) = Laps
        /\ result.winner = IF total["host"] = total["opponent"] THEN "nobody"
                           ELSE CHOOSE c \in Car : total[c] < total[Other(c)]
        /\ result.gap = Kept(Max({total["host"] - total["opponent"], total["opponent"] - total["host"]}))
        /\ result.side = [c \in Car |-> Stripped(c)]
        /\ result.timeline = Timeline(rows, events)

LEMMA ResultNext == TypeOK /\ ResultInv /\ [Next]_vars => ResultInv'
<1> SUFFICES ASSUME TypeOK, ResultInv, [Next]_vars
             PROVE  ResultInv'
  OBVIOUS
<1>1. ASSUME NEW c \in Car, DriveLap(c)
      PROVE  ResultInv'
  <2>1. Len(rows[c]) # Laps /\ result' = result
    BY <1>1 DEF DriveLap, Finished
  <2>2. result' = NoResult
    BY <2>1 DEF ResultInv
  <2>3. QED
    BY <2>2 DEF ResultInv, NoResult
<1>2. CASE StoreResult
  <2>1. UNCHANGED <<rows, total, best, events>> /\ \A c \in Car : Len(rows[c]) = Laps
    BY <1>2 DEF StoreResult, Finished
  <2>2. \A c \in Car : Stripped(c)' = Stripped(c)
    BY <2>1 DEF Stripped, Outcome
  <2>3. /\ result'.winner = IF total["host"] = total["opponent"] THEN "nobody"
                            ELSE CHOOSE c \in Car : total[c] < total[Other(c)]
        /\ result'.gap = Kept(Max({total["host"] - total["opponent"], total["opponent"] - total["host"]}))
        /\ result'.side = [c \in Car |-> Stripped(c)]
        /\ result'.timeline = Timeline(rows, events)
    BY <1>2 DEF StoreResult
  <2>4. Timeline(rows, events)' = Timeline(rows, events)
    BY <2>1
  <2>5. QED
    BY <2>1, <2>2, <2>3, <2>4 DEF ResultInv
<1>3. CASE UNCHANGED vars
  <2>1. UNCHANGED <<rows, total, best, events, result>>
    BY <1>3 DEF vars
  <2>2. \A c \in Car : Stripped(c)' = Stripped(c)
    BY <2>1 DEF Stripped, Outcome
  <2>3. QED
    BY <2>1, <2>2 DEF ResultInv
<1>4. QED
  BY <1>1, <1>2, <1>3 DEF Next

\* What holds of every state, and all of what the theorems below need.
RaceInv == TypeOK /\ StopInv /\ StintInv /\ TimesInv /\ ResultInv

LEMMA RaceInvariant == Spec => []RaceInv
<1>1. Init => RaceInv
  <2>1. Init => ResultInv
    BY DEF Init, ResultInv
  <2>2. QED
    BY <2>1, TypeInit, StopInit, StintInit, TimesInit DEF RaceInv
<1>2. RaceInv /\ [Next]_vars => RaceInv'
  BY TypeNext, StopNext, StintNext, TimesNext, ResultNext DEF RaceInv
<1>3. QED
  BY <1>1, <1>2, PTL DEF Spec

\* The rows of a stored result, and the best sector of each car.
LEMMA StoredRows ==
    ASSUME RaceInv, result # NoResult, NEW c \in Car
    PROVE  /\ rows[c] \in Seq(Row) /\ Len(rows[c]) = Laps /\ Other(c) \in Car
           /\ \A n \in 1..Laps : rows[c][n] \in Row
           /\ result.side[c].heatmap = Heatmap(rows[c], rows[Other(c)])
           /\ \E n \in 1..Laps :
                /\ Min({rows[c][i].sector : i \in 1..Laps}) = rows[c][n].sector
                /\ \A m \in 1..Laps : rows[c][n].sector <= rows[c][m].sector
<1>1. rows[c] \in Seq(Row) /\ Len(rows[c]) = Laps /\ Other(c) \in Car
  BY DEF RaceInv, TypeOK, ResultInv, Other, Car
<1>2. \A n \in 1..Laps : rows[c][n] \in Row /\ rows[c][n].sector \in Nat
  <2>1. \A n \in 1..Laps : rows[c][n] \in Row
    BY <1>1
  <2>2. QED
    BY <2>1 DEF Row
<1>3. result.side[c].heatmap = Heatmap(rows[c], rows[Other(c)])
  BY DEF RaceInv, ResultInv, Stripped
<1> DEFINE taken == {rows[c][i].sector : i \in 1..Laps}
<1>4. taken \subseteq Nat /\ taken # {}
  BY <1>2, Numbers
<1>5. Min(taken) \in taken /\ \A y \in taken : Min(taken) <= y
  <2> HIDE DEF taken
  <2>1. QED
    BY <1>4, Least
<1>6. QED
  BY <1>1, <1>2, <1>3, <1>5

LEMMA Marks ==
    ASSUME RaceInv, result # NoResult, NEW c \in Car, NEW n \in 1..Laps
    PROVE  /\ result.side[c].heatmap[n] = "pb" <=>
                \A m \in 1..Laps : rows[c][n].sector <= rows[c][m].sector
           /\ result.side[c].heatmap[n] # "pb" =>
                (result.side[c].heatmap[n] = "sb" <=>
                    rows[c][n].sector <= rows[Other(c)][n].sector)
<1>1. /\ Len(rows[c]) = Laps
      /\ \A m \in 1..Laps : rows[c][m] \in Row
      /\ result.side[c].heatmap = Heatmap(rows[c], rows[Other(c)])
  BY StoredRows
<1>2. PICK i \in 1..Laps : /\ Min({rows[c][j].sector : j \in 1..Laps}) = rows[c][i].sector
                           /\ \A m \in 1..Laps : rows[c][i].sector <= rows[c][m].sector
  BY StoredRows
<1>3. \A m \in 1..Laps : rows[c][m].sector \in Nat
  BY <1>1 DEF Row
<1>4. rows[c][n].sector = rows[c][i].sector <=>
        \A m \in 1..Laps : rows[c][n].sector <= rows[c][m].sector
  BY <1>2, <1>3
<1>5. result.side[c].heatmap[n] =
        IF rows[c][n].sector = rows[c][i].sector THEN "pb"
        ELSE IF rows[c][n].sector <= rows[Other(c)][n].sector THEN "sb"
        ELSE IF n > 1 /\ rows[c][n].sector < rows[c][n - 1].sector THEN "improved" ELSE "none"
  BY <1>1, <1>2 DEF Heatmap
<1>6. QED
  BY <1>4, <1>5

(* In every lap a driver who was not slower than the other is marked, a slower  *)
(* one only for a sector that none of his own beats, and each driver has one.   *)
THEOREM HeatmapsMark == Spec => []HeatmapsAgree
<1>1. RaceInv => HeatmapsAgree
  <2> SUFFICES ASSUME RaceInv, result # NoResult, NEW c \in Car
               PROVE  /\ \E n \in 1..Laps : result.side[c].heatmap[n] = "pb"
                      /\ \A n \in 1..Laps :
                           LET own == rows[c][n].sector
                               mark == result.side[c].heatmap[n]
                           IN  IF own <= rows[Other(c)][n].sector THEN mark \in Best
                               ELSE mark # "sb"
                                    /\ (mark = "pb" => \A m \in 1..Laps : own <= rows[c][m].sector)
    BY DEF HeatmapsAgree
  <2>1. \E n \in 1..Laps : result.side[c].heatmap[n] = "pb"
    <3>1. PICK n \in 1..Laps : \A m \in 1..Laps : rows[c][n].sector <= rows[c][m].sector
      BY StoredRows
    <3>2. result.side[c].heatmap[n] = "pb"
      BY <3>1, Marks
    <3>3. QED
      BY <3>2
  <2>2. QED
    BY <2>1, Marks DEF Best
<1>2. QED
  BY <1>1, RaceInvariant, PTL
-----------------------------------------------------------------------------
(* The timeline                                                            *)

\* How long car c has driven after lap n, and who leads.
Time(c, n) == SumFunctionOnSet(Times(rows[c]), 1..n)
Lead(n) == Leader(rows["host"], rows["opponent"])[n]

Equal(n) == Time("host", n) = Time("opponent", n)
InFront(n) == IF Time("host", n) < Time("opponent", n) THEN "host" ELSE "opponent"

\* g names the leader of each of the first k laps.
Leads(k, g) ==
    g = [n \in 1..k |-> IF ~Equal(n) THEN InFront(n) ELSE IF n = 1 THEN "host" ELSE g[n - 1]]

\* The recursive function of Leader exists.
LEMMA LeadsExist ==
    ASSUME NEW k \in Nat
    PROVE  \E g : Leads(k, g)
<1> DEFINE Without == {j \in Nat : ~\E g : Leads(j, g)}
<1>1. ASSUME ~\E g : Leads(k, g)
      PROVE  FALSE
  <2>1. PICK j \in Without : \A m \in Without : j <= m
    <3>1. Without \subseteq Nat /\ Without # {}
      BY <1>1
    <3> HIDE DEF Without
    <3>2. QED
      BY <3>1, MinimalNat
  <2>2. j \in Nat /\ ~\E g : Leads(j, g)
    BY <2>1
  <2> DEFINE step(g, n) == IF ~Equal(n) THEN InFront(n) ELSE IF n = 1 THEN "host" ELSE g[n - 1]
  <2>3. CASE j = 0
    <3> DEFINE e == [n \in 1..j |-> "host"]
    <3>1. e = [n \in 1..j |-> step(e, n)]
      BY <2>3
    <3>2. Leads(j, e)
      <4> HIDE DEF e
      <4>1. QED
        BY <3>1 DEF Leads
    <3>3. QED
      BY <2>2, <3>2
  <2>4. CASE j # 0
    <3>1. PICK g : Leads(j - 1, g)
      <4>1. j - 1 \in Nat /\ ~(j <= j - 1)
        BY <2>2, <2>4
      <4>2. QED
        BY <2>1, <4>1
    <3> DEFINE e == [n \in 1..j |-> step(g, n)]
    <3>2. \A n \in 1..j - 1 : g[n] = step(g, n)
      BY <3>1 DEF Leads
    <3>3. \A n \in 1..j : n # 1 => n - 1 \in 1..j - 1 /\ n - 1 \in 1..j
      BY <2>2
    <3>4. \A n \in 1..j : n # 1 => e[n - 1] = g[n - 1]
      BY <3>2, <3>3
    <3>5. \A n \in 1..j : e[n] = step(e, n)
      <4>1. ASSUME NEW n \in 1..j
            PROVE  step(g, n) = step(e, n)
        <5>1. n # 1 => e[n - 1] = g[n - 1]
          BY <3>4
        <5> HIDE DEF e
        <5>2. QED
          BY <5>1
      <4>2. \A n \in 1..j : e[n] = step(g, n)
        OBVIOUS
      <4> HIDE DEF e, step
      <4>3. QED
        BY <4>1, <4>2
    <3>6. e = [n \in 1..j |-> step(e, n)]
      <4>1. e = [n \in 1..j |-> e[n]]
        OBVIOUS
      <4> HIDE DEF e, step
      <4>2. QED
        BY <3>5, <4>1
    <3>7. Leads(j, e)
      <4> HIDE DEF e
      <4>1. QED
        BY <3>6 DEF Leads
    <3>8. QED
      BY <2>2, <3>7
  <2>5. QED
    BY <2>3, <2>4
<1>2. QED
  BY <1>1

LEMMA LeadIs ==
    ASSUME RaceInv, result # NoResult, NEW n \in 1..Laps
    PROVE  Lead(n) = IF ~Equal(n) THEN InFront(n) ELSE IF n = 1 THEN "host" ELSE Lead(n - 1)
<1> DEFINE h == Elapsed(rows["host"])
           o == Elapsed(rows["opponent"])
           L == CHOOSE g : g = [m \in 1..Laps |->
                    IF h[m] # o[m] THEN (IF h[m] < o[m] THEN "host" ELSE "opponent")
                    ELSE IF m = 1 THEN "host" ELSE g[m - 1]]
<1>1. Len(rows["host"]) = Laps /\ Len(rows["opponent"]) = Laps
  BY StoredRows DEF Car
<1>2. Leader(rows["host"], rows["opponent"]) = L
  BY <1>1 DEF Leader
<1>3. \A m \in 1..Laps : h[m] = Time("host", m) /\ o[m] = Time("opponent", m)
  BY <1>1 DEF Elapsed, Time
<1>4. ASSUME NEW g
      PROVE  Leads(Laps, g) <=> g = [m \in 1..Laps |->
                    IF h[m] # o[m] THEN (IF h[m] < o[m] THEN "host" ELSE "opponent")
                    ELSE IF m = 1 THEN "host" ELSE g[m - 1]]
  <2> DEFINE ours(m) == IF ~Equal(m) THEN InFront(m) ELSE IF m = 1 THEN "host" ELSE g[m - 1]
             theirs(m) == IF h[m] # o[m] THEN (IF h[m] < o[m] THEN "host" ELSE "opponent")
                          ELSE IF m = 1 THEN "host" ELSE g[m - 1]
  <2>1. \A m \in 1..Laps : ours(m) = theirs(m)
    <3> HIDE DEF h, o
    <3>1. QED
      BY <1>3 DEF Equal, InFront
  <2>2. [m \in 1..Laps |-> ours(m)] = [m \in 1..Laps |-> theirs(m)]
    <3> HIDE DEF ours, theirs
    <3>1. QED
      BY <2>1
  <2>3. QED
    BY <2>2 DEF Leads
<1>5. \E g : g = [m \in 1..Laps |->
                    IF h[m] # o[m] THEN (IF h[m] < o[m] THEN "host" ELSE "opponent")
                    ELSE IF m = 1 THEN "host" ELSE g[m - 1]]
  <2>1. PICK g : Leads(Laps, g)
    BY LeadsExist, Numbers
  <2>2. QED
    BY <1>4, <2>1
<1>6. Leads(Laps, L)
  <2>1. L = [m \in 1..Laps |->
                IF h[m] # o[m] THEN (IF h[m] < o[m] THEN "host" ELSE "opponent")
                ELSE IF m = 1 THEN "host" ELSE L[m - 1]]
    <3> HIDE DEF h, o
    <3>1. QED
      BY <1>5
  <2> HIDE DEF L
  <2>2. QED
    BY <1>4, <2>1
<1> HIDE DEF L
<1>7. QED
  BY <1>2, <1>6 DEF Leads, Lead

\* The leader is a car that is not behind.
LEMMA LeaderLeads ==
    ASSUME RaceInv, result # NoResult, NEW n \in 1..Laps
    PROVE  /\ Lead(n) \in Car
           /\ Time("host", n) \in Nat /\ Time("opponent", n) \in Nat
           /\ Time(Lead(n), n) <= Time(Other(Lead(n)), n)
<1> DEFINE Odd == {m \in 1..Laps : Lead(m) \notin Car}
<1>1. Lead(n) \in Car
  <2>1. ASSUME Odd # {}
        PROVE  FALSE
    <3>1. PICK j \in Odd : \A m \in Odd : j <= m
      <4>1. Odd \subseteq Nat
        BY Numbers
      <4> HIDE DEF Odd
      <4>2. QED
        BY <2>1, <4>1, MinimalNat
    <3>2. Lead(j) = IF ~Equal(j) THEN InFront(j) ELSE IF j = 1 THEN "host" ELSE Lead(j - 1)
      BY LeadIs
    <3>3. InFront(j) \in Car /\ "host" \in Car
      BY DEF InFront, Car
    <3>4. Equal(j) /\ j # 1 /\ Lead(j - 1) \notin Car
      BY <3>2, <3>3
    <3>5. j - 1 \in 1..Laps /\ ~(j <= j - 1)
      BY <3>4, Numbers
    <3>6. QED
      BY <3>1, <3>4, <3>5
  <2>2. QED
    BY <2>1
<1>2. \A c \in Car : Time(c, n) \in Nat
  <2>1. \A c \in Car : rows[c] \in Seq(Row) /\ n \in 0..Len(rows[c])
    BY StoredRows, Numbers
  <2>2. QED
    BY <2>1, SumOfLaps DEF Time
<1>3. CASE Equal(n)
  BY <1>1, <1>2, <1>3 DEF Equal, Car, Other
<1>4. CASE ~Equal(n)
  <2>1. Lead(n) = InFront(n)
    BY <1>4, LeadIs
  <2>2. QED
    BY <1>2, <1>4, <2>1 DEF Equal, InFront, Car, Other
<1>5. QED
  BY <1>1, <1>2, <1>3, <1>4 DEF Car

\* A lap in which the lead is taken.
Taken(m) == m \in 2..Laps /\ Lead(m) # Lead(m - 1)

\* Who takes the lead gets ahead, of a car that was not behind.
LEMMA TakenOver ==
    ASSUME RaceInv, result # NoResult, NEW m, Taken(m)
    PROVE  /\ m \in 2..Laps /\ m \in 1..Laps /\ m - 1 \in 1..Laps
           /\ Lead(m) \in Car /\ Lead(m - 1) = Other(Lead(m))
           /\ Time(Lead(m), m) < Time(Other(Lead(m)), m)
           /\ Time(Lead(m), m - 1) >= Time(Other(Lead(m)), m - 1)
<1>1. m \in 2..Laps /\ m \in 1..Laps /\ m - 1 \in 1..Laps /\ m # 1
  BY Numbers DEF Taken
<1>2. ~Equal(m) /\ Lead(m) = InFront(m)
  <2>1. Lead(m) = IF ~Equal(m) THEN InFront(m) ELSE IF m = 1 THEN "host" ELSE Lead(m - 1)
    BY <1>1, LeadIs
  <2>2. QED
    BY <1>1, <2>1 DEF Taken
<1>3. Lead(m) \in Car /\ Lead(m - 1) \in Car /\ Lead(m) # Lead(m - 1)
  BY <1>1, LeaderLeads DEF Taken
<1>4. Lead(m - 1) = Other(Lead(m)) /\ Other(Lead(m - 1)) = Lead(m)
  BY <1>3 DEF Car, Other
<1>5. /\ Time("host", m) \in Nat /\ Time("opponent", m) \in Nat
      /\ Time("host", m - 1) \in Nat /\ Time("opponent", m - 1) \in Nat
      /\ Time(Lead(m - 1), m - 1) <= Time(Other(Lead(m - 1)), m - 1)
  BY <1>1, LeaderLeads
<1>6. Time(Lead(m), m) < Time(Other(Lead(m)), m)
  BY <1>2, <1>5 DEF Equal, InFront, Other
<1>7. Time(Lead(m), m - 1) >= Time(Other(Lead(m)), m - 1)
  BY <1>3, <1>4, <1>5 DEF Car, Other
<1>8. QED
  BY <1>1, <1>3, <1>4, <1>6, <1>7

\* Where the lead is not the same, it was taken in between, first of all from the former leader.
LEMMA TakenBetween ==
    ASSUME RaceInv, result # NoResult, NEW i \in 1..Laps, NEW j \in 1..Laps, i < j,
           Lead(i) # Lead(j)
    PROVE  \E m \in i + 1..j : Taken(m) /\ Lead(m) # Lead(i)
<1> DEFINE Later == {m \in i + 1..j : Lead(m) # Lead(i)}
<1>1. Later \subseteq Nat /\ Later # {}
  <2>1. j \in Later /\ Later \subseteq Nat
    OBVIOUS
  <2> HIDE DEF Later
  <2>2. QED
    BY <2>1
<1>2. PICK m \in Later : \A k \in Later : m <= k
  <2> HIDE DEF Later
  <2>1. QED
    BY <1>1, MinimalNat
<1>3. m \in i + 1..j /\ Lead(m) # Lead(i) /\ m \in 2..Laps
  BY <1>2, Numbers
<1>4. Lead(m - 1) = Lead(i)
  <2>1. CASE m = i + 1
    <3>1. m - 1 = i
      BY <2>1
    <3>2. QED
      BY <3>1
  <2>2. CASE m # i + 1
    <3>1. m - 1 \in i + 1..j /\ ~(m <= m - 1)
      BY <1>3, <2>2
    <3>2. QED
      BY <1>2, <3>1
  <2>3. QED
    BY <2>1, <2>2
<1>5. QED
  BY <1>3, <1>4 DEF Taken

\* The timeline tells each lap in which the lead is taken, and no other.
LEMMA LeadToldIs ==
    ASSUME RaceInv, result # NoResult, NEW n, NEW e
    PROVE  e \in LeadTold(n) <=>
             \E m : Taken(m) /\ m <= n
                    /\ e = [lap |-> m, type |-> "LEAD_CHANGE", side |-> Lead(m)]
<1>1. result.timeline = Merged(events) \cup LeadChanges(rows["host"], rows["opponent"])
  BY DEF RaceInv, ResultInv, Timeline
<1>2. \A f \in Merged(events) : f.type # "LEAD_CHANGE"
  <2>1. ASSUME NEW f \in Merged(events)
        PROVE  f.type # "LEAD_CHANGE"
    <3>1. PICK c \in Car : \E d \in events[c] : f = [lap |-> d.lap, type |-> d.type, side |-> c]
      BY <2>1 DEF Merged
    <3>2. PICK d \in events[c] : f = [lap |-> d.lap, type |-> d.type, side |-> c]
      BY <3>1
    <3>3. d \in Event
      BY <3>2 DEF RaceInv, TypeOK
    <3>4. d.type \in EventType
      BY <3>3 DEF Event
    <3>5. QED
      BY <3>2, <3>4 DEF EventType
  <2>2. QED
    BY <2>1
<1>3. LeadChanges(rows["host"], rows["opponent"]) =
        {[lap |-> m, type |-> "LEAD_CHANGE", side |-> Lead(m)] :
            m \in {k \in 2..Laps : Lead(k) # Lead(k - 1)}}
  <2>1. Len(rows["host"]) = Laps
    BY StoredRows DEF Car
  <2>2. QED
    BY <2>1 DEF LeadChanges, Lead
<1>4. e \in LeadChanges(rows["host"], rows["opponent"]) <=>
        \E m : Taken(m) /\ e = [lap |-> m, type |-> "LEAD_CHANGE", side |-> Lead(m)]
  BY <1>3 DEF Taken
<1>5. \A m : e = [lap |-> m, type |-> "LEAD_CHANGE", side |-> Lead(m)]
               => e.lap = m /\ e.type = "LEAD_CHANGE"
  OBVIOUS
<1>6. e \in LeadTold(n) <=>
        /\ e \in Merged(events) \/ e \in LeadChanges(rows["host"], rows["opponent"])
        /\ e.type = "LEAD_CHANGE" /\ e.lap <= n
  BY <1>1 DEF LeadTold
<1>7. QED
  BY <1>2, <1>4, <1>5, <1>6

LEMMA LapsLed ==
    ASSUME RaceInv, result # NoResult, NEW n \in 1..Laps
    PROVE  /\ LeadTold(n) = {} =>
                LET first == IF Time("host", 1) <= Time("opponent", 1) THEN "host" ELSE "opponent"
                IN  Time(first, n) <= Time(Other(first), n)
           /\ LeadTold(n) # {} =>
                \E e \in LeadTold(n) :
                    /\ \A f \in LeadTold(n) : f.lap <= e.lap
                    /\ Time(e.side, n) <= Time(Other(e.side), n)
                    /\ Time(e.side, e.lap) < Time(Other(e.side), e.lap)
<1>1. 1 \in 1..Laps
  BY Numbers
<1>2. ASSUME LeadTold(n) = {}
      PROVE  LET first == IF Time("host", 1) <= Time("opponent", 1) THEN "host" ELSE "opponent"
             IN  Time(first, n) <= Time(Other(first), n)
  <2>1. \A m : Taken(m) => ~(m <= n)
    BY <1>2, LeadToldIs
  <2>2. Lead(1) = IF Time("host", 1) <= Time("opponent", 1) THEN "host" ELSE "opponent"
    <3>1. Lead(1) = IF ~Equal(1) THEN InFront(1) ELSE "host"
      BY <1>1, LeadIs
    <3>2. Time("host", 1) \in Nat /\ Time("opponent", 1) \in Nat
      BY <1>1, LeaderLeads
    <3>3. QED
      BY <3>1, <3>2 DEF Equal, InFront
  <2>3. Lead(n) = Lead(1)
    <3>1. CASE n = 1
      BY <3>1
    <3>2. CASE n # 1
      <4>1. 1 < n /\ \A m \in 1 + 1..n : m <= n
        BY <3>2, Numbers
      <4>2. QED
        BY <1>1, <2>1, <4>1, TakenBetween
    <3>3. QED
      BY <3>1, <3>2
  <2>4. Time(Lead(n), n) <= Time(Other(Lead(n)), n)
    BY LeaderLeads
  <2>5. QED
    BY <2>2, <2>3, <2>4
<1>3. ASSUME LeadTold(n) # {}
      PROVE  \E e \in LeadTold(n) :
                /\ \A f \in LeadTold(n) : f.lap <= e.lap
                /\ Time(e.side, n) <= Time(Other(e.side), n)
                /\ Time(e.side, e.lap) < Time(Other(e.side), e.lap)
  <2> DEFINE laps == {m \in 1..n : Taken(m)}
  <2>1. laps # {} /\ laps \subseteq 1..n /\ n \in Nat
    <3>1. PICK m : Taken(m) /\ m <= n
      BY <1>3, LeadToldIs
    <3>2. m \in 1..n
      BY <3>1, Numbers DEF Taken
    <3>3. QED
      BY <3>1, <3>2, Numbers
  <2>2. PICK k \in laps : \A m \in laps : k >= m
    <3> HIDE DEF laps
    <3>1. QED
      BY <2>1, Greatest
  <2>3. Taken(k) /\ k \in 1..n /\ k <= n
    BY <2>2, Numbers
  <2> DEFINE e == [lap |-> k, type |-> "LEAD_CHANGE", side |-> Lead(k)]
  <2>4. e \in LeadTold(n)
    BY <2>3, LeadToldIs
  <2>5. \A f \in LeadTold(n) : f.lap <= k
    <3>1. ASSUME NEW f \in LeadTold(n)
          PROVE  f.lap <= k
      <4>1. PICK m : Taken(m) /\ m <= n /\ f = [lap |-> m, type |-> "LEAD_CHANGE", side |-> Lead(m)]
        BY <3>1, LeadToldIs
      <4>2. m \in 1..n /\ f.lap = m
        BY <4>1, Numbers DEF Taken
      <4>3. m \in laps
        BY <4>1, <4>2
      <4>4. QED
        BY <2>2, <2>3, <4>2, <4>3
    <3>2. QED
      BY <3>1
  <2>6. Lead(n) = Lead(k)
    <3>1. CASE k = n
      BY <3>1
    <3>2. CASE k # n
      <4>1. k < n /\ k \in 1..Laps /\ k \in 1..n
        BY <2>3, <3>2, Numbers
      <4>2. ASSUME Lead(k) # Lead(n)
            PROVE  FALSE
        <5>1. PICK m \in k + 1..n : Taken(m)
          BY <4>1, <4>2, TakenBetween
        <5>2. m \in 1..n /\ ~(k >= m)
          BY <4>1, <5>1
        <5>3. QED
          BY <2>2, <5>1, <5>2
      <4>3. QED
        BY <4>2
    <3>3. QED
      BY <3>1, <3>2
  <2>7. Time(Lead(k), n) <= Time(Other(Lead(k)), n) /\ Time(Lead(k), k) < Time(Other(Lead(k)), k)
    BY <2>3, <2>6, LeaderLeads, TakenOver
  <2>8. e.lap = k /\ e.side = Lead(k)
    OBVIOUS
  <2> HIDE DEF e
  <2>9. QED
    BY <2>4, <2>5, <2>7, <2>8
<1>4. QED
  BY <1>2, <1>3

LEMMA ChangesAlternate ==
    ASSUME RaceInv, result # NoResult, NEW e \in LeadTold(Laps)
    PROVE  /\ e.lap > 1 /\ Time(e.side, e.lap - 1) >= Time(Other(e.side), e.lap - 1)
           /\ \A f \in LeadTold(e.lap - 1) :
                f.side = e.side => \E g \in LeadTold(e.lap - 1) :
                                        g.side # e.side /\ g.lap > f.lap
<1>1. PICK m : Taken(m) /\ e = [lap |-> m, type |-> "LEAD_CHANGE", side |-> Lead(m)]
  BY LeadToldIs
<1>2. e.lap = m /\ e.side = Lead(m) /\ m \in 2..Laps /\ m - 1 \in 1..Laps
  BY <1>1, TakenOver
<1>3. m > 1 /\ Time(Lead(m), m - 1) >= Time(Other(Lead(m)), m - 1) /\ Lead(m - 1) # Lead(m)
  BY <1>1, <1>2, TakenOver DEF Taken
<1>4. ASSUME NEW f \in LeadTold(m - 1), f.side = Lead(m)
      PROVE  \E g \in LeadTold(m - 1) : g.side # Lead(m) /\ g.lap > f.lap
  <2>1. PICK k : Taken(k) /\ k <= m - 1
                 /\ f = [lap |-> k, type |-> "LEAD_CHANGE", side |-> Lead(k)]
    BY <1>4, LeadToldIs
  <2>2. f.lap = k /\ Lead(k) = Lead(m) /\ k \in 1..Laps
    BY <1>4, <2>1, TakenOver
  <2>3. k < m - 1
    BY <1>2, <1>3, <2>1, <2>2
  <2>4. PICK i \in k + 1..m - 1 : Taken(i) /\ Lead(i) # Lead(k)
    BY <1>2, <1>3, <2>2, <2>3, TakenBetween
  <2> DEFINE g == [lap |-> i, type |-> "LEAD_CHANGE", side |-> Lead(i)]
  <2>5. i <= m - 1 /\ i > k
    BY <1>2, <2>2, <2>4
  <2>6. g \in LeadTold(m - 1) /\ g.side = Lead(i) /\ g.lap = i
    BY <2>4, <2>5, LeadToldIs
  <2> HIDE DEF g
  <2>7. QED
    BY <2>2, <2>4, <2>5, <2>6
<1>5. QED
  BY <1>2, <1>3, <1>4

\* The race time less what the stops took is what the laps took.
LEMMA LapsTook ==
    ASSUME RaceInv, result # NoResult, NEW c \in Car
    PROVE  total[c] - PitLoss * Cardinality(Told(c, "PIT_STOP")) = Time(c, Laps)
<1>1. Summed(c) /\ Ran(c) = 1..Laps /\ Stops(c) \subseteq 1..Laps
  BY StoredRows DEF RaceInv, TimesInv, StopInv, StopOpen, Ran
<1>2. Cardinality(Stops(c)) \in Nat
  <2>1. IsFiniteSet(1..Laps)
    BY FS_Interval, Numbers
  <2>2. QED
    BY <1>1, <2>1, FS_Subset, FS_CardinalityType
<1>3. Time(c, Laps) \in Nat
  <2>1. Laps \in 1..Laps
    BY Numbers
  <2>2. QED
    BY <2>1, LeaderLeads DEF Car
<1>4. total[c] = Time(c, Laps) + PitLoss * Cardinality(Stops(c))
  BY <1>1 DEF Summed, Time
<1>5. PitLoss * Cardinality(Stops(c)) \in Nat
  BY <1>2 DEF PitLoss
<1>6. QED
  BY <1>3, <1>4, <1>5 DEF Stops

(* The side of the latest LEAD_CHANGE is not behind on lap times, nor is, before *)
(* any, who led after the first lap; a change is told in the lap in which its    *)
(* side gets ahead, and the sides of the changes alternate.  By the race time    *)
(* the last of them is behind by no more than his stops cost him.                *)
THEOREM TimelineNamesLead == Spec => []TimelineTellsLead
<1>1. RaceInv => TimelineTellsLead
  <2>1. ASSUME RaceInv, result # NoResult
        PROVE  TimelineTellsLead
    <3> DEFINE stopped(c) == PitLoss * Cardinality(Told(c, "PIT_STOP"))
    <3>1. ASSUME NEW n \in 1..Laps, NEW e \in LeadTold(n), Time(e.side, n) <= Time(Other(e.side), n)
          PROVE  n = Laps => total[e.side] - stopped(e.side)
                                <= total[Other(e.side)] - stopped(Other(e.side))
      <4>1. e.side \in Car
        BY <2>1, <3>1, LeadToldIs, TakenOver
      <4>2. Other(e.side) \in Car
        BY <4>1 DEF Other, Car
      <4>3. QED
        BY <2>1, <3>1, <4>1, <4>2, LapsTook
    <3>2. \A n \in 1..Laps : LeadTold(n) # {} =>
            \E e \in LeadTold(n) :
                /\ \A f \in LeadTold(n) : f.lap <= e.lap
                /\ Time(e.side, n) <= Time(Other(e.side), n)
                /\ Time(e.side, e.lap) < Time(Other(e.side), e.lap)
                /\ n = Laps => total[e.side] - stopped(e.side)
                                <= total[Other(e.side)] - stopped(Other(e.side))
      <4> HIDE DEF stopped
      <4>1. QED
        BY <2>1, <3>1, LapsLed
    <3>3. QED
      BY <2>1, <3>2, LapsLed, ChangesAlternate DEF TimelineTellsLead, Time
  <2>2. QED
    BY <2>1 DEF TimelineTellsLead
<1>2. QED
  BY <1>1, RaceInvariant, PTL
-----------------------------------------------------------------------------
(* The charts                                                              *)

\* The laps where the delta chart touches zero: those that no lap beats.
LEMMA DeltaChart ==
    ASSUME RaceInv, result # NoResult, NEW c \in Car, NEW n \in 1..Laps
    PROVE  LapDeltaChart(rows[c])[n].delta = 0 <=>
             \A m \in 1..Laps : rows[c][n].time <= rows[c][m].time
<1> DEFINE taken == {rows[c][m].time : m \in 1..Laps}
<1>1. Len(rows[c]) = Laps /\ \A m \in 1..Laps : rows[c][m].time \in Nat
  <2>1. Len(rows[c]) = Laps /\ \A m \in 1..Laps : rows[c][m] \in Row
    BY StoredRows
  <2>2. QED
    BY <2>1 DEF Row
<1>2. taken \subseteq Nat /\ taken # {}
  BY <1>1
<1>3. Min(taken) \in taken /\ \A y \in taken : Min(taken) <= y
  <2> HIDE DEF taken
  <2>1. QED
    BY <1>2, Least
<1>4. PICK i \in 1..Laps : Min(taken) = rows[c][i].time
  BY <1>3
<1>5. \A m \in 1..Laps : rows[c][i].time <= rows[c][m].time
  BY <1>3, <1>4
<1>6. LapDeltaChart(rows[c])[n].delta = rows[c][n].time - rows[c][i].time
  BY <1>1, <1>4 DEF LapDeltaChart
<1>7. QED
  BY <1>1, <1>5, <1>6

\* The last lap told as fastest is the last of them.
LEMMA FastestShown ==
    ASSUME RaceInv, result # NoResult, NEW c \in Car
    PROVE  Max(Told(c, "FASTEST_LAP")) = Max({n \in 1..Laps : LapDeltaChart(rows[c])[n].delta = 0})
<1> DEFINE told == Told(c, "FASTEST_LAP")
           zero == {n \in 1..Laps : LapDeltaChart(rows[c])[n].delta = 0}
<1>1. Len(rows[c]) = Laps /\ \A m \in 1..Laps : rows[c][m].time \in Nat
  <2>1. Len(rows[c]) = Laps /\ \A m \in 1..Laps : rows[c][m] \in Row
    BY StoredRows
  <2>2. QED
    BY <2>1 DEF Row
<1>2. \A n : n \in told <=> n \in 1..Laps /\ \A m \in 1..n : rows[c][n].time <= rows[c][m].time
  BY <1>1 DEF RaceInv, TimesInv, ToldThen, Ran
<1>3. \A n : n \in zero <=> n \in 1..Laps /\ \A m \in 1..Laps : rows[c][n].time <= rows[c][m].time
  BY DeltaChart
<1>4. zero # {}
  <2> DEFINE taken == {rows[c][m].time : m \in 1..Laps}
  <2>1. taken \subseteq Nat /\ taken # {}
    BY <1>1, Numbers
  <2>2. PICK t \in taken : \A y \in taken : t <= y
    <3> HIDE DEF taken
    <3>1. QED
      BY <2>1, MinimalNat
  <2>3. PICK n \in 1..Laps : t = rows[c][n].time
    BY <2>2
  <2>4. \A m \in 1..Laps : rows[c][n].time <= rows[c][m].time
    BY <2>2, <2>3
  <2> HIDE DEF zero
  <2>5. QED
    BY <1>3, <2>4
<1>5. told \subseteq 1..Laps /\ zero \subseteq 1..Laps
  BY <1>2
<1> HIDE DEF told, zero
<1>6. Max(zero) \in zero /\ \A n \in zero : Max(zero) >= n
  BY <1>4, <1>5, Greatest, Numbers
<1> DEFINE z == Max(zero)
<1>7. z \in 1..Laps /\ z \in told
  <2>1. z \in 1..Laps /\ \A m \in 1..Laps : rows[c][z].time <= rows[c][m].time
    BY <1>3, <1>6
  <2>2. \A m \in 1..z : m \in 1..Laps
    BY <2>1, Numbers
  <2>3. QED
    BY <1>2, <2>1, <2>2
<1>8. ASSUME NEW t \in told
      PROVE  t <= z
  <2>1. SUFFICES ASSUME ~(t <= z)
                 PROVE  FALSE
    OBVIOUS
  <2>2. t \in 1..Laps /\ z \in 1..t
    BY <1>2, <1>7, <1>8, <2>1
  <2>3. rows[c][t].time <= rows[c][z].time
    BY <1>2, <1>8, <2>2
  <2>4. \A m \in 1..Laps : rows[c][t].time <= rows[c][m].time
    BY <1>1, <1>3, <1>6, <1>7, <2>2, <2>3
  <2>5. t \in zero
    BY <1>3, <2>2, <2>4
  <2>6. QED
    BY <1>6, <2>1, <2>5
<1>9. Max(told) \in told /\ \A n \in told : Max(told) >= n
  BY <1>5, <1>7, Greatest, Numbers
<1>10. Max(told) \in 1..Laps /\ Max(told) <= z /\ Max(told) >= z
  BY <1>5, <1>7, <1>8, <1>9
<1>11. QED
  BY <1>7, <1>10 DEF told, zero

LEMMA SessionCharts ==
    ASSUME RaceInv, result # NoResult, NEW c \in Car, NEW n \in 1..Laps
    PROVE  LET shown == Charts(rows[c]) IN
           /\ result.side[c].heatmap[n] = "pb" <=> rows[c][n].sector = shown.sectors.best
           /\ result.side[c].heatmap[n] = "pb" => rows[c][n].delta = 0
           /\ shown.degradation[n].wear > 87 =>
                 n >= Laps - 2 \/ \E m \in 1..n : m \in Told(c, "PIT_STOP")
           /\ rows[c][n].failure # NoFailure => shown.degradation[n].cliff
<1>1. /\ Len(rows[c]) = Laps
      /\ \A m \in 1..Laps : rows[c][m] \in Row
  BY StoredRows
<1>2. \A m \in 1..Laps : rows[c][m].sector \in Nat /\ rows[c][m].wear \in Nat
  BY <1>1 DEF Row
<1>3. PICK i \in 1..Laps : /\ Min({rows[c][j].sector : j \in 1..Laps}) = rows[c][i].sector
                           /\ \A m \in 1..Laps : rows[c][i].sector <= rows[c][m].sector
  BY StoredRows
<1>4. Charts(rows[c]).sectors.best = rows[c][i].sector
  BY <1>1, <1>3 DEF Charts, SectorPerformance
<1>5. result.side[c].heatmap[n] = "pb" <=>
        \A m \in 1..Laps : rows[c][n].sector <= rows[c][m].sector
  BY Marks
<1>6. result.side[c].heatmap[n] = "pb" <=> rows[c][n].sector = rows[c][i].sector
  BY <1>2, <1>3, <1>5
<1>7. n \in Ran(c) /\ \A m \in 1..n : m \in 1..Laps
  BY <1>1, Numbers DEF Ran
<1>8. ToldThen(c) /\ ChangedInTime(c)
  BY DEF RaceInv, TimesInv
<1>9. result.side[c].heatmap[n] = "pb" => rows[c][n].delta = 0
  BY <1>5, <1>7, <1>8 DEF ToldThen
<1>10. Charts(rows[c]).degradation[n].wear = rows[c][n].wear
       /\ (Charts(rows[c]).degradation[n].cliff <=> rows[c][n].wear > 85)
  BY <1>1 DEF Charts, DegradationCurve
<1>11. rows[c][n].failure # NoFailure => rows[c][n].wear > 85
  <2>1. rows[c][n].failure = ProjectedFailure(n, rows[c][n].wear)
    BY <1>7, <1>8 DEF ChangedInTime
  <2>2. QED
    BY <1>2, <2>1 DEF ProjectedFailure
<1>12. rows[c][n].wear > 87 => n >= Laps - 2 \/ \E m \in 1..n : m \in Told(c, "PIT_STOP")
  BY <1>7, <1>8 DEF ChangedInTime, Stops
<1>13. QED
  BY <1>4, <1>6, <1>9, <1>10, <1>11, <1>12

\* What is kept of a time is half a Grain off at most.
LEMMA KeptNear ==
    ASSUME NEW t \in Int
    PROVE  Kept(t) \in Int /\ 2 * (Kept(t) - t) \in -Grain..Grain
<1>1. Grain \in Nat \ {0}
  BY RaceDataAssumption
<1>2. ASSUME NEW u \in Nat
      PROVE  KeptOf(u) \in Int /\ 2 * (KeptOf(u) - u) \in -Grain..Grain
  <2>1. u % Grain \in 0..Grain - 1
    BY <1>1
  <2> DEFINE over == u % Grain
  <2>2. over \in 0..Grain - 1
    BY <2>1
  <2>3. KeptOf(u) = IF 2 * over >= Grain THEN u - over + Grain ELSE u - over
    BY DEF KeptOf
  <2> HIDE DEF over
  <2>4. QED
    BY <1>1, <2>2, <2>3
<1>3. CASE t < 0
  <2>1. -t \in Nat /\ Kept(t) = -KeptOf(-t)
    BY <1>3 DEF Kept
  <2>2. KeptOf(-t) \in Int /\ 2 * (KeptOf(-t) - (-t)) \in -Grain..Grain
    BY <1>2, <2>1
  <2>3. QED
    BY <1>1, <2>1, <2>2
<1>4. CASE ~(t < 0)
  BY <1>2, <1>4 DEF Kept
<1>5. QED
  BY <1>3, <1>4

\* What the comparison of the laps adds up to, with the stops.
Ahead == SumFunction([n \in 1..Laps |-> LapComparison(rows["host"], rows["opponent"])[n].delta])
            + PitLoss * (Cardinality(Stops("opponent")) - Cardinality(Stops("host")))

LEMMA AheadIs ==
    ASSUME RaceInv, result # NoResult
    PROVE  /\ total["host"] \in Nat /\ total["opponent"] \in Nat
           /\ Ahead \in Int
           /\ 2 * (Ahead - (total["opponent"] - total["host"])) \in -(Laps * Grain)..Laps * Grain
<1> DEFINE S == 1..Laps
           f == Times(rows["host"])
           h == Times(rows["opponent"])
           d == [n \in 1..Laps |-> h[n] - f[n]]
           g == [n \in 1..Laps |-> LapComparison(rows["host"], rows["opponent"])[n].delta]
<1>1. \A c \in Car : /\ rows[c] \in Seq(Row) /\ Len(rows[c]) = Laps
                     /\ \A n \in 1..Laps : rows[c][n].time \in Nat
  <2>1. \A c \in Car : /\ rows[c] \in Seq(Row) /\ Len(rows[c]) = Laps
                       /\ \A n \in 1..Laps : rows[c][n] \in Row
    BY StoredRows
  <2>2. QED
    BY <2>1 DEF Row
<1>2. f \in [S -> Int] /\ h \in [S -> Int]
  <2>1. \A c \in Car : Times(rows[c]) \in [1..Laps -> Nat]
    BY <1>1, TimesType
  <2>2. QED
    BY <2>1 DEF Car
<1>3. \A n \in S : /\ f[n] = rows["host"][n].time /\ h[n] = rows["opponent"][n].time
                   /\ g[n] = Kept(rows["opponent"][n].time - rows["host"][n].time)
  BY <1>1 DEF Times, LapComparison, Car
<1>a. \A n \in S : /\ d[n] \in Int /\ h[n] = f[n] + d[n]
                   /\ g[n] \in Int /\ 2 * (g[n] - d[n]) \in -Grain..Grain
  <2>1. ASSUME NEW n \in S
        PROVE  /\ d[n] \in Int /\ h[n] = f[n] + d[n]
               /\ g[n] \in Int /\ 2 * (g[n] - d[n]) \in -Grain..Grain
    <3>1. h[n] \in Int /\ f[n] \in Int
      BY <1>2
    <3>2. d[n] = h[n] - f[n] /\ g[n] = Kept(h[n] - f[n])
      BY <1>3
    <3> HIDE DEF f, h, d, g
    <3>3. h[n] - f[n] \in Int
      BY <3>1
    <3>4. Kept(h[n] - f[n]) \in Int /\ 2 * (Kept(h[n] - f[n]) - (h[n] - f[n])) \in -Grain..Grain
      BY <3>3, KeptNear
    <3>5. QED
      BY <3>1, <3>2, <3>3, <3>4
  <2>2. QED
    BY <2>1
<1>b. d \in [S -> Int]
  BY <1>a
<1>4. g \in [S -> Int]
  <2>1. \A n \in S : g[n] \in Int
    BY <1>a
  <2>2. g = [n \in S |-> g[n]]
    OBVIOUS
  <2> HIDE DEF g
  <2>3. QED
    BY <2>1, <2>2
<1>5. IsFiniteSet(S) /\ DOMAIN g = S
  BY FS_Interval, Numbers
<1> HIDE DEF f, h, d, g
<1>6. 2 * (SumFunctionOnSet(g, S) - SumFunctionOnSet(d, S)) \in -(Laps * Grain)..Laps * Grain
  <2>1. Laps \in Nat /\ Grain \in Nat
    BY Numbers, RaceDataAssumption
  <2>2. \A n \in 1..Laps : 2 * (g[n] - d[n]) \in -Grain..Grain
    BY <1>a
  <2>3. QED
    BY <1>4, <1>b, <2>1, <2>2, SumWithin
<1> HIDE DEF S
<1>7. SumFunctionOnSet(h, S) = SumFunctionOnSet(f, S) + SumFunctionOnSet(d, S)
  <2>1. S \in SUBSET S /\ \A n \in S : h[n] = IF n \in S THEN f[n] + d[n] ELSE f[n]
    BY <1>a
  <2>2. QED
    BY <1>2, <1>b, <1>5, <2>1, SumPlus
<1>8. /\ SumFunctionOnSet(f, S) \in Int /\ SumFunctionOnSet(g, S) \in Int
      /\ SumFunctionOnSet(d, S) \in Int
  BY <1>2, <1>4, <1>b, <1>5, SumType
<1>9. SumFunction(g) = SumFunctionOnSet(g, S)
  BY <1>5 DEF SumFunction
<1>10. /\ total["host"] = SumFunctionOnSet(f, S) + PitLoss * Cardinality(Stops("host"))
       /\ total["opponent"] = SumFunctionOnSet(h, S) + PitLoss * Cardinality(Stops("opponent"))
  <2>1. \A c \in Car : Summed(c) /\ Ran(c) = 1..Laps
    BY <1>1 DEF RaceInv, TimesInv, Ran
  <2>2. QED
    BY <2>1 DEF Summed, Car, S, f, h
<1>11. \A c \in Car : Cardinality(Stops(c)) \in Nat
  <2>1. ASSUME NEW c \in Car
        PROVE  Cardinality(Stops(c)) \in Nat
    <3>1. Stops(c) \subseteq 1..Laps
      BY <1>1 DEF RaceInv, StopInv, StopOpen
    <3>2. IsFiniteSet(1..Laps)
      BY FS_Interval, Numbers
    <3>3. QED
      BY <3>1, <3>2, FS_Subset, FS_CardinalityType
  <2>2. QED
    BY <2>1
<1>12. total["host"] \in Nat /\ total["opponent"] \in Nat
  BY DEF RaceInv, TypeOK, Car
<1>13. Ahead = SumFunctionOnSet(g, S)
                + PitLoss * (Cardinality(Stops("opponent")) - Cardinality(Stops("host")))
  BY <1>9 DEF Ahead, g
<1> DEFINE F == SumFunctionOnSet(f, S)
           G == SumFunctionOnSet(g, S)
           D == SumFunctionOnSet(d, S)
           rounded == Laps * Grain
           H == SumFunctionOnSet(h, S)
           sh == Cardinality(Stops("host"))
           so == Cardinality(Stops("opponent"))
<1>14. F \in Int /\ G \in Int /\ D \in Int /\ H = F + D /\ sh \in Nat /\ so \in Nat
       /\ total["host"] = F + 22 * sh /\ total["opponent"] = H + 22 * so
       /\ Ahead = G + 22 * (so - sh)
  BY <1>7, <1>8, <1>10, <1>11, <1>13, Numbers DEF Car
<1>15. 2 * (G - D) \in -rounded..rounded
  BY <1>6
<1>16. rounded \in Int
  BY Numbers, RaceDataAssumption
<1> HIDE DEF F, G, H, D, sh, so, rounded
<1>17. Ahead \in Int /\ 2 * (Ahead - (total["opponent"] - total["host"])) \in -rounded..rounded
  BY <1>14, <1>15, <1>16
<1>18. QED
  BY <1>12, <1>17 DEF rounded

\* The faster car has no rival less behind it.
LEMMA GridOrder ==
    ASSUME NEW s \in Nat, NEW t \in Nat, s <= t
    PROVE  GridPosition(s) <= GridPosition(t)
<1> DEFINE faster(x) == {r \in RivalTimes : r < x}
<1>1. faster(s) \subseteq faster(t)
  <2>1. \A r \in RivalTimes : r \in Nat
    BY RaceDataAssumption
  <2>2. \A r \in RivalTimes : r < s => r < t
    BY <2>1
  <2>3. QED
    BY <2>2
<1>2. IsFiniteSet(faster(t)) /\ IsFiniteSet(faster(s))
  BY RaceDataAssumption, FS_Subset
<1>3. Cardinality(faster(s)) <= Cardinality(faster(t))
  <2> HIDE DEF faster
  <2>1. QED
    BY <1>1, <1>2, FS_Subset
<1>4. Cardinality(faster(s)) \in Nat /\ Cardinality(faster(t)) \in Nat
  BY <1>2, FS_CardinalityType
<1>5. GridPosition(s) = 1 + Cardinality(faster(s)) /\ GridPosition(t) = 1 + Cardinality(faster(t))
  BY DEF GridPosition
<1> HIDE DEF faster
<1>6. QED
  BY <1>3, <1>4, <1>5

LEMMA BattleCharts ==
    ASSUME RaceInv, result # NoResult
    PROVE  LET shown == Comparison(rows["host"], rows["opponent"])
               position(c) == result.side[c].outcome.position
               rounded == Laps * Grain
           IN  /\ 2 * (result.gap - Max({Ahead, -Ahead})) \in -(rounded + Grain)..rounded + Grain
               /\ 2 * Ahead > rounded => result.winner = "host"
               /\ 2 * Ahead < -rounded => result.winner = "opponent"
               /\ 2 * Ahead >= rounded => position("host") <= position("opponent")
               /\ 2 * Ahead <= -rounded => position("opponent") <= position("host")
               /\ \A c \in Car, n \in 2..Laps :
                    shown.tyres[n][c] < shown.tyres[n - 1][c] => n - 1 \in Told(c, "PIT_STOP")
               /\ \A n \in 1..Laps : \E c \in Car :
                    /\ shown.sectors[n][c] <= shown.sectors[n][Other(c)]
                    /\ result.side[c].heatmap[n] \in {"pb", "sb"}
<1> DEFINE shown == Comparison(rows["host"], rows["opponent"])
           th == total["host"]
           to == total["opponent"]
           position(c) == result.side[c].outcome.position
<1>1. /\ th \in Nat /\ to \in Nat /\ Ahead \in Int
      /\ 2 * (Ahead - (to - th)) \in -(Laps * Grain)..Laps * Grain
  BY AheadIs
<1>2. /\ result.winner = IF th = to THEN "nobody"
                         ELSE CHOOSE c \in Car : total[c] < total[Other(c)]
      /\ result.gap = Kept(Max({th - to, to - th}))
      /\ \A c \in Car : result.side[c] = Stripped(c) /\ Len(rows[c]) = Laps
  BY DEF RaceInv, ResultInv
<1> DEFINE rounded == Laps * Grain
           real == to - th
<1>a. /\ rounded \in Nat /\ Grain \in Nat /\ real \in Int
      /\ 2 * (Ahead - real) \in -rounded..rounded
  BY <1>1, RaceDataAssumption
<1>3. 2 * (result.gap - Max({Ahead, -Ahead})) \in -(rounded + Grain)..rounded + Grain
  <2> DEFINE most == Max({th - to, to - th})
             shows == Max({Ahead, -Ahead})
  <2>1. most \in Int /\ most = IF real < 0 THEN -real ELSE real
    BY <1>1, MaxOfTwo
  <2>2. shows \in Int /\ shows = IF Ahead < 0 THEN -Ahead ELSE Ahead
    BY <1>1, MaxOfTwo
  <2>3. result.gap = Kept(most)
    BY <1>2
  <2> HIDE DEF most, shows, rounded, real
  <2>4. result.gap \in Int /\ 2 * (result.gap - most) \in -Grain..Grain
    BY <2>1, <2>3, KeptNear
  <2>5. 2 * (result.gap - shows) \in -(rounded + Grain)..rounded + Grain
    BY <1>1, <1>a, <2>1, <2>2, <2>4
  <2>6. QED
    BY <2>5 DEF shows
<1>b. /\ 2 * Ahead > rounded => th < to
      /\ 2 * Ahead < -rounded => to < th
      /\ 2 * Ahead >= rounded => th <= to
      /\ 2 * Ahead <= -rounded => to <= th
  <2>1. real = to - th
    OBVIOUS
  <2> HIDE DEF rounded, real, th, to
  <2>2. QED
    BY <1>1, <1>a, <2>1
<1>4. /\ 2 * Ahead > rounded => result.winner = "host"
      /\ 2 * Ahead < -rounded => result.winner = "opponent"
  <2>1. \A c \in Car : total[c] < total[Other(c)] <=>
            (c = "host" /\ th < to) \/ (c = "opponent" /\ to < th)
    BY <1>1 DEF Car, Other
  <2>2. th < to => result.winner = "host"
    BY <1>1, <1>2, <2>1 DEF Car
  <2>3. to < th => result.winner = "opponent"
    BY <1>1, <1>2, <2>1 DEF Car
  <2> HIDE DEF rounded, th, to
  <2>4. QED
    BY <1>b, <2>2, <2>3
<1>5. /\ 2 * Ahead >= rounded => position("host") <= position("opponent")
      /\ 2 * Ahead <= -rounded => position("opponent") <= position("host")
  <2>1. position("host") = GridPosition(th) /\ position("opponent") = GridPosition(to)
    BY <1>2 DEF Stripped, Outcome, Car
  <2> HIDE DEF th, to, position, rounded
  <2>4. QED
    BY <1>1, <1>b, <2>1, GridOrder
<1>6. \A c \in Car, n \in 1..Laps : /\ shown.tyres[n][c] = rows[c][n].wear
                                    /\ shown.sectors[n][c] = rows[c][n].sector
  BY <1>2 DEF Comparison, TireComparison, SectorComparison, Car
<1> HIDE DEF shown
<1>7. ASSUME NEW c \in Car, NEW n \in 2..Laps, shown.tyres[n][c] < shown.tyres[n - 1][c]
      PROVE  n - 1 \in Told(c, "PIT_STOP")
  <2>1. n \in 1..Laps /\ n - 1 \in 1..Laps
    BY Numbers
  <2>2. rows[c][n].wear < rows[c][n - 1].wear
    BY <1>6, <1>7, <2>1
  <2>3. rows[c][n] \in Row /\ rows[c][n - 1] \in Row
    BY <2>1, StoredRows
  <2>4. Linked(c) /\ n \in 2..Len(rows[c])
    BY <1>2 DEF RaceInv, StintInv
  <2>5. rows[c][n].wear \in Nat /\ rows[c][n - 1].wear \in Nat
    BY <2>3 DEF Row
  <2>6. n - 1 \notin Stops(c) =>
            \/ rows[c][n].wear > rows[c][n - 1].wear
            \/ rows[c][n].wear = 100 /\ rows[c][n - 1].wear = 100
    BY <2>4 DEF Linked
  <2>7. QED
    BY <2>2, <2>5, <2>6 DEF Stops
<1>8. ASSUME NEW n \in 1..Laps
      PROVE  \E c \in Car : /\ shown.sectors[n][c] <= shown.sectors[n][Other(c)]
                            /\ result.side[c].heatmap[n] \in {"pb", "sb"}
  <2>1. \A c \in Car : rows[c][n].sector \in Nat
    <3>1. \A c \in Car : rows[c][n] \in Row
      BY StoredRows
    <3>2. QED
      BY <3>1 DEF Row
  <2>2. PICK c \in Car : rows[c][n].sector <= rows[Other(c)][n].sector
    BY <2>1 DEF Car, Other
  <2>3. result.side[c].heatmap[n] \in {"pb", "sb"}
    BY <2>2, Marks
  <2>4. Other(c) \in Car
    BY DEF Other, Car
  <2>5. QED
    BY <1>6, <2>2, <2>3, <2>4
<1>9. QED
  BY <1>3, <1>4, <1>5, <1>7, <1>8 DEF shown

(* What GET telemetry shows of a battle agrees with what is stored of it: the   *)
(* delta chart with the laps told as fastest, the summary with the heatmaps,    *)
(* the wear with the stops, and the comparison of the laps, whatever the times  *)
(* and however coarsely they are kept, adds up to the gap within the rounding,  *)
(* and past it to the winner and the order of the two on the grid.              *)
THEOREM ChartsTell == Spec => []ChartsAgree
<1>1. RaceInv => ChartsAgree
  <2>1. ASSUME RaceInv, result # NoResult
        PROVE  ChartsAgree
    <3>1. \A c \in Car : Max(Told(c, "FASTEST_LAP")) =
                         Max({n \in 1..Laps : Charts(rows[c]).lapDelta[n].delta = 0})
      BY <2>1, FastestShown DEF Charts
    <3>2. Ahead = SumFunction([n \in 1..Laps |->
                        Comparison(rows["host"], rows["opponent"]).laps[n].delta])
                    + PitLoss * (Cardinality(Told("opponent", "PIT_STOP"))
                                   - Cardinality(Told("host", "PIT_STOP")))
      BY DEF Ahead, Comparison, Stops
    <3>3. QED
      BY <2>1, <3>1, <3>2, SessionCharts, BattleCharts DEF ChartsAgree
  <2>2. QED
    BY <2>1 DEF ChartsAgree
<1>2. QED
  BY <1>1, RaceInvariant, PTL
-----------------------------------------------------------------------------
(* Setups and strategies that the service makes                            *)

\* The seeded tracks, and every other with laps enough for the proposals' two stops
\* and for the AI's random window, whose bounds cross or close too late in a race of
\* less than 35 laps, and an aero sensitivity that rounds to a wing.
AnyTrack == [laps : {n \in Nat : n >= 35}, aero : 5..100, degradation : Nat \ {0}]

LEMMA SeededTracks == Tracks \subseteq AnyTrack
BY DEF Tracks, Seed, AnyTrack

\* A window within the race is left as it is, and holds the optimal lap.
LEMMA WindowKept ==
    ASSUME NEW laps \in Nat, NEW a \in Int, NEW b \in Int,
           1 <= a, a <= b, b < laps - 2, a <= laps - 5
    PROVE  LET made == PlanOf(<<a, b>>, laps)
           IN  /\ <<made.earliest, made.latest>> = <<a, b>>
               /\ Holds(made) /\ made.latest < laps - 2
<1> DEFINE middle == (a + b) \div 2
<1>1. middle \in Int /\ a <= middle /\ middle <= b
  OBVIOUS
<1>2. Min({a, laps - 2}) = a /\ Min({b, laps - 2}) = b
  BY MinOfTwo
<1>3. Max({1, a}) = a /\ Max({a, b}) = b
  BY MaxOfTwo
<1>4. Max({a, middle}) = middle
  <2> HIDE DEF middle
  <2>1. QED
    BY <1>1, MaxOfTwo
<1>5. PlanOf(<<a, b>>, laps) =
        [earliest |-> a, latest |-> b, optimal |-> Min({laps - 5, middle})]
  BY <1>2, <1>3, <1>4 DEF PlanOf
<1> HIDE DEF middle
<1>6. Min({laps - 5, middle}) \in a..b
  BY <1>1, MinOfTwo
<1>7. QED
  BY <1>5, <1>6 DEF Holds

LEMMA OptimalLapInRace ==
    ASSUME NEW track \in AnyTrack, NEW compound \in Compound
    PROVE  OptimalLap(track, compound) \in 10..track.laps - 8
<1> DEFINE perLap == Max({4000, 5 * DegradationRate[compound] * track.degradation})
           lasts == 3500000 \div perLap
           fits == Min({track.laps - 8, lasts})
           onTire == Max({8, fits})
           least == Max({10, onTire})
<1>1. track.laps \in Nat /\ track.laps >= 35 /\ track.degradation \in Nat
  BY DEF AnyTrack
<1>2. DegradationRate[compound] \in Nat
  BY DEF DegradationRate, Compound
<1>3. 5 * DegradationRate[compound] * track.degradation \in Nat
  BY <1>1, <1>2
<1>4. perLap \in Nat \ {0}
  <2> DEFINE rate == 5 * DegradationRate[compound] * track.degradation
  <2>1. rate \in Nat /\ perLap = Max({4000, rate})
    BY <1>3
  <2> HIDE DEF rate, perLap
  <2>2. QED
    BY <2>1, MaxOfTwo
<1>5. lasts \in Int
  <2> HIDE DEF perLap
  <2>1. QED
    BY <1>4
<1>6. OptimalLap(track, compound) = Min({track.laps - 5, least})
  BY DEF OptimalLap, LapsOnTire
<1> HIDE DEF lasts
<1>7. fits \in Int /\ fits <= track.laps - 8
  BY <1>1, <1>5, MinOfTwo
<1> HIDE DEF fits
<1>8. onTire \in 8..track.laps - 8
  BY <1>1, <1>7, MaxOfTwo
<1> HIDE DEF onTire
<1>9. least \in 10..track.laps - 8
  BY <1>1, <1>8, MaxOfTwo
<1> HIDE DEF least
<1>10. QED
  BY <1>1, <1>6, <1>9, MinOfTwo

LEMMA CompoundType ==
    ASSUME NEW track \in AnyTrack, NEW weather \in Weather, NEW personality \in Personality
    PROVE  AiCompound(track, weather, personality) \in Compound
BY DEF AiCompound, Compound, Weather

LEMMA WindowsInRace ==
    ASSUME NEW track \in AnyTrack, NEW compound \in Compound, NEW personality \in Personality,
           NEW window \in AiWindows(track, compound, personality)
    PROVE  \E a, b \in Int : /\ window = <<a, b>> /\ 1 <= a /\ a <= b
                             /\ b < track.laps - 2 /\ a <= track.laps - 5
<1> DEFINE laps == track.laps
           optimal == OptimalLap(track, compound)
<1>1. laps \in Nat /\ laps >= 35 /\ optimal \in 10..laps - 8
  BY OptimalLapInRace DEF AnyTrack
<1>2. /\ personality = "aggressive" => window = <<Max({5, optimal - 5}), optimal>>
      /\ personality = "balanced" =>
            window = <<Max({5, optimal - 3}), Min({laps - 5, optimal + 3})>>
      /\ personality = "conservative" => window = <<optimal, Min({laps - 4, optimal + 5})>>
      /\ personality = "random" => window \in RandInt(10, 30) \X RandInt(31, Min({45, laps - 5}))
  BY DEF AiWindows
<1> HIDE DEF laps, optimal
<1>3. CASE personality = "aggressive"
  <2>1. Max({5, optimal - 5}) \in 5..optimal
    BY <1>1, MaxOfTwo
  <2>2. QED
    BY <1>1, <1>2, <1>3, <2>1 DEF laps
<1>4. CASE personality = "balanced"
  <2>1. Max({5, optimal - 3}) \in 5..optimal /\ Min({laps - 5, optimal + 3}) \in optimal..laps - 5
    BY <1>1, MaxOfTwo, MinOfTwo
  <2>2. QED
    BY <1>1, <1>2, <1>4, <2>1 DEF laps
<1>5. CASE personality = "conservative"
  <2>1. Min({laps - 4, optimal + 5}) \in optimal..laps - 4
    BY <1>1, MinOfTwo
  <2>2. QED
    BY <1>1, <1>2, <1>5, <2>1 DEF laps
<1>6. CASE personality = "random"
  <2> DEFINE most == Min({45, laps - 5})
  <2>1. most \in Int /\ 30 <= most /\ most <= laps - 5
    BY <1>1, MinOfTwo
  <2> HIDE DEF most
  <2>2. RandInt(10, 30) = 10..30
    BY DEF RandInt
  <2>3. RandInt(31, most) = IF 31 <= most THEN 31..most ELSE most + 1..31
    BY DEF RandInt
  <2>4. PICK a \in 10..30, b \in RandInt(31, most) : window = <<a, b>>
    BY <1>2, <1>6, <2>2 DEF most
  <2>5. b \in Int /\ 31 <= b /\ b < laps - 2
    BY <1>1, <2>1, <2>3
  <2>6. QED
    BY <1>1, <2>4, <2>5 DEF laps
<1>7. QED
  BY <1>3, <1>4, <1>5, <1>6 DEF Personality

Field == {"frontWing", "rearWing", "suspensionStiffness", "brakeBias", "rideHeight",
          "differentialOnThrottle", "fuelLoad"}

LEMMA SetupRangeIs ==
    /\ DOMAIN SetupRange = Field
    /\ SetupRange.frontWing = 1..11 /\ SetupRange.rearWing = 1..11
    /\ SetupRange.suspensionStiffness = 1..10 /\ SetupRange.brakeBias = 52..66
    /\ SetupRange.rideHeight = 1..10 /\ SetupRange.differentialOnThrottle = 50..100
    /\ SetupRange.fuelLoad = 0..5
BY DEF SetupRange, Fields, Field

\* The setup before the weather is looked at.
LEMMA BaseInRange ==
    ASSUME NEW wing \in 1..10, NEW personality \in Personality
    PROVE  LET base == AiBase(wing, personality) IN
           /\ DOMAIN base = Field
           /\ \A field \in Field : base[field] \subseteq SetupRange[field]
<1>1. Min({11, wing + 1}) \in 1..11 /\ Max({1, wing - 1}) \in 1..11 /\ wing \in 1..11
  BY MinOfTwo, MaxOfTwo
<1>2. CASE personality = "aggressive"
  <2>1. AiBase(wing, personality) =
          LET more == {Min({11, wing + 1})} IN Fields(more, more, {7}, {63}, {2}, {85}, {0})
    BY <1>2 DEF AiBase
  <2>2. QED
    BY <1>1, <2>1, SetupRangeIs DEF Fields, Field
<1>3. CASE personality = "balanced"
  <2>1. AiBase(wing, personality) = Fields({wing}, {wing}, {5}, {58}, {5}, {70}, {2})
    BY <1>3 DEF AiBase
  <2>2. QED
    BY <1>1, <2>1, SetupRangeIs DEF Fields, Field
<1>4. CASE personality = "conservative"
  <2>1. AiBase(wing, personality) =
          LET less == {Max({1, wing - 1})} IN Fields(less, less, {3}, {55}, {8}, {60}, {4})
    BY <1>4 DEF AiBase
  <2>2. QED
    BY <1>1, <2>1, SetupRangeIs DEF Fields, Field
<1>5. CASE personality = "random"
  <2>1. AiBase(wing, personality) = SetupRange
    BY <1>5 DEF AiBase, SetupRange
  <2>2. QED
    BY <2>1, SetupRangeIs
<1>6. QED
  BY <1>2, <1>3, <1>4, <1>5 DEF Personality

LEMMA WingType ==
    ASSUME NEW track \in AnyTrack
    PROVE  (track.aero + 5) \div 10 \in 1..10
BY DEF AnyTrack

LEMMA SetupInRange ==
    ASSUME NEW track \in AnyTrack, NEW weather \in Weather, NEW personality \in Personality,
           NEW field \in Field
    PROVE  AiSetup(track, weather, personality)[field] \subseteq SetupRange[field]
<1> DEFINE base == AiBase((track.aero + 5) \div 10, personality)
           more == {Min({5, f + 1}) : f \in base.fuelLoad}
<1>1. DOMAIN base = Field /\ \A g \in Field : base[g] \subseteq SetupRange[g]
  BY WingType, BaseInRange
<1>2. AiSetup(track, weather, personality) =
        [base EXCEPT !.fuelLoad = IF weather = "wet" THEN more ELSE @]
  BY DEF AiSetup
<1>3. base.fuelLoad \subseteq 0..5
  BY <1>1, SetupRangeIs DEF Field
<1> HIDE DEF base
<1>4. more \subseteq 0..5
  <2>1. \A f \in 0..5 : Min({5, f + 1}) \in 0..5
    BY MinOfTwo
  <2>2. QED
    BY <1>3, <2>1
<1> HIDE DEF more
<1>5. CASE field = "fuelLoad"
  <2>1. AiSetup(track, weather, personality)[field] = IF weather = "wet" THEN more ELSE base[field]
    BY <1>1, <1>2, <1>5 DEF Field
  <2>2. QED
    BY <1>3, <1>4, <1>5, <2>1, SetupRangeIs
<1>6. CASE field # "fuelLoad"
  <2>1. AiSetup(track, weather, personality)[field] = base[field]
    BY <1>1, <1>2, <1>6
  <2>2. QED
    BY <1>1, <2>1
<1>7. QED
  BY <1>5, <1>6

LEMMA AllSetupsFit ==
    ASSUME NEW track \in AnyTrack
    PROVE  SetupsFit(track)
<1> SUFFICES ASSUME NEW weather \in Weather, NEW personality \in Personality
             PROVE  /\ \A field \in DOMAIN SetupRange :
                        AiSetup(track, weather, personality)[field] \subseteq SetupRange[field]
                    /\ \A window \in AiWindows(track, AiCompound(track, weather, personality),
                                               personality) :
                        LET made == PlanOf(window, track.laps) IN
                        /\ <<made.earliest, made.latest>> = window
                        /\ Holds(made) /\ made.latest < track.laps - 2
  BY DEF SetupsFit
<1>1. \A field \in DOMAIN SetupRange :
        AiSetup(track, weather, personality)[field] \subseteq SetupRange[field]
  BY SetupInRange, SetupRangeIs
<1>2. ASSUME NEW window \in AiWindows(track, AiCompound(track, weather, personality), personality)
      PROVE  LET made == PlanOf(window, track.laps) IN
             /\ <<made.earliest, made.latest>> = window
             /\ Holds(made) /\ made.latest < track.laps - 2
  <2>1. PICK a, b \in Int : /\ window = <<a, b>> /\ 1 <= a /\ a <= b
                            /\ b < track.laps - 2 /\ a <= track.laps - 5
    BY CompoundType, WindowsInRace
  <2>2. track.laps \in Nat
    BY DEF AnyTrack
  <2>3. QED
    BY <2>1, <2>2, WindowKept
<1>3. QED
  BY <1>1, <1>2

\* The balanced setup, field by field.
LEMMA BalancedSetup ==
    ASSUME NEW track \in AnyTrack, NEW weather \in Weather
    PROVE  \E wing \in 1..10, fuel \in 2..3 :
              AiSetup(track, weather, "balanced") =
                Fields({wing}, {wing}, {5}, {58}, {5}, {70}, {fuel})
<1> DEFINE wing == (track.aero + 5) \div 10
<1>1. wing \in 1..10
  BY WingType
<1>2. AiBase(wing, "balanced") = Fields({wing}, {wing}, {5}, {58}, {5}, {70}, {2})
  BY DEF AiBase
<1>3. {Min({5, f + 1}) : f \in {2}} = {3}
  <2>1. Min({5, 2 + 1}) = 3
    BY MinOfTwo
  <2>2. QED
    BY <2>1
<1> HIDE DEF wing
<1>4. AiSetup(track, weather, "balanced") =
        Fields({wing}, {wing}, {5}, {58}, {5}, {70}, IF weather = "wet" THEN {3} ELSE {2})
  <2> DEFINE base == Fields({wing}, {wing}, {5}, {58}, {5}, {70}, {2})
             fuel == IF weather = "wet" THEN {Min({5, f + 1}) : f \in base.fuelLoad}
                                        ELSE base.fuelLoad
  <2>1. AiSetup(track, weather, "balanced") = [base EXCEPT !.fuelLoad = fuel]
    BY <1>2 DEF AiSetup, wing
  <2>2. base.fuelLoad = {2}
    BY DEF Fields
  <2>3. fuel = IF weather = "wet" THEN {3} ELSE {2}
    BY <1>3, <2>2
  <2> HIDE DEF fuel
  <2>4. [base EXCEPT !.fuelLoad = fuel] = Fields({wing}, {wing}, {5}, {58}, {5}, {70}, fuel)
    BY DEF Fields
  <2>5. QED
    BY <2>1, <2>3, <2>4
<1>5. QED
  BY <1>1, <1>4

LEMMA AllAdviceFits ==
    ASSUME NEW track \in AnyTrack
    PROVE  AdviceFits(track)
<1> SUFFICES ASSUME NEW weather \in Weather
             PROVE  LET advised(field) ==
                            {Advised(track, weather, field, v) : v \in SetupRange[field]}
                    IN  /\ \A field \in DOMAIN SetupRange :
                            advised(field) \subseteq SetupRange[field]
                        /\ \A ride \in advised("rideHeight"), bias \in advised("brakeBias"),
                              fuel \in advised("fuelLoad") :
                            Risk(track, ride, bias, fuel) = "low"
  BY DEF AdviceFits
<1> DEFINE advised(field) == {Advised(track, weather, field, v) : v \in SetupRange[field]}
           ideal(field) == Optimal(track, weather, field)
<1>1. PICK wing \in 1..10, fuel \in 2..3 :
        AiSetup(track, weather, "balanced") =
          Fields({wing}, {wing}, {5}, {58}, {5}, {70}, {fuel})
  BY BalancedSetup
<1>2. /\ ideal("frontWing") = wing /\ ideal("rearWing") = wing /\ ideal("suspensionStiffness") = 5
      /\ ideal("brakeBias") = 58 /\ ideal("rideHeight") = 5
      /\ ideal("differentialOnThrottle") = 70 /\ ideal("fuelLoad") = fuel
  BY <1>1 DEF Optimal, Fields
<1>3. \A field \in Field : \A v \in SetupRange[field] :
        Advised(track, weather, field, v) =
          IF v \in ideal(field) - 1..ideal(field) + 1 THEN v ELSE ideal(field)
  BY DEF Advised
<1> HIDE DEF ideal
<1>4. \A field \in Field : ideal(field) \in SetupRange[field]
  BY <1>2, SetupRangeIs DEF Field
<1>5. \A field \in DOMAIN SetupRange : advised(field) \subseteq SetupRange[field]
  BY <1>3, <1>4, SetupRangeIs
<1>6. \A v \in advised("rideHeight") : v \in 4..6
  BY <1>2, <1>3, SetupRangeIs DEF Field
<1>7. \A v \in advised("brakeBias") : v \in 57..59
  BY <1>2, <1>3, SetupRangeIs DEF Field
<1>8. \A v \in advised("fuelLoad") : v \in 1..4
  BY <1>2, <1>3, SetupRangeIs DEF Field
<1>9. \A ride \in 4..6, bias \in 57..59, load \in 1..4 : Risk(track, ride, bias, load) = "low"
  BY DEF Risk
<1>10. QED
  BY <1>5, <1>6, <1>7, <1>8, <1>9

\* Two stints that change in a window around the lap of the stop.
LEMMA TwoStints ==
    ASSUME NEW laps \in Nat, NEW pit \in Nat, NEW first, NEW earliest \in Int, NEW latest \in Int,
           NEW optimal \in Int, earliest <= pit, pit <= latest, earliest <= optimal,
           optimal <= latest, latest < laps - 2
    PROVE  LET strategy == Strategy(<<Stint(first, 1, pit), Stint("HARD", pit + 1, laps)>>,
                                    <<Window(earliest, latest, optimal)>>)
           IN  /\ Joined(strategy.stints, strategy.windows)
               /\ Last(strategy.stints).last = laps
               /\ \A w \in ToSet(strategy.windows) : Holds(w) /\ w.latest < laps - 2
<1> DEFINE stints == <<Stint(first, 1, pit), Stint("HARD", pit + 1, laps)>>
           windows == <<Window(earliest, latest, optimal)>>
<1>1. /\ Len(stints) = 2 /\ stints[1].first = 1 /\ stints[1].last = pit
      /\ stints[2].first = pit + 1 /\ stints[2].last = laps
  BY DEF Stint
<1>2. /\ Len(windows) = 1 /\ DOMAIN windows = 1..1
      /\ windows[1].earliest = earliest /\ windows[1].latest = latest
      /\ windows[1].optimal = optimal
  BY DEF Window
<1> HIDE DEF stints, windows
<1>3. Joined(stints, windows)
  BY <1>1, <1>2 DEF Joined
<1>4. Last(stints).last = laps
  BY <1>1 DEF Last
<1>5. \A w \in ToSet(windows) : Holds(w) /\ w.latest < laps - 2
  BY <1>2 DEF ToSet, Holds
<1>6. QED
  BY <1>3, <1>4, <1>5 DEF Strategy, stints, windows

LEMMA ThreeStints ==
    ASSUME NEW laps \in Nat, NEW pit1 \in Nat, NEW pit2 \in Nat,
           pit1 + 8 <= pit2, pit2 + 4 < laps - 2
    PROVE  LET strategy ==
                  Strategy(<<Stint("MEDIUM", 1, pit1), Stint("MEDIUM", pit1 + 1, pit2),
                             Stint("HARD", pit2 + 1, laps)>>,
                           <<Window(pit1 - 2, pit1 + 3, pit1), Window(pit2 - 2, pit2 + 4, pit2)>>)
           IN  /\ Joined(strategy.stints, strategy.windows)
               /\ Last(strategy.stints).last = laps
               /\ \A w \in ToSet(strategy.windows) : Holds(w) /\ w.latest < laps - 2
<1> DEFINE stints == <<Stint("MEDIUM", 1, pit1), Stint("MEDIUM", pit1 + 1, pit2),
                       Stint("HARD", pit2 + 1, laps)>>
           windows == <<Window(pit1 - 2, pit1 + 3, pit1), Window(pit2 - 2, pit2 + 4, pit2)>>
<1>1. /\ Len(stints) = 3 /\ stints[1].first = 1 /\ stints[1].last = pit1
      /\ stints[2].first = pit1 + 1 /\ stints[2].last = pit2
      /\ stints[3].first = pit2 + 1 /\ stints[3].last = laps
  BY DEF Stint
<1>2. /\ Len(windows) = 2 /\ DOMAIN windows = 1..2
      /\ windows[1].earliest = pit1 - 2 /\ windows[1].latest = pit1 + 3
      /\ windows[1].optimal = pit1
      /\ windows[2].earliest = pit2 - 2 /\ windows[2].latest = pit2 + 4
      /\ windows[2].optimal = pit2
  BY DEF Window
<1> HIDE DEF stints, windows
<1>3. Joined(stints, windows)
  BY <1>1, <1>2 DEF Joined
<1>4. Last(stints).last = laps
  BY <1>1 DEF Last
<1>5. \A w \in ToSet(windows) : Holds(w) /\ w.latest < laps - 2
  BY <1>2 DEF ToSet, Holds
<1>6. QED
  BY <1>3, <1>4, <1>5 DEF Strategy, stints, windows

LEMMA AllProposalsFit ==
    ASSUME NEW track \in AnyTrack
    PROVE  ProposalsFit(track)
<1> DEFINE laps == track.laps
           Fits(strategy) == /\ Joined(strategy.stints, strategy.windows)
                             /\ Last(strategy.stints).last = laps
                             /\ \A w \in ToSet(strategy.windows) :
                                    Holds(w) /\ w.latest < laps - 2
           pit1 == Max({12, (35 * laps) \div 100})
           pit2 == Max({pit1 + 8, (62 * laps) \div 100})
           pit == Max({10, (40 * laps) \div 100})
           early == Strategy(<<Stint("SOFT", 1, pit1), Stint("HARD", pit1 + 1, laps)>>,
                             <<Window(pit1 - 2, pit1 + 4, pit1)>>)
           even == Strategy(<<Stint("MEDIUM", 1, pit1), Stint("HARD", pit1 + 1, laps)>>,
                            <<Window(pit1 - 3, pit1 + 5, pit1 + 1)>>)
           twice == Strategy(<<Stint("MEDIUM", 1, pit1), Stint("MEDIUM", pit1 + 1, pit2),
                               Stint("HARD", pit2 + 1, laps)>>,
                             <<Window(pit1 - 2, pit1 + 3, pit1),
                               Window(pit2 - 2, pit2 + 4, pit2)>>)
           once == Strategy(<<Stint("MEDIUM", 1, pit), Stint("HARD", pit + 1, laps)>>,
                            <<Window(pit - 2, pit + 4, pit)>>)
<1>1. laps \in Nat /\ laps >= 35
  BY DEF AnyTrack
<1> HIDE DEF laps
<1>2. Proposals(laps) = {early, even, twice}
  BY DEF Proposals
<1>3. ReferenceStrategy(laps) = once
  BY DEF ReferenceStrategy
<1>4. pit1 \in Nat /\ 12 <= pit1 /\ pit1 + 14 < laps
  <2>1. (35 * laps) \div 100 \in Int /\ (35 * laps) \div 100 + 14 < laps
    BY <1>1
  <2>2. QED
    BY <1>1, <2>1, MaxOfTwo
<1> HIDE DEF pit1
<1>5. pit2 \in Nat /\ pit1 + 8 <= pit2 /\ pit2 + 4 < laps - 2
  <2>1. (62 * laps) \div 100 \in Int /\ (62 * laps) \div 100 + 4 < laps - 2
    BY <1>1
  <2>2. QED
    BY <1>1, <1>4, <2>1, MaxOfTwo
<1> HIDE DEF pit2
<1>6. pit \in Nat /\ 10 <= pit /\ pit + 4 < laps - 2
  <2>1. (40 * laps) \div 100 \in Int /\ (40 * laps) \div 100 + 4 < laps - 2
    BY <1>1
  <2>2. QED
    BY <1>1, <2>1, MaxOfTwo
<1> HIDE DEF pit
<1>7. Fits(early)
  BY <1>1, <1>4, TwoStints
<1>8. Fits(even)
  BY <1>1, <1>4, TwoStints
<1>9. Fits(twice)
  BY <1>1, <1>4, <1>5, ThreeStints
<1>10. Fits(once)
  BY <1>1, <1>6, TwoStints
<1> HIDE DEF Fits, early, even, twice, once
<1>11. \A strategy \in Proposals(laps) \cup {ReferenceStrategy(laps)} : Fits(strategy)
  BY <1>2, <1>3, <1>7, <1>8, <1>9, <1>10
<1>12. QED
  BY <1>11 DEF ProposalsFit, Fits, laps

\* What a player typed, within the race.
LEMMA PlanWithin ==
    ASSUME Laps >= 3, NEW window \in Int \X Int
    PROVE  LET made == PlanOf(window, Laps)
           IN  1 <= made.earliest /\ made.earliest <= made.latest /\ made.latest <= Laps - 2
<1> DEFINE opens == Min({window[1], Laps - 2})
           closes == Min({window[2], Laps - 2})
           earliest == Max({1, opens})
           latest == Max({earliest, closes})
<1>1. window[1] \in Int /\ window[2] \in Int /\ Laps - 2 \in Int /\ 1 <= Laps - 2
  BY Numbers
<1>2. opens \in Int /\ opens <= Laps - 2 /\ closes \in Int /\ closes <= Laps - 2
  BY <1>1, MinOfTwo
<1>3. PlanOf(window, Laps).earliest = earliest /\ PlanOf(window, Laps).latest = latest
  BY DEF PlanOf
<1> HIDE DEF opens, closes
<1>4. earliest \in 1..Laps - 2
  BY <1>1, <1>2, MaxOfTwo
<1> HIDE DEF earliest
<1>5. latest \in earliest..Laps - 2
  BY <1>1, <1>2, <1>4, MaxOfTwo
<1> HIDE DEF latest
<1>6. QED
  BY <1>1, <1>3, <1>4, <1>5

PlansWithin ==
    \A c \in Car : 1 <= plan[c].earliest /\ plan[c].earliest <= plan[c].latest
                     /\ plan[c].latest <= Laps - 2

(* On every track of 35 laps or more, not the seeded ones alone, whatever the   *)
(* AI draws, advises and proposes is valid: setups pass validation, windows     *)
(* close while a stop is still made, and proposed stints cover each lap once    *)
(* (generateSetup, getAdvice, generateStrategy, generateStrategiesForSlug).     *)
THEOREM AnyTrackFits == \A track \in AnyTrack : TrackFits(track)
BY AllSetupsFit, AllAdviceFits, AllProposalsFit DEF TrackFits

(* In a race of three laps or more the windows that the players typed are       *)
(* brought within it, and what is made for a seeded track is sound.             *)
THEOREM StrategiesSound ==
    ASSUME Laps >= 3
    PROVE  Spec => []StrategiesFit
<1>1. Init => PlansWithin
  <2> SUFFICES ASSUME Init, NEW c \in Car
               PROVE  1 <= plan[c].earliest /\ plan[c].earliest <= plan[c].latest
                        /\ plan[c].latest <= Laps - 2
    BY DEF PlansWithin
  <2>1. PICK e \in Entries : plan = [d \in Car |-> PlanOf(e[d].window, Laps)]
    BY DEF Init
  <2>2. e[c].window \in Int \X Int
    BY RaceAssumption DEF Entry
  <2>3. QED
    BY <2>1, <2>2, PlanWithin
<1>2. PlansWithin /\ [Next]_vars => PlansWithin'
  BY DEF PlansWithin, Next, DriveLap, StoreResult, vars
<1>3. PlansWithin => StrategiesFit
  BY AnyTrackFits, SeededTracks DEF PlansWithin, StrategiesFit, SeededTracksFit
<1>4. QED
  BY <1>1, <1>2, <1>3, PTL DEF Spec
=============================================================================
