---------------------------- MODULE Shown_proofs ----------------------------
(***************************************************************************)
(* What screens are shown: the answers that emon_live keeps for them, its  *)
(* supply to demand, its counters' days and the totals it derives; the     *)
(* racing display's readings and its trail.  They share no state.  Each    *)
(* has an invariant of its own: CacheInv, SupplyInv, CounterInv, LiveInv,  *)
(* HudInv, TrailInv.                                                       *)
(***************************************************************************)
EXTENDS LiveCache, LiveSupply, FeedCounter, LiveDerived, Hud, RaceTrail, FiniteSetTheorems,
        SequenceTheorems, TLAPS

-----------------------------------------------------------------------------
(* Answers kept for many screens (LiveCache)                               *)

\* Types, as far as they matter here: who is answered, and of when it asked
CacheTypeOK ==
    /\ cache = NoDoc \/ cache.at \in Int
    /\ working \in Screen \cup {NoDoc}
    /\ pc \in [Screen -> {"idle", "looks", "waits", "queries"}]
    /\ asked \in [Screen -> Int \cup {NoDoc}] /\ DOMAIN answer = Screen
    /\ clock \in Int
    /\ \A s \in Screen : pc[s] # "idle" => asked[s] \in Int

\* Who asks Influx holds the lock, and what there was when it looked would not do
WhoAsksMust ==
    Locked => \A s \in Screen : pc[s] = "queries" => working = s /\ ~Kept(asked[s])

\* What every step keeps
CacheInv == CacheTypeOK /\ WhoAsksMust /\ AnswerIsOfItsWindow

\* An answer that is kept is of the window of the moment it is good for
LEMMA KeptIsOfItsWindow ==
    ASSUME CacheTypeOK, NEW s \in Screen, Kept(asked[s])
    PROVE  /\ asked[s] - cache.at <= TTL
           /\ period # "week" => cache.from = begins(period, asked[s])
  BY DEF Kept, still_same_window

\* What a screen is answered is of its window, if the document is
LEMMA AnswerInv ==
    ASSUME CacheInv, NEW s \in Screen, NEW doc, Answer(s, doc), asked' = asked, period' = period,
           asked[s] - doc.at <= TTL,
           period # "week" => doc.from = begins(period, asked[s])
    PROVE  AnswerIsOfItsWindow'
  <1> SUFFICES ASSUME NEW z \in Screen, answer'[z] # NoDoc
               PROVE  /\ answer'[z].asked - answer'[z].doc.at <= TTL
                      /\ period # "week" =>
                            answer'[z].doc.from = begins(period, answer'[z].asked)
    BY DEF AnswerIsOfItsWindow, begins, midnight
  <1>1. CASE z = s
    <2>1. answer'[z] = [doc |-> doc, asked |-> asked[s]]
      BY <1>1 DEF Answer, CacheInv, CacheTypeOK
    <2> QED BY <2>1
  <1>2. CASE z # s
    BY <1>2 DEF Answer, CacheInv, CacheTypeOK, AnswerIsOfItsWindow
  <1> QED BY <1>1, <1>2

\* The state of one screen moves
LEMMA ScreenInv ==
    ASSUME CacheInv, NEW s \in Screen, Polls(s) \/ Looks(s) \/ LooksAgain(s)
    PROVE  CacheInv'
  <1>1. CASE Polls(s)
    <2>1. CacheTypeOK'
      BY <1>1 DEF Polls, CacheInv, CacheTypeOK
    <2>2. WhoAsksMust'
      BY <1>1 DEF Polls, CacheInv, CacheTypeOK, WhoAsksMust, Kept, still_same_window, begins,
                  midnight
    <2>3. AnswerIsOfItsWindow'
      BY <1>1 DEF Polls, CacheInv, CacheTypeOK, AnswerIsOfItsWindow, begins, midnight
    <2> QED BY <2>1, <2>2, <2>3 DEF CacheInv
  <1>2. CASE Looks(s) \/ LooksAgain(s)
    <2>1. CASE Kept(asked[s])
      <3>1. Answer(s, cache) /\ asked' = asked /\ period' = period /\ cache' = cache
            /\ working' = working /\ clock' = clock
        BY <1>2, <2>1 DEF Looks, LooksAgain
      <3>2. CacheTypeOK'
        BY <3>1 DEF CacheInv, CacheTypeOK, Answer
      <3>3. WhoAsksMust'
        BY <3>1 DEF CacheInv, CacheTypeOK, WhoAsksMust, Answer, Kept, still_same_window,
                    begins, midnight
      <3>4. AnswerIsOfItsWindow'
        BY <2>1, <3>1, KeptIsOfItsWindow, AnswerInv DEF CacheInv
      <3> QED BY <3>2, <3>3, <3>4 DEF CacheInv
    <2>2. CASE ~Kept(asked[s])
      <3>1. /\ asked' = asked /\ period' = period /\ cache' = cache /\ answer' = answer
            /\ clock' = clock /\ pc[s] \in {"looks", "waits"}
            /\ \/ pc' = [pc EXCEPT ![s] = "waits"] /\ working' = working
               \/ pc' = [pc EXCEPT ![s] = "queries"] /\ working = NoDoc /\ working' = s
               \/ pc' = [pc EXCEPT ![s] = "queries"] /\ working' = working /\ ~Locked
        BY <1>2, <2>2 DEF Looks, LooksAgain
      <3>2. CacheTypeOK'
        BY <3>1 DEF CacheInv, CacheTypeOK
      <3>3. \A z \in Screen : Kept(asked[z])' <=> Kept(asked[z])
        BY <3>1 DEF Kept, still_same_window, begins, midnight
      <3>4. WhoAsksMust'
        BY <2>2, <3>1, <3>3, LiveCacheAssumption DEF CacheInv, CacheTypeOK, WhoAsksMust
      <3>5. AnswerIsOfItsWindow'
        BY <3>1 DEF CacheInv, AnswerIsOfItsWindow, begins, midnight
      <3> QED BY <3>2, <3>4, <3>5 DEF CacheInv
    <2> QED BY <2>1, <2>2
  <1> QED BY <1>1, <1>2

\* Influx has answered
LEMMA QueriesInv ==
    ASSUME CacheInv, NEW s \in Screen, Queries(s)
    PROVE  CacheInv'
  <1>1. PICK failed \in BOOLEAN :
          LET doc == [at |-> asked[s], from |-> begins(period, asked[s]), failed |-> failed]
          IN cache' = doc /\ Answer(s, doc)
    BY DEF Queries
  <1> DEFINE doc == [at |-> asked[s], from |-> begins(period, asked[s]), failed |-> failed]
  <1>2. /\ cache' = doc /\ Answer(s, doc) /\ pc[s] = "queries" /\ working' = NoDoc
        /\ asked' = asked /\ period' = period /\ clock' = clock /\ asked[s] \in Int
    BY <1>1 DEF Queries, CacheInv, CacheTypeOK
  <1>3. CacheTypeOK'
    BY <1>2 DEF CacheInv, CacheTypeOK, Answer
  <1>4. WhoAsksMust'
    BY <1>2 DEF CacheInv, CacheTypeOK, WhoAsksMust, Answer
  <1>5. AnswerIsOfItsWindow'
    <2>1. asked[s] - doc.at <= TTL /\ doc.from = begins(period, asked[s])
      BY <1>2, LiveCacheAssumption
    <2> QED BY <1>2, <2>1, AnswerInv
  <1> QED BY <1>3, <1>4, <1>5 DEF CacheInv

\* No step of a screen, of Influx or of the time breaks it
LEMMA CacheInvNext == CacheInv /\ [CacheNext]_cacheVars => CacheInv'
  <1> SUFFICES ASSUME CacheInv, [CacheNext]_cacheVars
               PROVE  CacheInv'
    OBVIOUS
  <1>1. CASE CacheClock \/ UNCHANGED cacheVars
    <2>1. /\ UNCHANGED <<period, cache, working, pc, asked, answer>>
          /\ clock' = clock + 1 \/ clock' = clock
      BY <1>1 DEF CacheClock, cacheVars
    <2>2. \A z \in Screen : Kept(asked[z])' <=> Kept(asked[z])
      BY <2>1 DEF Kept, still_same_window, begins, midnight
    <2>3. CacheTypeOK'
      BY <2>1 DEF CacheInv, CacheTypeOK
    <2>4. WhoAsksMust'
      BY <2>1, <2>2 DEF CacheInv, WhoAsksMust
    <2>5. AnswerIsOfItsWindow'
      BY <2>1 DEF CacheInv, AnswerIsOfItsWindow, begins, midnight
    <2> QED BY <2>3, <2>4, <2>5 DEF CacheInv
  <1>2. ASSUME NEW s \in Screen, Polls(s) \/ Looks(s) \/ LooksAgain(s)
        PROVE  CacheInv'
    BY <1>2, ScreenInv
  <1>3. ASSUME NEW s \in Screen, Queries(s)
        PROVE  CacheInv'
    BY <1>3, QueriesInv
  <1> QED BY <1>1, <1>2, <1>3 DEF CacheNext

\* Nothing is kept at first
LEMMA CacheInitInv == CacheInit => CacheInv
  BY LiveCacheAssumption
     DEF CacheInit, CacheInv, CacheTypeOK, WhoAsksMust, AnswerIsOfItsWindow

\* What a screen is told is of the window it asked for and no older than it may be,
\* with the lock and without (banks.py, supply.py, energy.py)
THEOREM AnswersAreInTheirWindow == CacheSpec => []AnswerIsOfItsWindow
  <1>1. CacheInv => AnswerIsOfItsWindow
    BY DEF CacheInv
  <1> QED BY <1>1, CacheInitInv, CacheInvNext, PTL DEF CacheSpec

\* And where the lock is held, as banks.py and supply.py do, an answer is never
\* replaced by another for which it would have done
THEOREM AskedOnce == Locked => (CacheSpec => AnswersAreShared)
  <1> SUFFICES ASSUME Locked
               PROVE  CacheSpec => AnswersAreShared
    OBVIOUS
  <1>1. CacheInv => AnswerIsOfItsWindow
    BY DEF CacheInv
  <1>2. CacheInv =>
          [\A s \in Screen :
             pc[s] = "queries" /\ cache' # cache /\ pc'[s] = "idle" => ~Kept(asked[s])]_cacheVars
    BY DEF CacheInv, WhoAsksMust
  <1> QED BY <1>1, <1>2, CacheInitInv, CacheInvNext, PTL
          DEF CacheSpec, AnswersAreShared, QueriedOnce

-----------------------------------------------------------------------------
(* Supply attributed to demand (LiveSupply)                                *)

SupplyTypeOK ==
    /\ slot \in Nat
    /\ solar.v \in Nat /\ solar.t \in Int /\ counter.v \in Nat /\ counter.t \in Int
    /\ night.total \in Nat /\ night.count \in Nat

\* What a slice is of: energy out of the sources and into the demands, which the
\* house makes up to what there is
IsSlice(s) ==
    /\ s.solar \in Nat /\ s.battery \in Nat /\ s.charge \in Nat /\ s.export \in Nat
    /\ s.load \in Nat
    /\ s.house = NoLess(s.solar + s.battery - s.charge - s.export - s.load)

SupplyInv == SupplyTypeOK /\ IsSlice(slice)

-----------------------------------------------------------------------------
(* Products of energies                                                    *)

\* More of them is more
LEMMA MoreOf ==
    ASSUME NEW a \in Nat, NEW b \in Nat, NEW c \in Nat, a <= b
    PROVE  a * c <= b * c /\ a * c \in Nat
  OBVIOUS

\* The parts make up the whole
LEMMA PartsOf ==
    ASSUME NEW d \in Nat, NEW a \in Int, NEW b \in Int, NEW c \in Int
    PROVE  d * a + d * b + d * c = d * (a + b + c) /\ d * a + d * b = d * (a + b)
  OBVIOUS

\* Either way round
LEMMA Turned == ASSUME NEW a \in Nat, NEW b \in Nat PROVE a * b = b * a /\ a * b \in Nat
  OBVIOUS

\* A slice is made of energies
LEMMA SliceIs ==
    ASSUME NEW a \in Nat, NEW b \in Nat, NEW c \in Nat, NEW d \in Nat, NEW e \in Nat
    PROVE  IsSlice(SliceOf(a, b, c, d, e))
  BY DEF SliceOf, IsSlice

\* What solar and battery have left, and what is wanted of it
LEMMA PoolIs ==
    ASSUME NEW s, IsSlice(s)
    PROVE  /\ s.house \in Nat /\ Wanted(s) \in Nat /\ Pool(s) \in Nat
           /\ ChargeOfSolar(s) \in Nat /\ ChargeOfBattery(s) \in Nat /\ ExportOfSolar(s) \in Nat
           /\ SolarLeft(s) \in Nat /\ BatteryLeft(s) \in Nat
           /\ s.charge - ChargeOfSolar(s) - ChargeOfBattery(s) \in Nat
           /\ s.export - ExportOfSolar(s) \in Nat
           /\ Pool(s) = SolarLeft(s) + BatteryLeft(s)
           /\ s.solar = ChargeOfSolar(s) + ExportOfSolar(s) + SolarLeft(s)
           /\ s.battery = ChargeOfBattery(s) + BatteryLeft(s)
           /\ Wanted(s) = s.load + s.house
           /\ shares(s) \in Nat \ {0} /\ Pool(s) <= shares(s) /\ Wanted(s) <= shares(s)
  <1>1. /\ s.solar \in Nat /\ s.battery \in Nat /\ s.charge \in Nat /\ s.export \in Nat
        /\ s.load \in Nat /\ s.house \in Nat
    BY DEF IsSlice, NoLess
  <1>2. ChargeOfSolar(s) \in Nat /\ ChargeOfSolar(s) <= s.charge /\ ChargeOfSolar(s) <= s.solar
    BY <1>1 DEF ChargeOfSolar, Least
  <1>3. /\ ChargeOfBattery(s) \in Nat /\ ChargeOfBattery(s) <= s.charge - ChargeOfSolar(s)
        /\ ChargeOfBattery(s) <= s.battery
    BY <1>1, <1>2 DEF ChargeOfBattery, Least
  <1>4. /\ ExportOfSolar(s) \in Nat /\ ExportOfSolar(s) <= s.export
        /\ ExportOfSolar(s) <= s.solar - ChargeOfSolar(s)
    BY <1>1, <1>2 DEF ExportOfSolar, Least
  <1>5. SolarLeft(s) \in Nat /\ s.solar = ChargeOfSolar(s) + ExportOfSolar(s) + SolarLeft(s)
    BY <1>1, <1>2, <1>4 DEF SolarLeft
  <1>6. BatteryLeft(s) \in Nat /\ s.battery = ChargeOfBattery(s) + BatteryLeft(s)
    BY <1>1, <1>3 DEF BatteryLeft
  <1>7. /\ Pool(s) = SolarLeft(s) + BatteryLeft(s) /\ Pool(s) \in Nat
        /\ Wanted(s) = s.load + s.house /\ Wanted(s) \in Nat
    BY <1>1, <1>5, <1>6 DEF Pool, Wanted
  <1>8. shares(s) \in Nat \ {0} /\ Pool(s) <= shares(s) /\ Wanted(s) <= shares(s)
    BY <1>7 DEF shares, Most
  <1>9. /\ s.charge - ChargeOfSolar(s) - ChargeOfBattery(s) \in Nat
        /\ s.export - ExportOfSolar(s) \in Nat
    BY <1>1, <1>2, <1>3, <1>4
  <1> QED BY <1>1, <1>2, <1>3, <1>4, <1>5, <1>6, <1>7, <1>8, <1>9

\* Where what is measured is within the supply, the charge and the export are met, and
\* what is left is what is wanted
LEMMA NothingIsLacking ==
    ASSUME NEW s, IsSlice(s), s.charge + s.export + s.load <= s.solar + s.battery,
           s.export <= SolarLeft(s) + ExportOfSolar(s)
    PROVE  /\ s.charge - ChargeOfSolar(s) - ChargeOfBattery(s) = 0
           /\ s.export - ExportOfSolar(s) = 0
           /\ Wanted(s) = 0 \/ shares(s) - Pool(s) = 0
  <1>1. s.charge - ChargeOfSolar(s) - ChargeOfBattery(s) = 0
    BY DEF IsSlice, ChargeOfSolar, ChargeOfBattery, Least
  <1>2. s.export - ExportOfSolar(s) = 0
    BY DEF IsSlice, SolarLeft, ExportOfSolar, ChargeOfSolar, Least
  <1>3. Wanted(s) = Pool(s)
    <2>1. s.house = s.solar + s.battery - s.charge - s.export - s.load
      BY DEF IsSlice, NoLess
    <2> QED BY <1>1, <1>2, <2>1, PoolIs DEF IsSlice
  <1>4. Wanted(s) = 0 \/ shares(s) = Pool(s)
    BY <1>3, PoolIs DEF shares, Most
  <1> QED BY <1>1, <1>2, <1>4, PoolIs

\* The shares of the load, or of the house
Spread(s, want, left) == IF Wanted(s) = 0 THEN 0 ELSE want * left

\* Link by link, what allocate() says
LEMMA LinksAre ==
    ASSUME NEW s
    PROVE  LET D == shares(s)
               links == allocate(s)
           IN /\ links[<<"solar", "charge">>] = D * ChargeOfSolar(s)
              /\ links[<<"battery", "charge">>] = D * ChargeOfBattery(s)
              /\ links[<<"unmatched", "charge">>]
                   = D * (s.charge - ChargeOfSolar(s) - ChargeOfBattery(s))
              /\ links[<<"solar", "export">>] = D * ExportOfSolar(s)
              /\ links[<<"unmatched", "export">>] = D * (s.export - ExportOfSolar(s))
              /\ links[<<"battery", "export">>] = 0
              /\ links[<<"solar", "load">>] = Spread(s, s.load, SolarLeft(s))
              /\ links[<<"battery", "load">>] = Spread(s, s.load, BatteryLeft(s))
              /\ links[<<"unmatched", "load">>] = Spread(s, s.load, D - Pool(s))
              /\ links[<<"solar", "house">>] = Spread(s, s.house, SolarLeft(s))
              /\ links[<<"battery", "house">>] = Spread(s, s.house, BatteryLeft(s))
              /\ links[<<"unmatched", "house">>] = Spread(s, s.house, D - Pool(s))
  BY DEF allocate, Spread, Source, Demand

\* A demand is spread over the sources without rest
LEMMA SpreadIs ==
    ASSUME NEW s, IsSlice(s), NEW want \in Nat, want <= Wanted(s)
    PROVE  /\ Spread(s, want, SolarLeft(s)) \in Nat
           /\ Spread(s, want, BatteryLeft(s)) \in Nat
           /\ Spread(s, want, shares(s) - Pool(s)) \in Nat
           /\ Spread(s, want, SolarLeft(s)) + Spread(s, want, BatteryLeft(s))
                + Spread(s, want, shares(s) - Pool(s)) = shares(s) * want
  <1> DEFINE D == shares(s)
             a == SolarLeft(s)
             b == BatteryLeft(s)
             c == D - Pool(s)
  <1>1. a \in Nat /\ b \in Nat /\ c \in Nat /\ D \in Nat /\ a + b + c = D
    BY PoolIs
  <1>2. CASE Wanted(s) = 0
    <2>1. want = 0
      BY <1>2
    <2> HIDE DEF D, a, b, c
    <2>2. D * want = 0
      BY <1>1, <2>1
    <2> QED BY <1>2, <2>2 DEF Spread, D
  <1>3. CASE Wanted(s) # 0
    <2>1. /\ Spread(s, want, a) = want * a /\ Spread(s, want, b) = want * b
          /\ Spread(s, want, c) = want * c
      BY <1>3 DEF Spread
    <2> HIDE DEF D, a, b, c
    <2>2. want * a + want * b + want * c = want * (a + b + c)
      BY <1>1, PartsOf
    <2>3. want * a \in Nat /\ want * b \in Nat /\ want * c \in Nat /\ want * D = D * want
      BY <1>1, Turned
    <2> QED BY <1>1, <2>1, <2>2, <2>3 DEF D, a, b, c
  <1> QED BY <1>2, <1>3

\* What a source spreads over the load and the house is no more than its part
LEMMA SpreadIsLeft ==
    ASSUME NEW s, IsSlice(s), NEW left \in Nat
    PROVE  Spread(s, s.load, left) + Spread(s, s.house, left) <= shares(s) * left
  <1>1. s.load \in Nat /\ s.house \in Nat /\ Wanted(s) = s.load + s.house
        /\ Wanted(s) <= shares(s) /\ shares(s) \in Nat /\ Wanted(s) \in Nat
    BY PoolIs DEF IsSlice
  <1>2. shares(s) * left \in Nat /\ Wanted(s) * left <= shares(s) * left
    BY <1>1, MoreOf, Turned
  <1>3. s.load * left + s.house * left = Wanted(s) * left
    <2>1. left * s.load + left * s.house = left * (s.load + s.house)
      BY <1>1, PartsOf
    <2> QED BY <1>1, <2>1, Turned
  <1> QED BY <1>2, <1>3 DEF Spread

\* A slice balances
LEMMA AllocateBalances ==
    ASSUME IsSlice(slice)
    PROVE  SliceBalances
  <1> DEFINE s == slice
             D == shares(s)
             links == allocate(s)
             lack == s.charge - ChargeOfSolar(s) - ChargeOfBattery(s)
             short == s.export - ExportOfSolar(s)
  <1>1. /\ D \in Nat /\ ChargeOfSolar(s) \in Nat /\ ChargeOfBattery(s) \in Nat /\ lack \in Nat
        /\ ExportOfSolar(s) \in Nat /\ short \in Nat /\ SolarLeft(s) \in Nat
        /\ BatteryLeft(s) \in Nat /\ D - Pool(s) \in Nat
        /\ s.solar = ChargeOfSolar(s) + ExportOfSolar(s) + SolarLeft(s)
        /\ s.battery = ChargeOfBattery(s) + BatteryLeft(s)
        /\ s.load \in Nat /\ s.house \in Nat /\ s.load <= Wanted(s) /\ s.house <= Wanted(s)
    BY PoolIs DEF IsSlice
  <1>2. /\ s.charge = ChargeOfSolar(s) + ChargeOfBattery(s) + lack
        /\ s.export = ExportOfSolar(s) + short
    BY <1>1 DEF IsSlice
  <1>3. /\ links[<<"solar", "charge">>] = D * ChargeOfSolar(s)
        /\ links[<<"battery", "charge">>] = D * ChargeOfBattery(s)
        /\ links[<<"unmatched", "charge">>] = D * lack
        /\ links[<<"solar", "export">>] = D * ExportOfSolar(s)
        /\ links[<<"unmatched", "export">>] = D * short
        /\ links[<<"battery", "export">>] = 0
    BY LinksAre
  <1>4. /\ links[<<"solar", "load">>] = Spread(s, s.load, SolarLeft(s))
        /\ links[<<"battery", "load">>] = Spread(s, s.load, BatteryLeft(s))
        /\ links[<<"unmatched", "load">>] = Spread(s, s.load, D - Pool(s))
        /\ links[<<"solar", "house">>] = Spread(s, s.house, SolarLeft(s))
        /\ links[<<"battery", "house">>] = Spread(s, s.house, BatteryLeft(s))
        /\ links[<<"unmatched", "house">>] = Spread(s, s.house, D - Pool(s))
    BY LinksAre
  <1>5. /\ links[<<"solar", "charge">>] \in Nat /\ links[<<"battery", "charge">>] \in Nat
        /\ links[<<"unmatched", "charge">>] \in Nat /\ links[<<"solar", "export">>] \in Nat
        /\ links[<<"unmatched", "export">>] \in Nat /\ links[<<"battery", "export">>] \in Nat
    BY <1>1, <1>3, Turned
  <1>6. /\ links[<<"solar", "load">>] \in Nat /\ links[<<"battery", "load">>] \in Nat
        /\ links[<<"unmatched", "load">>] \in Nat
        /\ links[<<"solar", "load">>] + links[<<"battery", "load">>]
             + links[<<"unmatched", "load">>] = D * s.load
    BY <1>1, <1>4, SpreadIs
  <1>7. /\ links[<<"solar", "house">>] \in Nat /\ links[<<"battery", "house">>] \in Nat
        /\ links[<<"unmatched", "house">>] \in Nat
        /\ links[<<"solar", "house">>] + links[<<"battery", "house">>]
             + links[<<"unmatched", "house">>] = D * s.house
    BY <1>1, <1>4, SpreadIs
  <1>8. /\ links[<<"solar", "load">>] + links[<<"solar", "house">>] <= D * SolarLeft(s)
        /\ links[<<"battery", "load">>] + links[<<"battery", "house">>] <= D * BatteryLeft(s)
    BY <1>1, <1>4, SpreadIsLeft
  <1> HIDE DEF links, D, lack, short
  <1>9. \A l \in Source \X Demand : links[l] >= 0
    <2> SUFFICES ASSUME NEW src \in Source, NEW d \in Demand
                 PROVE  links[<<src, d>>] \in Nat
      OBVIOUS
    <2> HIDE DEF s
    <2> QED BY <1>5, <1>6, <1>7 DEF Source, Demand
  <1>10. \A d \in Demand : To(links, d) = D * s[d]
    <2>1. To(links, "charge") = D * s.charge
      <3>1. D * ChargeOfSolar(s) + D * ChargeOfBattery(s) + D * lack = D * s.charge
        BY <1>1, <1>2, PartsOf
      <3> QED BY <1>3, <3>1 DEF To
    <2>2. To(links, "export") = D * s.export
      <3>1. D * ExportOfSolar(s) + D * short = D * s.export
        BY <1>1, <1>2, PartsOf
      <3>2. D * ExportOfSolar(s) \in Nat /\ D * short \in Nat
        BY <1>1, Turned
      <3> QED BY <1>3, <3>1, <3>2 DEF To
    <2>3. To(links, "load") = D * s.load /\ To(links, "house") = D * s.house
      BY <1>6, <1>7 DEF To
    <2> HIDE DEF s
    <2> QED BY <2>1, <2>2, <2>3 DEF Demand
  <1>11. From(links, "solar") <= D * s.solar
    <2>1. D * ChargeOfSolar(s) + D * ExportOfSolar(s) + D * SolarLeft(s) = D * s.solar
      BY <1>1, PartsOf
    <2>2. /\ D * ChargeOfSolar(s) \in Nat /\ D * ExportOfSolar(s) \in Nat
          /\ D * SolarLeft(s) \in Nat
      BY <1>1, Turned
    <2> QED BY <1>3, <1>6, <1>7, <1>8, <2>1, <2>2 DEF From
  <1>12. From(links, "battery") <= D * s.battery
    <2>1. D * ChargeOfBattery(s) + D * BatteryLeft(s) = D * s.battery
      BY <1>1, PartsOf
    <2>2. D * ChargeOfBattery(s) \in Nat /\ D * BatteryLeft(s) \in Nat
      BY <1>1, Turned
    <2> QED BY <1>3, <1>6, <1>7, <1>8, <2>1, <2>2 DEF From
  <1>13. ASSUME s.charge + s.export + s.load <= s.solar + s.battery,
                s.export <= s.solar - ChargeOfSolar(s)
         PROVE  From(links, "unmatched") = 0
    <2>0. s.export <= SolarLeft(s) + ExportOfSolar(s)
      BY <1>1, <1>13 DEF SolarLeft, IsSlice
    <2>1. lack = 0 /\ short = 0 /\ (Wanted(s) = 0 \/ D - Pool(s) = 0)
      BY <1>13, <2>0, NothingIsLacking DEF lack, short, D
    <2>2. Spread(s, s.load, D - Pool(s)) = 0 /\ Spread(s, s.house, D - Pool(s)) = 0
      BY <1>1, <2>1 DEF Spread
    <2>3. D * lack = 0 /\ D * short = 0
      BY <1>1, <2>1
    <2> QED BY <1>3, <1>4, <2>2, <2>3 DEF From
  <1> QED BY <1>9, <1>10, <1>11, <1>12, <1>13 DEF SliceBalances, links, D

-----------------------------------------------------------------------------
(* The slices of a day                                                     *)

\* The next slice is made of energies too
LEMMA SupplyInvNext == SupplyInv /\ [SupplyNext]_supplyVars => SupplyInv'
  <1> SUFFICES ASSUME SupplyInv, [SupplyNext]_supplyVars
               PROVE  SupplyInv'
    OBVIOUS
  <1>1. CASE NextSlice
    <2>1. /\ slot' \in Nat /\ solar'.v \in Nat /\ solar'.t \in Int
          /\ counter'.v \in Nat /\ counter'.t \in Int
      BY <1>1, LiveSupplyAssumption DEF SupplyInv, SupplyTypeOK, NextSlice, Bucket
    <2>2. PICK w \in (-1..1) \X (-1..1) :
            LET sun == Held(solar', slot', 1)
                load == IF counter'.t = slot' THEN Rise(counter, counter'.v) ELSE 0
            IN /\ night' = NightOf(night, sun, w)
               /\ slice' = SliceOf(sun, Discharge(w), Charge(w), Export(night', sun, w), load)
      BY <1>1 DEF NextSlice
    <2> DEFINE sun == Held(solar', slot', 1)
               load == IF counter'.t = slot' THEN Rise(counter, counter'.v) ELSE 0
    <2>3. sun \in Nat
      BY <2>1 DEF Held
    <2>4. load \in Nat
      BY <2>1 DEF Rise, NoLess, SupplyInv, SupplyTypeOK
    <2>5. w[1] \in Int /\ w[2] \in Int
      OBVIOUS
    <2>6. Net(w) \in Int /\ Discharge(w) \in Nat /\ Charge(w) \in Nat
      BY <2>5 DEF Net, Discharge, Charge, NoLess
    <2>7. night'.total \in Nat /\ night'.count \in Nat
      BY <2>2, <2>6 DEF NightOf, SupplyInv, SupplyTypeOK
    <2>8. NightLoad(night') \in Int
      BY <2>7 DEF NightLoad
    <2>9. Export(night', sun, w) \in Nat
      BY <2>3, <2>6, <2>8 DEF Export, NoLess
    <2>10. IsSlice(slice)'
      <3>1. slice' = SliceOf(sun, Discharge(w), Charge(w), Export(night', sun, w), load)
        BY <2>2
      <3> HIDE DEF sun, load
      <3>2. IsSlice(SliceOf(sun, Discharge(w), Charge(w), Export(night', sun, w), load))
        BY <2>3, <2>4, <2>6, <2>9, SliceIs
      <3>3. IsSlice(slice')
        BY <3>1, <3>2
      <3> QED BY <3>3 DEF IsSlice
    <2> QED BY <2>1, <2>7, <2>10 DEF SupplyInv, SupplyTypeOK
  <1>2. CASE UNCHANGED supplyVars
    BY <1>2 DEF supplyVars, SupplyInv, SupplyTypeOK, IsSlice
  <1> QED BY <1>1, <1>2 DEF SupplyNext

\* And the first is
LEMMA SupplyInitInv == SupplyInit => SupplyInv
  <1> SUFFICES ASSUME SupplyInit
               PROVE  SupplyInv
    OBVIOUS
  <1>1. IsSlice(slice)
    BY SliceIs DEF SupplyInit
  <1> QED BY <1>1 DEF SupplyInit, SupplyInv, SupplyTypeOK, NoBucket, Bucket

\* Every demand of a slice is met exactly, no source gives more than it made, nothing
\* flows backwards, and nothing is unmatched while what is measured is within the supply
\* (supply.py, allocate)
THEOREM EverySliceBalances == SupplySpec => []SliceBalances
  <1>1. SupplyInv => SliceBalances
    BY AllocateBalances DEF SupplyInv
  <1> QED BY <1>1, SupplyInitInv, SupplyInvNext, PTL DEF SupplySpec

-----------------------------------------------------------------------------
(* A counter's day (FeedCounter)                                           *)

\* What the operator keeps
Delta == [start : Int \cup {None}, base : Int \cup {None}, last : Int \cup {None},
          prev : Int \cup {None}, below : Seq(Int), carry : Int]

CounterTypeOK ==
    /\ delta \in Delta
    /\ day \in Nat /\ count \in Nat /\ calm \in 0..CONFIRM
    /\ epoch \in Nat \cup {None} /\ gained \in Int /\ seen \in Nat \cup {None}

\* The day's beginning, at the tick that begins it and until the next
ThisDay == period_start(day * Day)

\* Nothing was told of the day yet
Fresh ==
    /\ epoch = None /\ gained = 0
    /\ delta.start = None \/ delta.start = ThisDay
    /\ delta_roll(delta, day * Day) = DeltaOf(ThisDay)

\* The operator has what the node has counted
Settled ==
    /\ epoch # None /\ count = seen /\ epoch <= seen
    /\ delta.last = seen /\ delta.last - delta.base + delta.carry = gained + seen - epoch
    /\ delta.prev # None => delta.prev >= delta.last - CONFIRM /\ delta.prev <= delta.last
    /\ delta.below # <<>> => calm = 0 /\ Len(delta.below) = 1

\* What the node has told since the disturbance, which is not believed yet
Waiting ==
    /\ Len(delta.below) = calm /\ calm < CONFIRM /\ Rising(delta.below)
    /\ calm > 0 => count = seen /\ delta.below[calm] = seen /\ delta.below[1] <= seen

\* It is a line's that was corrupted
Spiked ==
    /\ Waiting
    /\ epoch # None /\ count = seen /\ delta.prev # None /\ epoch <= delta.prev
    /\ delta.last = MaxReading /\ delta.carry - delta.base = gained - epoch
    /\ delta.prev <= seen /\ seen <= delta.prev + calm
    /\ calm > 0 => delta.below[1] >= delta.prev

\* It is of before the node began again
Restarted ==
    /\ Waiting
    /\ delta.last >= RestartFrom /\ delta.last - delta.base + delta.carry = gained
    /\ delta.prev # None => delta.prev >= delta.last - CONFIRM
    /\ count <= calm
    /\ calm = 0 => epoch = None
    /\ calm > 0 => epoch # None /\ epoch = delta.below[1] /\ epoch <= 1

CounterInv ==
    /\ CounterTypeOK
    /\ IF seen = None THEN Fresh
       ELSE /\ delta.start = ThisDay /\ delta.base # None /\ delta.last # None /\ seen # None
            /\ Settled \/ Spiked \/ Restarted

-----------------------------------------------------------------------------
(* What a reading makes of the operator                                    *)

\* What is in it
LEMMA DeltaIs ==
    ASSUME NEW s \in Delta
    PROVE  /\ s.start \in Int \cup {None} /\ s.base \in Int \cup {None}
           /\ s.last \in Int \cup {None} /\ s.prev \in Int \cup {None}
           /\ s.below \in Seq(Int) /\ s.carry \in Int
           /\ Len(s.below) \in Nat
  BY DEF Delta

\* A period begins with nothing
LEMMA DeltaOfIs ==
    ASSUME NEW start \in Int \cup {None}
    PROVE  /\ DeltaOf(start) \in Delta
           /\ DeltaOf(start).start = start /\ DeltaOf(start).base = None
           /\ DeltaOf(start).carry = 0 /\ DeltaOf(start).below = <<>>
           /\ DeltaOf(start).prev = None
  BY DEF DeltaOf, Delta

\* The first of a period is what the rest are counted from
LEMMA AcceptFirst ==
    ASSUME NEW s \in Delta, s.base = None, NEW v \in Int
    PROVE  LET r == delta_accept(s, v)
           IN /\ r \in Delta /\ r.start = s.start /\ r.base = v /\ r.last = v
              /\ r.prev = s.prev /\ r.below = s.below /\ r.carry = s.carry
  <1>1. delta_accept(s, v) = [s EXCEPT !.base = v, !.last = v]
    BY DEF delta_accept
  <1> QED BY <1>1 DEF Delta

\* A reading that goes forwards is believed at once
LEMMA AcceptForwards ==
    ASSUME NEW s \in Delta, s.base # None, NEW v \in Int, v >= s.last
    PROVE  LET r == delta_accept(s, v)
           IN /\ r \in Delta /\ r.start = s.start /\ r.base = s.base /\ r.last = v
              /\ r.prev = s.last /\ r.below = <<>> /\ r.carry = s.carry
  <1>1. delta_accept(s, v) = [s EXCEPT !.below = <<>>, !.prev = s.last, !.last = v]
    BY DEF delta_accept
  <1>2. <<>> \in Seq(Int)
    OBVIOUS
  <1> QED BY <1>1, <1>2 DEF Delta

\* One that goes backwards waits for as many as are believed
LEMMA AcceptLower ==
    ASSUME NEW s \in Delta, s.base # None, NEW v \in Int, ~(v >= s.last),
           Len(s.below) + 1 < CONFIRM
    PROVE  LET r == delta_accept(s, v)
           IN /\ r \in Delta /\ r.start = s.start /\ r.base = s.base /\ r.last = s.last
              /\ r.prev = s.prev /\ r.below = Append(s.below, v) /\ r.carry = s.carry
  <1> DEFINE run == Append(s.below, v)
  <1>1. run \in Seq(Int) /\ Len(run) = Len(s.below) + 1 /\ Len(run) \in Nat
    BY DeltaIs
  <1>2. ~(Len(run) >= CONFIRM)
    BY <1>1, CounterAssumption
  <1> HIDE DEF run
  <1>3. delta_accept(s, v) = [s EXCEPT !.below = run]
    BY <1>2 DEF delta_accept, run
  <1> QED BY <1>1, <1>3 DEF Delta, run

\* A run of them that goes on from the one before the last: that was a spike
LEMMA AcceptAfterSpike ==
    ASSUME NEW s \in Delta, s.base # None, NEW v \in Int, ~(v >= s.last),
           Len(s.below) + 1 >= CONFIRM, Rising(Append(s.below, v)),
           s.prev # None, Append(s.below, v)[1] >= s.prev
    PROVE  LET r == delta_accept(s, v)
           IN /\ r \in Delta /\ r.start = s.start /\ r.base = s.base /\ r.last = v
              /\ r.prev = s.prev /\ r.below = <<>> /\ r.carry = s.carry
  <1> DEFINE run == Append(s.below, v)
  <1>1. run \in Seq(Int) /\ Len(run) = Len(s.below) + 1 /\ Len(run) \in Nat /\ run[Len(run)] = v
    BY DeltaIs
  <1>2. Len(run) >= CONFIRM /\ <<>> \in Seq(Int)
    BY <1>1
  <1> HIDE DEF run
  <1>3. delta_accept(s, v) = delta_confirm(s, run)
    BY <1>2 DEF delta_accept, run
  <1>4. delta_accept(s, v) = [s EXCEPT !.last = v, !.below = <<>>]
    BY <1>1, <1>3 DEF delta_confirm, run
  <1> QED BY <1>2, <1>4 DEF Delta

\* One that begins far below the last: the node began again
LEMMA AcceptAfterRestart ==
    ASSUME NEW s \in Delta, s.base # None, NEW v \in Int, ~(v >= s.last), s.last # None,
           Len(s.below) + 1 >= CONFIRM, Rising(Append(s.below, v)),
           NEW w \in Int, w = Append(s.below, v)[1], ~(s.prev # None /\ w >= s.prev),
           2 * w < s.last
    PROVE  LET r == delta_accept(s, v)
           IN /\ r \in Delta /\ r.start = s.start /\ r.base = w /\ r.last = v
              /\ r.prev = None /\ r.below = <<>> /\ r.carry = s.carry + s.last - s.base
  <1> DEFINE run == Append(s.below, v)
  <1>1. run \in Seq(Int) /\ Len(run) = Len(s.below) + 1 /\ Len(run) \in Nat /\ run[Len(run)] = v
    BY DeltaIs
  <1>2. Len(run) >= CONFIRM /\ <<>> \in Seq(Int) /\ s.carry + s.last - s.base \in Int
    BY <1>1, DeltaIs
  <1> HIDE DEF run
  <1>3. delta_accept(s, v) = delta_confirm(s, run)
    BY <1>2 DEF delta_accept, run
  <1>4. delta_accept(s, v) = [s EXCEPT !.carry = s.carry + s.last - s.base, !.base = w,
                                       !.prev = None, !.last = v, !.below = <<>>]
    BY <1>1, <1>3 DEF delta_confirm, run
  <1> QED BY <1>2, <1>4 DEF Delta

\* A run stays rising with a reading no lower than its last
LEMMA RisingOn ==
    ASSUME NEW s \in Seq(Int), Rising(s), NEW v \in Int, Len(s) > 0 => s[Len(s)] <= v
    PROVE  /\ Rising(Append(s, v)) /\ Append(s, v) \in Seq(Int)
           /\ Len(Append(s, v)) = Len(s) + 1 /\ Append(s, v)[Len(s) + 1] = v
           /\ Append(s, v)[1] = IF Len(s) = 0 THEN v ELSE s[1]
  <1>1. /\ Append(s, v) \in Seq(Int) /\ Len(Append(s, v)) = Len(s) + 1 /\ Len(s) \in Nat
        /\ Append(s, v)[Len(s) + 1] = v /\ \A i \in 1..Len(s) : Append(s, v)[i] = s[i]
    OBVIOUS
  <1>2. ASSUME NEW i \in 1..Len(s)
        PROVE  Append(s, v)[i] <= Append(s, v)[i + 1]
    <2>1. CASE i = Len(s)
      BY <1>1, <2>1
    <2>2. CASE i # Len(s)
      <3>1. i \in 1..Len(s) - 1 /\ i + 1 \in 1..Len(s)
        BY <1>1, <2>2
      <3> QED BY <1>1, <3>1 DEF Rising
    <2> QED BY <2>1, <2>2
  <1>3. Rising(Append(s, v))
    <2>1. Len(Append(s, v)) - 1 = Len(s)
      BY <1>1
    <2> QED BY <1>2, <2>1 DEF Rising
  <1> QED BY <1>1, <1>3

\* A day begins after the day before it
LEMMA DaysDiffer ==
    ASSUME NEW d \in Nat
    PROVE  /\ period_start(d * Day) \in Int
           /\ period_start((d + 1) * Day) # period_start(d * Day)
  <1>1. Day \in Nat /\ Day > 0
    BY CounterAssumption
  <1>2. \A t \in Nat : /\ (t \div Day) * Day \in Int
                       /\ (t \div Day) * Day <= t /\ t < (t \div Day) * Day + Day
    BY <1>1
  <1>3. d * Day \in Nat /\ (d + 1) * Day \in Nat /\ (d + 1) * Day = d * Day + Day
    BY <1>1
  <1> DEFINE p(t) == (t \div Day) * Day
  <1>4. /\ p(d * Day) \in Int /\ p(d * Day) <= d * Day
        /\ p((d + 1) * Day) \in Int /\ (d + 1) * Day < p((d + 1) * Day) + Day
    BY <1>2, <1>3
  <1> HIDE DEF p
  <1>5. p((d + 1) * Day) > p(d * Day)
    BY <1>1, <1>3, <1>4
  <1> QED BY <1>4, <1>5 DEF period_start, p

-----------------------------------------------------------------------------
(* The steps                                                               *)

\* A total goes on from any of its readings
LEMMA GoesOn ==
    ASSUME NEW last \in Int, NEW base \in Int, NEW carry \in Int, NEW g \in Int, NEW e \in Int,
           NEW v \in Int, last - base + carry = g + last - e
    PROVE  v - base + carry = g + v - e
  OBVIOUS

\* What is heard on a day of which something was told
LEMMA HeardIs ==
    ASSUME CounterInv, seen # None, NEW v, Hears(v)
    PROVE  delta' = delta_accept(delta, v) /\ delta \in Delta
  BY DEF CounterInv, CounterTypeOK, Hears, delta_update, delta_roll, ThisDay

\* The first reading of a day
LEMMA FirstReads ==
    ASSUME CounterInv, Reads, seen = None
    PROVE  CounterInv'
  <1>1. /\ Hears(count') /\ count' \in Nat /\ epoch' = count' /\ seen' = count' /\ day' = day
        /\ gained' = gained /\ calm' \in 0..CONFIRM
    BY CounterAssumption DEF Reads, CounterInv, CounterTypeOK
  <1>2. ThisDay \in Int /\ ThisDay' = ThisDay
    BY <1>1, DaysDiffer DEF CounterInv, CounterTypeOK, ThisDay
  <1>3. gained = 0 /\ delta' = delta_accept(DeltaOf(ThisDay), count')
    BY <1>1 DEF CounterInv, Fresh, Hears, delta_update
  <1>4. /\ delta' \in Delta /\ delta'.start = ThisDay /\ delta'.base = count'
        /\ delta'.last = count' /\ delta'.prev = None /\ delta'.below = <<>> /\ delta'.carry = 0
    <2>1. /\ DeltaOf(ThisDay) \in Delta /\ DeltaOf(ThisDay).start = ThisDay
          /\ DeltaOf(ThisDay).base = None /\ DeltaOf(ThisDay).carry = 0
          /\ DeltaOf(ThisDay).below = <<>> /\ DeltaOf(ThisDay).prev = None
      BY <1>2, DeltaOfIs
    <2> QED BY <1>1, <1>3, <2>1, AcceptFirst
  <1>5. CounterTypeOK'
    BY <1>1, <1>4 DEF CounterInv, CounterTypeOK
  <1>6. seen' # None /\ delta'.base # None /\ delta'.last # None
    BY <1>1, <1>4, CounterAssumption
  <1>7. Settled'
    BY <1>1, <1>3, <1>4, <1>6 DEF Settled
  <1> QED BY <1>2, <1>4, <1>5, <1>6, <1>7 DEF CounterInv

\* The others
LEMMA NextReads ==
    ASSUME CounterInv, Reads, seen # None
    PROVE  CounterInv'
  <1>1. PICK more \in {0, 1} :
          /\ count + more <= MaxCount /\ count' = count + more /\ Hears(count')
          /\ epoch' = IF seen = None \/ epoch = None THEN count' ELSE epoch
          /\ seen' = count'
          /\ calm' = IF calm < CONFIRM THEN calm + 1 ELSE calm
          /\ UNCHANGED <<day, gained>>
    BY DEF Reads
  <1> DEFINE v == count'
  <1>2. /\ delta' = delta_accept(delta, v) /\ delta \in Delta /\ delta.base # None
        /\ delta.start = ThisDay /\ ThisDay' = ThisDay /\ delta.last # None
        /\ Settled \/ Spiked \/ Restarted
    BY <1>1, HeardIs DEF CounterInv, ThisDay
  <1>3. /\ v \in Nat /\ seen' = v /\ count \in Nat /\ count <= v /\ v <= count + 1 /\ v <= MaxCount
        /\ calm \in 0..CONFIRM /\ calm' \in 0..CONFIRM /\ gained \in Int /\ gained' = gained
        /\ epoch \in Nat \cup {None} /\ seen' # None /\ seen \in Nat
        /\ epoch' = IF epoch = None THEN v ELSE epoch
        /\ CONFIRM \in Nat /\ CONFIRM >= 2
    BY <1>1, CounterAssumption DEF CounterInv, CounterTypeOK
  <1>4. /\ delta.base \in Int /\ delta.last \in Int /\ delta.carry \in Int
        /\ delta.below \in Seq(Int) /\ Len(delta.below) \in Nat /\ delta.prev \in Int \cup {None}
    BY <1>2, DeltaIs
  <1>5. ASSUME delta' \in Delta, delta'.start = delta.start, delta'.base # None,
               delta'.last # None, Settled' \/ Spiked' \/ Restarted'
        PROVE  CounterInv'
    <2>1. CounterTypeOK'
      BY <1>1, <1>3, <1>5 DEF CounterInv, CounterTypeOK
    <2> QED BY <1>2, <1>3, <1>5, <2>1 DEF CounterInv
  <1>6. CASE Settled
    <2>1. /\ epoch # None /\ count = seen /\ epoch <= seen /\ delta.last = seen
          /\ delta.last - delta.base + delta.carry = gained + seen - epoch
      BY <1>6 DEF Settled
    <2>2. v >= delta.last
      BY <1>3, <2>1
    <2>3. /\ delta' \in Delta /\ delta'.start = delta.start /\ delta'.base = delta.base
          /\ delta'.last = v /\ delta'.prev = delta.last /\ delta'.below = <<>>
          /\ delta'.carry = delta.carry
      BY <1>2, <1>3, <2>2, AcceptForwards
    <2>4. /\ epoch' = epoch /\ epoch \in Nat /\ epoch <= v
          /\ v - delta.base + delta.carry = gained + v - epoch
          /\ seen >= v - CONFIRM /\ seen <= v
      <3>1. v \in Nat /\ epoch' = epoch /\ epoch \in Nat /\ seen <= v /\ v <= seen + 1
        BY <1>3, <2>1
      <3> HIDE DEF v
      <3>2. seen >= v - CONFIRM /\ epoch <= v
        BY <1>3, <2>1, <3>1
      <3>3. v - delta.base + delta.carry = gained + v - epoch
        <4>1. /\ delta.last \in Int /\ delta.base \in Int /\ delta.carry \in Int /\ gained \in Int
              /\ epoch \in Int /\ v \in Int
          BY <1>3, <1>4, <3>1
        <4>2. delta.last - delta.base + delta.carry = gained + delta.last - epoch
          BY <2>1
        <4> QED BY <4>1, <4>2, GoesOn
      <3> QED BY <3>1, <3>2, <3>3
    <2> HIDE DEF v
    <2>5. Settled'
      BY <1>3, <2>1, <2>3, <2>4 DEF Settled, v
    <2>6. delta'.base # None /\ delta'.last # None
      BY <1>2, <1>3, <2>3, CounterAssumption
    <2> QED BY <1>5, <2>3, <2>5, <2>6
  <1> DEFINE run == Append(delta.below, v)
  <1>7. ASSUME Waiting, v < delta.last, delta.below = <<>> \/ count = seen
        PROVE  /\ ~(v >= delta.last) /\ Rising(run) /\ run \in Seq(Int)
               /\ Len(run) = calm + 1 /\ calm' = calm + 1 /\ run[calm + 1] = v
               /\ run[1] = IF calm = 0 THEN v ELSE delta.below[1]
               /\ run[1] \in Int /\ run[1] <= v /\ Len(delta.below) = calm
    <2>1. /\ calm < CONFIRM /\ Len(delta.below) = calm
          /\ calm > 0 => delta.below[calm] <= v /\ delta.below[1] <= seen /\ seen <= v
      BY <1>3, <1>7 DEF Waiting
    <2>2. /\ Rising(run) /\ run \in Seq(Int) /\ Len(run) = calm + 1 /\ run[calm + 1] = v
          /\ run[1] = IF calm = 0 THEN v ELSE delta.below[1]
      BY <1>3, <1>4, <1>7, <2>1, RisingOn DEF Waiting
    <2>3. calm' = calm + 1 /\ ~(v >= delta.last) /\ 1 \in 1..Len(run)
      BY <1>1, <1>3, <1>4, <1>7, <2>1, <2>2
    <2>4. run[1] \in Int
      BY <2>2, <2>3
    <2>5. run[1] <= v
      BY <1>3, <2>1, <2>2, <2>4
    <2> QED BY <2>1, <2>2, <2>3, <2>4, <2>5
  <1>8. CASE Spiked
    <2>1. /\ Waiting /\ epoch # None /\ count = seen /\ epoch <= delta.prev
          /\ delta.last = MaxReading /\ delta.carry - delta.base = gained - epoch
          /\ delta.prev # None /\ delta.prev <= seen /\ seen <= delta.prev + calm
          /\ calm > 0 => delta.below[1] >= delta.prev
      BY <1>8 DEF Spiked
    <2>2. v < delta.last /\ delta.prev \in Int /\ epoch' = epoch /\ epoch \in Nat
      BY <1>3, <1>4, <2>1, CounterAssumption
    <2>3. /\ ~(v >= delta.last) /\ Rising(run) /\ run \in Seq(Int)
          /\ Len(run) = calm + 1 /\ calm' = calm + 1 /\ run[calm + 1] = v
          /\ run[1] = IF calm = 0 THEN v ELSE delta.below[1]
          /\ run[1] \in Int /\ run[1] <= v /\ Len(delta.below) = calm
      BY <1>7, <2>1, <2>2
    <2>4. /\ run[1] >= delta.prev /\ delta.prev <= v /\ v <= delta.prev + calm + 1
          /\ epoch <= v
      BY <1>3, <2>1, <2>2, <2>3
    <2>5. CASE calm + 1 < CONFIRM
      <3>1. /\ delta' \in Delta /\ delta'.start = delta.start /\ delta'.base = delta.base
            /\ delta'.last = delta.last /\ delta'.prev = delta.prev /\ delta'.below = run
            /\ delta'.carry = delta.carry
        BY <1>2, <1>3, <2>3, <2>5, AcceptLower
      <3> HIDE DEF run, v
      <3>2. Waiting'
        BY <1>3, <2>3, <2>5, <3>1 DEF Waiting, Rising, v
      <3>3. Spiked'
        BY <1>3, <2>1, <2>2, <2>3, <2>4, <3>1, <3>2 DEF Spiked, v
      <3> QED BY <1>2, <1>5, <3>1, <3>3
    <2>6. CASE ~(calm + 1 < CONFIRM)
      <3>1. Len(delta.below) + 1 >= CONFIRM
        BY <1>3, <2>3, <2>6
      <3>2. /\ delta' \in Delta /\ delta'.start = delta.start /\ delta'.base = delta.base
            /\ delta'.last = v /\ delta'.prev = delta.prev /\ delta'.below = <<>>
            /\ delta'.carry = delta.carry
        BY <1>2, <1>3, <2>1, <2>3, <2>4, <3>1, AcceptAfterSpike
      <3>3. calm + 1 = CONFIRM
        BY <1>3, <2>1, <2>6 DEF Waiting
      <3>4. /\ v - delta.base + delta.carry = gained + v - epoch
            /\ delta.prev >= v - CONFIRM
        <4>1. v \in Nat
          BY <1>3
        <4> HIDE DEF v
        <4>2. v - delta.base + delta.carry = gained + v - epoch
          <5>1. /\ delta.base \in Int /\ delta.carry \in Int /\ gained \in Int
                /\ epoch \in Int /\ v \in Int /\ delta.carry - delta.base = gained - epoch
            BY <1>3, <1>4, <2>1, <2>2, <4>1
          <5> QED BY <5>1
        <4>3. delta.prev >= v - CONFIRM
          BY <1>3, <2>2, <2>4, <3>3, <4>1
        <4> QED BY <4>2, <4>3
      <3> HIDE DEF run, v
      <3>5. Settled'
        BY <1>3, <2>1, <2>2, <2>4, <3>2, <3>4 DEF Settled, v
      <3>6. delta'.base # None /\ delta'.last # None
        BY <1>2, <1>3, <3>2, CounterAssumption
      <3> QED BY <1>5, <3>2, <3>5, <3>6
    <2> QED BY <2>5, <2>6
  <1>9. CASE Restarted
    <2>1. /\ Waiting /\ delta.last >= RestartFrom
          /\ delta.last - delta.base + delta.carry = gained
          /\ delta.prev # None => delta.prev >= delta.last - CONFIRM
          /\ count <= calm /\ (calm = 0 => epoch = None)
          /\ calm > 0 => epoch # None /\ epoch = delta.below[1] /\ epoch <= 1 /\ count = seen
      BY <1>9 DEF Restarted, Waiting
    <2>2. calm < CONFIRM /\ Len(delta.below) = calm
      BY <2>1 DEF Waiting
    <2>3. v < delta.last /\ v <= calm + 1
      BY <1>3, <1>4, <2>1, <2>2, CounterAssumption
    <2>4. delta.below = <<>> \/ count = seen
      BY <1>3, <1>4, <2>1, <2>2
    <2>5. /\ ~(v >= delta.last) /\ Rising(run) /\ run \in Seq(Int)
          /\ Len(run) = calm + 1 /\ calm' = calm + 1 /\ run[calm + 1] = v
          /\ run[1] = IF calm = 0 THEN v ELSE delta.below[1]
          /\ run[1] \in Int /\ run[1] <= v /\ Len(delta.below) = calm
      BY <1>7, <2>1, <2>3, <2>4
    <2>6. epoch' = run[1] /\ epoch' <= 1 /\ epoch' # None /\ epoch' <= v /\ epoch' \in Nat
      <3>1. CASE calm = 0
        BY <1>3, <2>1, <2>3, <2>5, <3>1
      <3>2. CASE calm > 0
        <4>1. epoch \in Nat /\ epoch' = epoch /\ epoch = delta.below[1] /\ epoch <= 1
          BY <1>3, <2>1, <3>2
        <4>2. delta.below[1] <= v
          <5>1. delta.below[1] <= seen /\ count = seen
            BY <2>1, <3>2 DEF Waiting
          <5>2. delta.below[1] \in Int
            BY <1>4, <2>5, <3>2
          <5> QED BY <1>3, <5>1, <5>2
        <4> QED BY <1>3, <2>5, <3>2, <4>1, <4>2
      <3> QED BY <1>3, <3>1, <3>2
    <2>7. CASE calm + 1 < CONFIRM
      <3>1. /\ delta' \in Delta /\ delta'.start = delta.start /\ delta'.base = delta.base
            /\ delta'.last = delta.last /\ delta'.prev = delta.prev /\ delta'.below = run
            /\ delta'.carry = delta.carry
        BY <1>2, <1>3, <2>5, <2>7, AcceptLower
      <3> HIDE DEF run, v
      <3>2. Waiting'
        BY <1>3, <2>5, <2>7, <3>1 DEF Waiting, Rising, v
      <3>3. calm' > 0
        BY <1>3, <2>5
      <3>4. Restarted'
        BY <1>3, <2>1, <2>3, <2>5, <2>6, <3>1, <3>2, <3>3 DEF Restarted, v
      <3> QED BY <1>2, <1>5, <3>1, <3>4
    <2>8. CASE ~(calm + 1 < CONFIRM)
      <3>1. Len(delta.below) + 1 >= CONFIRM
        BY <1>3, <2>5, <2>8
      <3>2. ~(delta.prev # None /\ run[1] >= delta.prev) /\ 2 * run[1] < delta.last
        <4>1. delta.last > CONFIRM + 1 /\ delta.last > 3 /\ run[1] <= 1
          BY <1>3, <1>4, <2>1, <2>6, CounterAssumption
        <4>2. delta.prev # None => delta.prev \in Int /\ delta.prev > 1
          BY <1>3, <1>4, <2>1, <4>1, CounterAssumption
        <4> HIDE DEF run
        <4>3. 2 * run[1] < delta.last
          BY <1>4, <2>5, <4>1
        <4> QED BY <2>5, <4>1, <4>2, <4>3
      <3>3. /\ delta' \in Delta /\ delta'.start = delta.start /\ delta'.base = run[1]
            /\ delta'.last = v /\ delta'.prev = None /\ delta'.below = <<>>
            /\ delta'.carry = delta.carry + delta.last - delta.base
        BY <1>2, <1>3, <2>5, <3>1, <3>2, AcceptAfterRestart
      <3>4. v - run[1] + (delta.carry + delta.last - delta.base) = gained + v - epoch'
        <4>1. /\ delta.carry + delta.last - delta.base = gained /\ v \in Int /\ epoch' = run[1]
              /\ gained \in Int /\ run[1] \in Int
          BY <1>3, <1>4, <2>1, <2>5, <2>6
        <4> HIDE DEF run, v
        <4> QED BY <4>1
      <3> HIDE DEF run, v
      <3>5. Settled'
        BY <1>3, <2>6, <3>3, <3>4 DEF Settled, v
      <3>6. delta'.base # None /\ delta'.last # None
        BY <1>3, <2>5, <3>3, CounterAssumption
      <3> QED BY <1>5, <3>3, <3>5, <3>6
    <2> QED BY <2>7, <2>8
  <1> QED BY <1>2, <1>6, <1>8, <1>9

\* Long enough after a disturbance the operator has it all, and nothing waits
LEMMA CalmIs ==
    ASSUME CounterInv, Calm
    PROVE  /\ Settled /\ delta.below = <<>> /\ delta \in Delta /\ delta.start = ThisDay
           /\ delta.base \in Int /\ delta.last \in Int /\ delta.carry \in Int
           /\ seen \in Nat /\ epoch \in Nat /\ gained \in Int /\ count \in Nat
           /\ delta.base # None /\ calm = CONFIRM
  <1>1. calm = CONFIRM /\ calm # 0
    BY CounterAssumption DEF Calm, CounterInv, CounterTypeOK
  <1>2. /\ Settled /\ delta \in Delta /\ delta.start = ThisDay
        /\ delta.base # None /\ delta.last # None
    BY <1>1, CounterAssumption DEF Calm, CounterInv, CounterTypeOK, Spiked, Restarted, Waiting
  <1> QED BY <1>1, <1>2, DeltaIs DEF Settled, CounterInv, CounterTypeOK, Calm

\* A lower reading that comes alone waits, and changes nothing else
LEMMA SetAside ==
    ASSUME CounterInv, Calm, NEW v \in Int, Hears(v), v < delta.last, calm' = 0,
           UNCHANGED <<day, count, epoch, gained, seen>>
    PROVE  CounterInv'
  <1>1. /\ delta' \in Delta /\ delta'.start = delta.start /\ delta'.base = delta.base
        /\ delta'.last = delta.last /\ delta'.prev = delta.prev
        /\ delta'.below = Append(<<>>, v) /\ delta'.carry = delta.carry
    <2>1. delta' = delta_accept(delta, v)
      BY HeardIs DEF Calm
    <2>2. Len(delta.below) = 0 /\ 0 + 1 < CONFIRM
      BY CalmIs, CounterAssumption
    <2> QED BY <2>1, <2>2, CalmIs, AcceptLower
  <1>2. Len(Append(<<>>, v)) = 1
    OBVIOUS
  <1>3. Settled'
    BY <1>1, <1>2, CalmIs DEF Settled
  <1>4. CounterTypeOK'
    BY <1>1, CounterAssumption DEF CounterInv, CounterTypeOK
  <1> QED BY <1>1, <1>3, <1>4, CalmIs, CounterAssumption DEF CounterInv, ThisDay, Calm

\* A relayed copy
LEMMA RelayedInv ==
    ASSUME CounterInv, Relayed
    PROVE  CounterInv'
  <1>1. PICK v \in {seen - 1, seen} : v >= epoch /\ Hears(v)
    BY DEF Relayed
  <1>2. /\ Calm /\ calm' = 0 /\ UNCHANGED <<day, count, epoch, gained, seen>>
    BY DEF Relayed
  <1>3. delta.last = seen /\ seen \in Nat /\ v \in Int
    BY <1>1, <1>2, CalmIs DEF Settled
  <1>4. CASE v = seen - 1
    <2>1. v < delta.last
      BY <1>3, <1>4
    <2> QED BY <1>1, <1>2, <1>3, <2>1, SetAside
  <1>5. CASE v = seen
    <2>1. /\ delta' \in Delta /\ delta'.start = delta.start /\ delta'.base = delta.base
          /\ delta'.last = v /\ delta'.prev = delta.last /\ delta'.below = <<>>
          /\ delta'.carry = delta.carry
      <3>1. delta' = delta_accept(delta, v)
        BY <1>1, <1>2, HeardIs DEF Calm
      <3>2. v >= delta.last
        BY <1>3, <1>5
      <3> QED BY <1>2, <1>3, <3>1, <3>2, CalmIs, AcceptForwards
    <2>2. /\ epoch # None /\ count = seen /\ epoch <= seen
          /\ delta.last - delta.base + delta.carry = gained + seen - epoch
      BY <1>2, CalmIs DEF Settled
    <2>3. seen >= seen - CONFIRM
      BY <1>3, CounterAssumption
    <2>4. Settled'
      BY <1>2, <1>3, <1>5, <2>1, <2>2, <2>3 DEF Settled
    <2>5. CounterTypeOK'
      BY <1>2, <2>1, CounterAssumption DEF CounterInv, CounterTypeOK
    <2> QED BY <1>2, <1>3, <2>1, <2>4, <2>5, CalmIs, CounterAssumption DEF CounterInv, ThisDay, Calm
  <1> QED BY <1>4, <1>5

\* A corrupted line
LEMMA CorruptedInv ==
    ASSUME CounterInv, Corrupted
    PROVE  CounterInv'
  <1>1. PICK v \in {0, MaxReading} : Hears(v)
    BY DEF Corrupted
  <1>2. /\ Calm /\ calm' = 0 /\ UNCHANGED <<day, count, epoch, gained, seen>>
    BY DEF Corrupted
  <1>3. /\ delta.last = seen /\ seen \in Nat /\ v \in Nat /\ epoch # None /\ count = seen
        /\ epoch <= seen /\ delta.last - delta.base + delta.carry = gained + seen - epoch
        /\ seen # None
    BY <1>1, <1>2, CalmIs, CounterAssumption DEF Settled, Calm
  <1>4. CASE v < delta.last
    BY <1>1, <1>2, <1>3, <1>4, SetAside
  <1>5. CASE ~(v < delta.last)
    <2>1. v >= delta.last
      BY <1>3, <1>5
    <2>2. /\ delta' \in Delta /\ delta'.start = delta.start /\ delta'.base = delta.base
          /\ delta'.last = v /\ delta'.prev = seen /\ delta'.below = <<>>
          /\ delta'.carry = delta.carry
      <3>1. delta' = delta_accept(delta, v)
        BY <1>1, <1>2, HeardIs DEF Calm
      <3> QED BY <1>2, <1>3, <2>1, <3>1, CalmIs, AcceptForwards
    <2>3. CounterTypeOK'
      BY <1>2, <2>2, CounterAssumption DEF CounterInv, CounterTypeOK
    <2>4. Settled' \/ Spiked'
      <3>1. CASE v = 0
        <4>1. v = seen /\ seen >= seen - CONFIRM
          BY <1>3, <2>1, <3>1, CounterAssumption
        <4> QED BY <1>2, <1>3, <2>2, <4>1 DEF Settled
      <3>2. CASE v = MaxReading
        <4>1. Waiting'
          BY <1>2, <2>2, CounterAssumption DEF Waiting, Rising
        <4>2. delta.carry - delta.base = gained - epoch
          BY <1>2, <1>3, CalmIs
        <4>3. seen <= seen + 0
          BY <1>3
        <4> QED BY <1>2, <1>3, <2>2, <3>2, <4>1, <4>2, <4>3 DEF Spiked
      <3> QED BY <1>1, <3>1, <3>2
    <2>5. delta'.last # None
      BY <1>3, <2>2, CounterAssumption
    <2> QED BY <1>2, <1>3, <2>2, <2>3, <2>4, <2>5, CalmIs DEF CounterInv, ThisDay
  <1> QED BY <1>4, <1>5

\* The node begins again: what it had counted today is what the operator has
LEMMA NodeRestartsInv ==
    ASSUME CounterInv, NodeRestarts
    PROVE  CounterInv'
  <1>1. /\ Calm /\ count >= RestartFrom /\ count' = 0 /\ gained' = gained + seen - epoch
        /\ epoch' = None /\ calm' = 0 /\ UNCHANGED <<delta, day, seen>>
    BY DEF NodeRestarts
  <1>2. /\ Settled /\ delta.below = <<>> /\ delta \in Delta /\ delta.start = ThisDay
        /\ delta.base # None /\ delta.last \in Int
        /\ seen \in Nat /\ epoch \in Nat /\ gained \in Int
    BY <1>1, CalmIs
  <1>3. CounterTypeOK'
    BY <1>1, <1>2, CounterAssumption DEF CounterInv, CounterTypeOK
  <1>4. Waiting'
    BY <1>1, <1>2, CounterAssumption DEF Waiting, Rising
  <1>5. Restarted'
    BY <1>1, <1>2, <1>4 DEF Restarted, Settled
  <1> QED BY <1>1, <1>2, <1>3, <1>5, CounterAssumption DEF CounterInv, ThisDay

\* A day begins with nothing told of it
LEMMA MidnightInv ==
    ASSUME CounterInv, Midnight
    PROVE  CounterInv'
  <1>1. /\ day' = day + 1 /\ delta' = delta_roll(delta, day' * Day) /\ day \in Nat
        /\ epoch' = None /\ gained' = 0 /\ seen' = None /\ UNCHANGED <<count, calm>>
    BY DEF Midnight, CounterInv, CounterTypeOK
  <1>2. delta.start = None \/ delta.start = ThisDay
    BY DEF CounterInv, Fresh
  <1>3. /\ ThisDay' \in Int /\ ThisDay' # ThisDay /\ ThisDay' = period_start(day' * Day)
        /\ day' \in Nat
    <2>1. day + 1 \in Nat
      BY <1>1
    <2> QED BY <1>1, <2>1, DaysDiffer DEF ThisDay
  <1>4. delta' = DeltaOf(ThisDay')
    BY <1>1, <1>2, <1>3, CounterAssumption DEF delta_roll
  <1>5. delta' \in Delta /\ delta'.start = ThisDay'
    BY <1>3, <1>4, DeltaOfIs
  <1>6. Fresh'
    BY <1>1, <1>3, <1>4, <1>5 DEF Fresh, delta_roll
  <1>7. CounterTypeOK'
    BY <1>1, <1>3, <1>5 DEF CounterInv, CounterTypeOK
  <1> QED BY <1>1, <1>6, <1>7 DEF CounterInv

\* As does the first
LEMMA CounterInitInv == CounterInit => CounterInv
  <1> SUFFICES ASSUME CounterInit
               PROVE  CounterInv
    OBVIOUS
  <1>1. delta \in Delta /\ delta.start = None
    BY DeltaOfIs DEF CounterInit
  <1>2. CounterTypeOK
    BY <1>1, CounterAssumption DEF CounterInit, CounterTypeOK
  <1>3. ThisDay \in Int /\ period_start(day * Day) = ThisDay
    BY DaysDiffer DEF CounterInit, ThisDay
  <1>4. delta_roll(delta, day * Day) = DeltaOf(ThisDay)
    BY <1>1, <1>3, CounterAssumption DEF delta_roll
  <1> QED BY <1>1, <1>2, <1>4 DEF CounterInit, CounterInv, Fresh

\* No reading, disturbance or midnight breaks it
LEMMA CounterInvNext == CounterInv /\ [CounterNext]_counterVars => CounterInv'
  <1>1. CounterInv /\ UNCHANGED counterVars => CounterInv'
    BY DEF counterVars, CounterInv, CounterTypeOK, Fresh, Settled, Spiked, Restarted, Waiting,
           ThisDay, Rising
  <1> QED BY <1>1, FirstReads, NextReads, RelayedInv, CorruptedInv, NodeRestartsInv, MidnightInv
          DEF CounterNext

\* Once a disturbance has been followed by as many readings as are believed, the day's
\* total is what the node counted in it (emon_feed.py, DailyDelta)
THEOREM EveryDayIsCounted == CounterSpec => []CountsTheDay
  <1>1. ASSUME CounterInv
        PROVE  CountsTheDay
    <2>1. ASSUME Calm
          PROVE  delta_value(delta) = gained + seen - epoch
      <3>1. Settled /\ delta.base # None
        BY <1>1, <2>1, CalmIs
      <3> QED BY <3>1 DEF Settled, delta_value
    <2> QED BY <2>1 DEF CountsTheDay
  <1> QED BY <1>1, CounterInitInv, CounterInvNext, PTL DEF CounterSpec

-----------------------------------------------------------------------------
(* What every page shows, and how old it is (Hud)                          *)

HudTypeOK ==
    /\ time \in Nat /\ motor_last \in Int /\ between \in Nat
    /\ turned \subseteq Int /\ said \subseteq Int
    /\ \A key \in DOMAIN values : values[key].t \in Int /\ values[key].t <= time
    /\ answering.open =>
          /\ answering.at \in Nat
          /\ \A key \in DOMAIN answering.snapshot.values :
                answering.snapshot.values[key].t \in Int

\* The motor turned last when it was last heard to, if it ever was
MotorIsKnown ==
    /\ \A t \in turned : t <= motor_last
    /\ \/ motor_last \in turned
       \/ turned = {} /\ motor_last = Never - MOTOR_HOLD_S
    /\ motor_last <= time

\* The last word of the recorder is the last that was said, if that was yes
RecordingIsKnown ==
    LET has == "recording" \in DOMAIN values
        last == values["recording"]
    IN /\ said # {} <=> has /\ Runs(last)
       /\ said # {} => last.t \in said /\ \A t \in said : t <= last.t

\* An answer is made of what there was when it was asked for, and between counts
\* what came since
SnapshotIsThen ==
    answering.open /\ between = 0 =>
        /\ answering.snapshot.values = values /\ answering.snapshot.motor_last = motor_last
        /\ motor_last <= answering.at

HudInv == HudTypeOK /\ MotorIsKnown /\ RecordingIsKnown /\ SnapshotIsThen /\ ShownIsCurrent

-----------------------------------------------------------------------------
(* Made of several readings                                                *)

\* The least of some numbers, where there is one
LEMMA LeastIs ==
    ASSUME NEW S, S \subseteq Int, NEW m \in S, \A x \in S : m <= x
    PROVE  Min(S) \in S /\ \A x \in S : Min(S) <= x
  BY DEF Min

\* No fresher than either of two
LEMMA OlderOfTwo ==
    ASSUME NEW a, NEW b, a.is => a.t \in Int, b.is => b.t \in Int, Older({a, b}).is
    PROVE  a.is /\ b.is /\ Older({a, b}).t <= a.t /\ Older({a, b}).t <= b.t
  <1>1. a.is /\ b.is
    BY DEF Older, Nothing
  <1>2. {r.t : r \in {a, b}} = {a.t, b.t} /\ a.t \in Int /\ b.t \in Int
    BY <1>1
  <1>3. PICK m \in {a.t, b.t} : \A x \in {a.t, b.t} : m <= x
    BY <1>2
  <1>4. Min({a.t, b.t}) <= a.t /\ Min({a.t, b.t}) <= b.t
    BY <1>2, <1>3, LeastIs
  <1> QED BY <1>1, <1>2, <1>4 DEF Older

\* Nor than any of three
LEMMA OlderOfThree ==
    ASSUME NEW a, NEW b, NEW c, a.is => a.t \in Int, b.is => b.t \in Int, c.is => c.t \in Int,
           Older({a, b, c}).is
    PROVE  /\ a.is /\ b.is /\ c.is
           /\ Older({a, b, c}).t <= a.t /\ Older({a, b, c}).t <= b.t
           /\ Older({a, b, c}).t <= c.t
  <1>1. a.is /\ b.is /\ c.is
    BY DEF Older, Nothing
  <1>2. {r.t : r \in {a, b, c}} = {a.t, b.t, c.t} /\ a.t \in Int /\ b.t \in Int /\ c.t \in Int
    BY <1>1
  <1>3. PICK m \in {a.t, b.t, c.t} : \A x \in {a.t, b.t, c.t} : m <= x
    <2>1. CASE a.t <= b.t /\ a.t <= c.t
      BY <1>2, <2>1
    <2>2. CASE b.t <= a.t /\ b.t <= c.t
      BY <1>2, <2>2
    <2>3. CASE c.t <= a.t /\ c.t <= b.t
      BY <1>2, <2>3
    <2> QED BY <1>2, <2>1, <2>2, <2>3
  <1>4. /\ Min({a.t, b.t, c.t}) <= a.t /\ Min({a.t, b.t, c.t}) <= b.t
        /\ Min({a.t, b.t, c.t}) <= c.t
    BY <1>2, <1>3, LeastIs
  <1> QED BY <1>1, <1>2, <1>4 DEF Older

\* A reading is there if its key is
LEMMA OfIs ==
    ASSUME NEW s, NEW key, \A k \in DOMAIN s.values : s.values[k].t \in Int
    PROVE  /\ Of(s, key).is <=> key \in DOMAIN s.values
           /\ Of(s, key).is => Of(s, key).t = s.values[key].t /\ Of(s, key).t \in Int
  BY DEF Of, Nothing

-----------------------------------------------------------------------------
(* The steps                                                               *)

\* An answer is as old as what it is made of
LEMMA AnsweredAge ==
    ASSUME HudInv, Answered
    PROVE  AsOldAsTheOldest'
  <1> DEFINE s == answering.snapshot
  <1>1. \A k \in DOMAIN s.values : s.values[k].t \in Int
    BY DEF HudInv, HudTypeOK, Answered
  <1>2. /\ shown'.snapshot = s /\ shown'.leeway = derive_leeway(s)
        /\ shown'.heel = derive_heel(s) /\ shown'.fields = derive(s, answering.at)
    BY DEF Answered
  <1>3. /\ shown'.fields.twa = Older({Of(s, "twd"), Of(s, "hdg")})
        /\ shown'.fields.awa = IF Of(s, "awa").is THEN Of(s, "awa")
                               ELSE Older({Of(s, "awd"), Of(s, "hdg")})
    BY <1>2 DEF derive
  <1> HIDE DEF s
  <1> DEFINE made(reading, keys) ==
        reading.is => \A k \in keys : k \in DOMAIN s.values /\ reading.t <= s.values[k].t
  <1>4. ASSUME NEW a, NEW b
        PROVE  made(Older({Of(s, a), Of(s, b)}), {a, b})
    BY <1>1, OfIs, OlderOfTwo
  <1>5. ASSUME NEW a, NEW b, NEW c
        PROVE  made(Older({Of(s, a), Of(s, b), Of(s, c)}), {a, b, c})
    BY <1>1, OfIs, OlderOfThree
  <1>6. made(shown'.fields.twa, {"twd", "hdg"})
    BY <1>3, <1>4
  <1>7. "awa" \notin DOMAIN s.values => made(shown'.fields.awa, {"awd", "hdg"})
    BY <1>1, <1>3, <1>4, OfIs
  <1>8. made(shown'.leeway, {"cog", "hdg", "sog"})
    <2>1. \/ shown'.leeway = Nothing
          \/ shown'.leeway = Older({Of(s, "cog"), Of(s, "hdg"), Of(s, "sog")})
      BY <1>2 DEF derive_leeway
    <2> QED BY <1>5, <2>1 DEF Nothing
  <1>9. made(shown'.heel, {"accy", "accz"})
    BY <1>2, <1>4 DEF derive_heel
  <1> HIDE DEF made
  <1> QED BY <1>2, <1>6, <1>7, <1>8, <1>9 DEF AsOldAsTheOldest, made

\* One rule for the fix, while nothing came in between
LEMMA AnsweredFix ==
    ASSUME HudInv, Answered
    PROVE  OneRuleForTheFix'
  <1> DEFINE s == answering.snapshot
             at == answering.at
  <1>1. /\ shown'.between = between /\ shown'.nav = fix_now(at)
        /\ shown'.position = derive_position(s, at)
    BY DEF Answered
  <1>2. between = 0 => s.values = values
    BY DEF HudInv, SnapshotIsThen, Answered
  <1>3. ASSUME between = 0
        PROVE  fix_now(at) <=> derive_position(s, at).is /\ ~derive_position(s, at).stale
    <2>1. Of([values |-> values], "position") = Of(s, "position")
      BY <1>2, <1>3 DEF Of
    <2>2. \A k \in DOMAIN s.values : s.values[k].t \in Int
      BY DEF HudInv, HudTypeOK, Answered
    <2>3. at \in Nat
      BY DEF HudInv, HudTypeOK, Answered
    <2>4. CASE Of(s, "position").is
      <3>1. Of(s, "position").t \in Int
        BY <2>2, <2>4, OfIs
      <3> DEFINE age == at - Of(s, "position").t
      <3>2. fix_now(at) <=> age <= POSITION_STALE_S
        BY <2>1, <2>4 DEF fix_now
      <3>3. derive_position(s, at).is /\ derive_position(s, at).stale = (age > POSITION_STALE_S)
        BY <2>4 DEF derive_position
      <3>4. age <= POSITION_STALE_S <=> ~(age > POSITION_STALE_S)
        BY <2>3, <3>1, HudAssumption
      <3> HIDE DEF age
      <3> QED BY <3>2, <3>3, <3>4
    <2>5. CASE ~Of(s, "position").is
      BY <2>1, <2>5 DEF fix_now, derive_position, Nothing
    <2> QED BY <2>4, <2>5
  <1> HIDE DEF s, at
  <1> QED BY <1>1, <1>3 DEF OneRuleForTheFix

\* The motor is up, and the dot lit, for as long as they are held
LEMMA AnsweredHolds ==
    ASSUME HudInv, Answered
    PROVE  MotorIsHeard' /\ DotIsLit'
  <1> DEFINE s == answering.snapshot
             at == answering.at
  <1>1. /\ shown'.between = between /\ shown'.at = at /\ shown'.said = said
        /\ shown'.turned = {t \in turned : t <= at}
        /\ shown'.fields.motor <=> at - s.motor_last < MOTOR_HOLD_S
        /\ shown'.recording = derive_recording(s, at)
    BY DEF Answered, derive
  <1>2. at \in Nat /\ motor_last \in Int /\ turned \subseteq Int /\ said \subseteq Int
        /\ (between = 0 => s.values = values /\ s.motor_last = motor_last /\ motor_last <= at)
    BY DEF HudInv, HudTypeOK, SnapshotIsThen, Answered
  <1> HIDE DEF s, at
  <1>3. ASSUME between = 0
        PROVE  at - motor_last < MOTOR_HOLD_S
                 <=> \E t \in {u \in turned : u <= at} : at - t < MOTOR_HOLD_S
    <2>1. CASE motor_last \in turned
      <3>1. motor_last \in {u \in turned : u <= at}
        BY <1>2, <1>3, <2>1
      <3>2. ASSUME NEW t \in turned, at - t < MOTOR_HOLD_S
            PROVE  at - motor_last < MOTOR_HOLD_S
        <4>1. t <= motor_last /\ t \in Int
          BY <1>2 DEF HudInv, MotorIsKnown
        <4> QED BY <1>2, <3>2, <4>1, HudAssumption
      <3> QED BY <3>1, <3>2
    <2>2. CASE turned = {} /\ motor_last = Never - MOTOR_HOLD_S
      <3>1. at - motor_last = at + 1 + MOTOR_HOLD_S
        BY <1>2, <2>2, HudAssumption DEF Never
      <3>2. ~(at - motor_last < MOTOR_HOLD_S)
        BY <1>2, <3>1, HudAssumption
      <3> QED BY <2>2, <3>2
    <2> QED BY <2>1, <2>2 DEF HudInv, MotorIsKnown
  <1>4. ASSUME between = 0
        PROVE  derive_recording(s, at) <=> \E t \in said : at - t <= RECORDING_STALE_S
    <2>1. derive_recording(s, at) <=>
            /\ "recording" \in DOMAIN values /\ Runs(values["recording"])
            /\ at - values["recording"].t <= RECORDING_STALE_S
      BY <1>2, <1>4 DEF derive_recording
    <2>2. CASE said = {}
      BY <2>1, <2>2 DEF HudInv, RecordingIsKnown
    <2>3. CASE said # {}
      <3>1. /\ "recording" \in DOMAIN values /\ Runs(values["recording"])
            /\ values["recording"].t \in said
            /\ \A t \in said : t <= values["recording"].t
        BY <2>3 DEF HudInv, RecordingIsKnown
      <3>2. ASSUME NEW t \in said, at - t <= RECORDING_STALE_S
            PROVE  at - values["recording"].t <= RECORDING_STALE_S
        <4>1. t \in Int /\ values["recording"].t \in Int /\ t <= values["recording"].t
          BY <1>2, <3>1
        <4> QED BY <1>2, <3>2, <4>1, HudAssumption
      <3> QED BY <2>1, <3>1, <3>2
    <2> QED BY <2>2, <2>3
  <1>5. MotorIsHeard'
    BY <1>1, <1>2, <1>3 DEF MotorIsHeard
  <1>6. DotIsLit'
    BY <1>1, <1>4 DEF DotIsLit
  <1> QED BY <1>5, <1>6

\* What is answered is current, and the next answer begins anew
LEMMA AnsweredInv ==
    ASSUME HudInv, Answered
    PROVE  HudInv'
  <1>1. /\ UNCHANGED <<values, motor_last, time, turned, said>>
        /\ answering' = Free /\ between' = 0
    BY DEF Answered
  <1>2. ShownIsCurrent'
    BY AnsweredAge, AnsweredFix, AnsweredHolds DEF ShownIsCurrent
  <1> QED BY <1>1, <1>2 DEF HudInv, HudTypeOK, MotorIsKnown, RecordingIsKnown, SnapshotIsThen,
                            Free

\* A snapshot is of now
LEMMA AskedInv ==
    ASSUME HudInv, Asked
    PROVE  HudInv'
  <1>1. /\ UNCHANGED <<values, motor_last, time, shown, turned, said>> /\ between' = 0
        /\ answering' = [open |-> TRUE, at |-> time,
                         snapshot |-> [values |-> values, motor_last |-> motor_last]]
    BY DEF Asked
  <1>2. ShownIsCurrent'
    BY <1>1 DEF HudInv, ShownIsCurrent, AsOldAsTheOldest, OneRuleForTheFix, MotorIsHeard, DotIsLit
  <1>3. HudTypeOK'
    BY <1>1 DEF HudInv, HudTypeOK
  <1> QED BY <1>1, <1>2, <1>3 DEF HudInv, HudTypeOK, MotorIsKnown, RecordingIsKnown, SnapshotIsThen

\* A reading comes in, also while an answer is made
LEMMA SetInv ==
    ASSUME HudInv, NEW key, NEW v \in Values(key), set(key, v)
    PROVE  HudInv'
  <1>1. /\ UNCHANGED <<time, answering, shown>>
        /\ values' = [k \in DOMAIN values \cup {key} |->
                        IF k = key THEN [v |-> v, t |-> time] ELSE values[k]]
        /\ motor_last' = MotorLast(key, v)
        /\ between' = IF answering.open THEN between + 1 ELSE 0
    BY DEF set
  <1>2. /\ time \in Nat /\ motor_last \in Int /\ between \in Nat /\ v \in Int
        /\ turned \subseteq Int /\ said \subseteq Int
    BY HudAssumption DEF HudInv, HudTypeOK, Values
  <1>3. ShownIsCurrent'
    BY <1>1 DEF HudInv, ShownIsCurrent, AsOldAsTheOldest, OneRuleForTheFix, MotorIsHeard, DotIsLit
  <1>4. /\ DOMAIN values' = DOMAIN values \cup {key} /\ values'[key] = [v |-> v, t |-> time]
        /\ \A k \in DOMAIN values : k # key => values'[k] = values[k]
    BY <1>1
  <1>5. MotorIsKnown' /\ motor_last' \in Int /\ turned' \subseteq Int
    <2>1. CASE key = "rpm" /\ v > RPM_DEADBAND
      <3>1. motor_last' = time /\ turned' = turned \cup {time} /\ time' = time
        BY <2>1, <1>1 DEF set, MotorLast
      <3>2. \A t \in turned : t <= motor_last /\ motor_last <= time
        BY DEF HudInv, MotorIsKnown
      <3>3. \A t \in turned' : t <= motor_last'
        BY <1>2, <3>1, <3>2
      <3> QED BY <1>2, <3>1, <3>3 DEF MotorIsKnown
    <2>2. CASE ~(key = "rpm" /\ v > RPM_DEADBAND)
      BY <1>1, <1>2, <2>2 DEF set, MotorLast, HudInv, MotorIsKnown
    <2> QED BY <2>1, <2>2
  <1>6. RecordingIsKnown' /\ said' \subseteq Int
    <2>1. CASE key = "recording" /\ v > RPM_DEADBAND
      <3>1. said' = said \cup {time} /\ values'["recording"].t = time /\ values'["recording"].v = v
        BY <1>4, <2>1 DEF set
      <3>2. \A t \in said : t <= time
        <4>1. ASSUME NEW t \in said
              PROVE  t <= time
          <5>1. /\ "recording" \in DOMAIN values /\ t <= values["recording"].t
            BY DEF HudInv, RecordingIsKnown
          <5>2. values["recording"].t \in Int /\ values["recording"].t <= time
            BY <5>1 DEF HudInv, HudTypeOK
          <5> QED BY <1>2, <5>1, <5>2
        <4> QED BY <4>1
      <3>3. said' # {} /\ \A t \in said' : t <= time
        BY <1>2, <3>1, <3>2
      <3>4. "recording" \in DOMAIN values' /\ Runs(values["recording"])'
        BY <1>4, <2>1, <3>1 DEF Runs
      <3>5. values'["recording"].t \in said' /\ said' \subseteq Int
        BY <1>2, <3>1
      <3> QED BY <3>1, <3>3, <3>4, <3>5 DEF RecordingIsKnown
    <2>2. CASE key = "recording" /\ ~(v > RPM_DEADBAND)
      <3>1. said' = {} /\ values'["recording"].v = v
        BY <1>4, <2>2 DEF set
      <3> QED BY <2>2, <3>1 DEF RecordingIsKnown, Runs
    <2>3. CASE key # "recording"
      <3>1. said' = said /\ ("recording" \in DOMAIN values' <=> "recording" \in DOMAIN values)
            /\ ("recording" \in DOMAIN values => values'["recording"] = values["recording"])
        BY <1>4, <2>3 DEF set
      <3> QED BY <1>2, <3>1 DEF HudInv, RecordingIsKnown, Runs
    <2> QED BY <2>1, <2>2, <2>3
  <1>7. between' \in Nat /\ (answering'.open => between' # 0)
    BY <1>1, <1>2
  <1>8. SnapshotIsThen'
    BY <1>1, <1>7 DEF SnapshotIsThen
  <1>9. HudTypeOK'
    <2>1. \A k \in DOMAIN values' : values'[k].t \in Int
      BY <1>2, <1>4 DEF HudInv, HudTypeOK
    <2> QED BY <1>1, <1>2, <1>5, <1>6, <1>7, <2>1 DEF HudInv, HudTypeOK
  <1> QED BY <1>3, <1>5, <1>6, <1>8, <1>9 DEF HudInv

\* Nothing is shown at first
LEMMA HudInitInv == HudInit => HudInv
  BY HudAssumption DEF HudInit, HudInv, HudTypeOK, MotorIsKnown, RecordingIsKnown, SnapshotIsThen,
     ShownIsCurrent, Free, Never

\* No step breaks it
LEMMA HudInvNext == HudInv /\ [HudNext]_hudVars => HudInv'
  <1> SUFFICES ASSUME HudInv, [HudNext]_hudVars
               PROVE  HudInv'
    OBVIOUS
  <1>1. CASE Passes \/ UNCHANGED hudVars
    <2>1. /\ time' = time + 1 \/ time' = time
          /\ UNCHANGED <<values, motor_last, answering, between, shown, turned, said>>
      BY <1>1 DEF Passes, hudVars
    <2>2. HudTypeOK'
      BY <2>1 DEF HudInv, HudTypeOK
    <2>3. MotorIsKnown'
      BY <2>1 DEF HudInv, HudTypeOK, MotorIsKnown
    <2> QED BY <2>1, <2>2, <2>3 DEF HudInv, RecordingIsKnown, SnapshotIsThen, ShownIsCurrent,
            AsOldAsTheOldest, OneRuleForTheFix, MotorIsHeard, DotIsLit
  <1>2. ASSUME NEW key \in heard, NEW v \in Values(key), set(key, v)
        PROVE  HudInv'
    BY <1>2, SetInv
  <1> QED BY <1>1, <1>2, AskedInv, AnsweredInv DEF HudNext

\* What is shown is as old as it says, and what has fallen silent goes out, whatever
\* comes in while an answer is being made (store.py)
THEOREM ShownAsOldAsItIs == HudSpec => []ShownIsCurrent
  <1>1. HudInv => ShownIsCurrent
    BY DEF HudInv
  <1> QED BY <1>1, HudInitInv, HudInvNext, PTL DEF HudSpec

-----------------------------------------------------------------------------
(* The day's trail and the page that draws it (RaceTrail)                  *)

Point == [seq : Nat, at : Int, t : Nat, nth : Nat]

\* Each follows the one before it
Unbroken(s) == \A i \in 1..Len(s) - 1 : s[i + 1].nth = s[i].nth + 1

\* How many fixes were kept before those that are numbered in this life
Earlier == kept - trail_seq

TrailTypeOK ==
    /\ now \in Nat /\ life \in Nat /\ kept \in Nat /\ trail_seq \in Nat
    /\ trail \in Seq(Point) /\ drawn \in Seq(Point)
    /\ since \in Nat \cup {Null} /\ sinceLife \in Nat /\ overtaken \in BOOLEAN
    /\ coming # NothingComes =>
          /\ coming.next \in Nat /\ coming.nth \in Nat /\ coming.of \in Nat
          /\ coming.replace \in BOOLEAN /\ coming.points \in Seq(Point)

\* The trail is the last fixes that were kept, and is numbered so
TrailIsNumbered ==
    /\ trail_seq <= kept /\ Len(trail) <= trail_seq /\ Len(trail) <= TRAIL_MAX_POINTS
    /\ trail = <<>> <=> trail_seq = 0
    /\ \A i \in 1..Len(trail) :
          trail[i].seq = trail_seq - Len(trail) + i /\ trail[i].nth = kept - Len(trail) + i

\* What the page has ends at the fix that it asks from, if that is of this life
PageFollows ==
    /\ since = Null => drawn = <<>>
    /\ sinceLife <= life
    /\ ~overtaken => Unbroken(drawn)
    /\ ~overtaken /\ sinceLife = life /\ since # Null =>
          /\ since <= trail_seq
          /\ since = 0 => drawn = <<>>
          /\ since > 0 => drawn # <<>> /\ LastOf(drawn).nth = since + Earlier

\* What is to be appended begins where the line ends, and goes to the nth fix
Joins(points, nth) ==
    /\ points # <<>> =>
          /\ LastOf(points).nth = nth
          /\ drawn # <<>> => points[1].nth = LastOf(drawn).nth + 1
    /\ points = <<>> => drawn # <<>> /\ LastOf(drawn).nth = nth

\* An answer on its way goes to the newest fix of when it was made
AnswerFollows ==
    coming # NothingComes =>
       /\ coming.of <= life /\ Unbroken(coming.points)
       /\ coming.of = life => coming.next <= trail_seq /\ coming.nth - coming.next = Earlier
       /\ coming.replace =>
             /\ coming.next = 0 => coming.points = <<>>
             /\ coming.next > 0 => /\ coming.points # <<>>
                                   /\ LastOf(coming.points).nth = coming.nth
       /\ ~coming.replace =>
             /\ since # Null /\ since <= coming.next /\ coming.next > 0
             /\ ~overtaken /\ sinceLife = coming.of => Joins(coming.points, coming.nth)

TrailInv == TrailTypeOK /\ TrailIsNumbered /\ PageFollows /\ AnswerFollows

-----------------------------------------------------------------------------
(* Points and sequences of them                                            *)

\* A sequence with a length is not empty
LEMMA NotEmpty ==
    ASSUME NEW P, NEW s \in Seq(P), Len(s) > 0
    PROVE  s # <<>>
  OBVIOUS

\* What is left out is left out at the front
LEMMA PrunedIs ==
    ASSUME NEW P, NEW s \in Seq(P), s # <<>>
    PROVE  /\ Pruned(s) \in Seq(P) /\ Pruned(s) # <<>>
           /\ Len(Pruned(s)) \in 1..Len(s) /\ Len(Pruned(s)) <= TRAIL_MAX_POINTS
           /\ \A i \in 1..Len(Pruned(s)) : Pruned(s)[i] = s[Len(s) - Len(Pruned(s)) + i]
  <1>1. CASE Len(s) > TRAIL_MAX_POINTS
    <2> DEFINE m == Len(s) - TRAIL_MAX_POINTS + 1
    <2>1. Pruned(s) = SubSeq(s, m, Len(s)) /\ m \in 2..Len(s) /\ Len(s) \in Nat
      BY <1>1, RaceTrailAssumption DEF Pruned
    <2>2. /\ SubSeq(s, m, Len(s)) \in Seq(P) /\ Len(SubSeq(s, m, Len(s))) = Len(s) - m + 1
          /\ \A i \in 1..Len(s) - m + 1 : SubSeq(s, m, Len(s))[i] = s[m + i - 1]
      BY <2>1
    <2>3. \A i \in 1..Len(s) - m + 1 : m + i - 1 = Len(s) - (Len(s) - m + 1) + i
      BY <2>1
    <2>4. \A i \in 1..Len(s) - m + 1 : SubSeq(s, m, Len(s))[i] = s[Len(s) - (Len(s) - m + 1) + i]
      BY <2>2, <2>3
    <2> HIDE DEF m
    <2>5. Len(s) - m + 1 \in 1..Len(s) /\ Len(s) - m + 1 <= TRAIL_MAX_POINTS
      BY <2>1, RaceTrailAssumption DEF m
    <2>6. SubSeq(s, m, Len(s)) # <<>>
      BY <2>2, <2>5, NotEmpty
    <2>7. \A i \in 1..Len(SubSeq(s, m, Len(s))) :
            SubSeq(s, m, Len(s))[i] = s[Len(s) - Len(SubSeq(s, m, Len(s))) + i]
      BY <2>2, <2>4
    <2> QED BY <2>1, <2>2, <2>5, <2>6, <2>7
  <1>2. CASE ~(Len(s) > TRAIL_MAX_POINTS)
    <2>1. Pruned(s) = s /\ Len(s) \in Nat \ {0} /\ Len(s) <= TRAIL_MAX_POINTS
      BY <1>2, RaceTrailAssumption DEF Pruned
    <2> QED BY <2>1
  <1> QED BY <1>1, <1>2

\* The tail of a sequence
LEMMA TailIs ==
    ASSUME NEW P, trail \in Seq(P), NEW from \in Nat \ {0}
    PROVE  /\ Tail_(from) \in Seq(P)
           /\ Tail_(from) = <<>> <=> from > Len(trail)
           /\ from <= Len(trail) =>
                /\ Len(Tail_(from)) = Len(trail) - from + 1
                /\ \A i \in 1..Len(trail) - from + 1 : Tail_(from)[i] = trail[from + i - 1]
  <1>1. CASE from > Len(trail)
    BY <1>1 DEF Tail_
  <1>2. CASE ~(from > Len(trail))
    <2>1. Tail_(from) = SubSeq(trail, from, Len(trail)) /\ Len(trail) \in Nat
          /\ from \in 1..Len(trail)
      BY <1>2 DEF Tail_
    <2>2. /\ SubSeq(trail, from, Len(trail)) \in Seq(P)
          /\ Len(SubSeq(trail, from, Len(trail))) = Len(trail) - from + 1
          /\ \A i \in 1..Len(trail) - from + 1 :
                SubSeq(trail, from, Len(trail))[i] = trail[from + i - 1]
      BY <2>1
    <2>3. Len(trail) - from + 1 > 0
      BY <2>1
    <2>4. SubSeq(trail, from, Len(trail)) # <<>>
      BY <2>2, <2>3, NotEmpty
    <2> QED BY <1>2, <2>1, <2>2, <2>4
  <1> QED BY <1>1, <1>2

\* Two unbroken lines, the second of which goes on from the first, are one
LEMMA JoinedIs ==
    ASSUME NEW P, NEW s \in Seq(P), NEW u \in Seq(P), Unbroken(s), Unbroken(u),
           s # <<>> /\ u # <<>> => u[1].nth = LastOf(s).nth + 1
    PROVE  /\ Unbroken(s \o u) /\ s \o u \in Seq(P)
           /\ s \o u = <<>> <=> s = <<>> /\ u = <<>>
           /\ u # <<>> => LastOf(s \o u) = LastOf(u)
           /\ u = <<>> => s \o u = s
  <1>1. /\ s \o u \in Seq(P) /\ Len(s) \in Nat /\ Len(u) \in Nat /\ Len(s \o u) = Len(s) + Len(u)
        /\ \A i \in 1..Len(s) : (s \o u)[i] = s[i]
        /\ \A i \in 1..Len(u) : (s \o u)[Len(s) + i] = u[i]
    OBVIOUS
  <1>2. /\ u = <<>> => s \o u = s
        /\ s \o u = <<>> <=> s = <<>> /\ u = <<>>
        /\ s # <<>> => Len(s) > 0
        /\ u # <<>> => Len(u) > 0
    BY <1>1
  <1>3. u # <<>> => LastOf(s \o u) = LastOf(u)
    BY <1>1, <1>2 DEF LastOf
  <1>4. ASSUME NEW i \in 1..Len(s \o u) - 1
        PROVE  (s \o u)[i + 1].nth = (s \o u)[i].nth + 1
    <2>1. CASE i < Len(s)
      <3>1. i \in 1..Len(s) - 1 /\ i \in 1..Len(s) /\ i + 1 \in 1..Len(s)
        BY <1>1, <2>1
      <3> QED BY <1>1, <3>1 DEF Unbroken
    <2>2. CASE i = Len(s)
      <3>1. i \in 1..Len(s) /\ 1 \in 1..Len(u) /\ s # <<>> /\ u # <<>>
        BY <1>1, <2>2
      <3>2. (s \o u)[i] = LastOf(s) /\ (s \o u)[i + 1] = u[1]
        BY <1>1, <2>2, <3>1 DEF LastOf
      <3> QED BY <3>1, <3>2
    <2>3. CASE i > Len(s)
      <3>1. PICK j \in 1..Len(u) - 1 : i = Len(s) + j
        <4>1. i - Len(s) \in 1..Len(u) - 1 /\ i = Len(s) + (i - Len(s))
          BY <1>1, <2>3
        <4> QED BY <4>1
      <3>2. /\ j \in 1..Len(u) /\ j + 1 \in 1..Len(u) /\ i + 1 = Len(s) + (j + 1)
        BY <1>1, <3>1
      <3>3. (s \o u)[i] = u[j] /\ (s \o u)[i + 1] = u[j + 1]
        BY <1>1, <3>1, <3>2
      <3> QED BY <3>1, <3>3 DEF Unbroken
    <2> QED BY <1>1, <2>1, <2>2, <2>3
  <1> QED BY <1>1, <1>2, <1>3, <1>4 DEF Unbroken

\* The trail itself is unbroken, and ends at the fix that was kept last
LEMMA TrailUnbroken ==
    ASSUME TrailTypeOK, TrailIsNumbered
    PROVE  /\ Unbroken(trail)
           /\ trail # <<>> => LastOf(trail).nth = kept
  <1>1. Len(trail) \in Nat /\ (trail # <<>> => Len(trail) > 0) /\ kept \in Nat
    BY DEF TrailTypeOK
  <1>2. ASSUME NEW i \in 1..Len(trail) - 1
        PROVE  trail[i + 1].nth = trail[i].nth + 1
    <2>1. i \in 1..Len(trail) /\ i + 1 \in 1..Len(trail)
      BY <1>1
    <2>2. trail[i].nth = kept - Len(trail) + i /\ trail[i + 1].nth = kept - Len(trail) + (i + 1)
      BY <2>1 DEF TrailIsNumbered
    <2> QED BY <1>1, <2>2
  <1>3. trail # <<>> => LastOf(trail).nth = kept - Len(trail) + Len(trail)
    BY <1>1 DEF TrailIsNumbered, LastOf
  <1> QED BY <1>1, <1>2, <1>3 DEF Unbroken

-----------------------------------------------------------------------------
(* The steps                                                               *)

\* A fix that is kept is the next of the trail
LEMMA KeepsNumbered ==
    ASSUME TrailTypeOK, TrailIsNumbered, NEW p \in Int, WorthKeeping(p), AppendTrail(p),
           kept' = kept + 1
    PROVE  /\ trail' \in Seq(Point) /\ trail_seq' = trail_seq + 1
           /\ TrailIsNumbered'
  <1> DEFINE point == [seq |-> trail_seq + 1, at |-> p, t |-> now, nth |-> kept + 1]
             s == Append(KeptToday, point)
  <1>1. trail_seq' = trail_seq + 1 /\ trail' = Pruned(s)
    BY DEF AppendTrail
  <1>2. point \in Point /\ point.seq = trail_seq + 1 /\ point.nth = kept + 1
    BY DEF TrailTypeOK, Point
  <1>3. KeptToday \in Seq(Point) /\ Len(KeptToday) \in Nat /\ Len(KeptToday) <= trail_seq
        /\ \A i \in 1..Len(KeptToday) : /\ KeptToday[i].seq = trail_seq - Len(KeptToday) + i
                                        /\ KeptToday[i].nth = kept - Len(KeptToday) + i
    <2>1. CASE KeptToday = trail
      BY <2>1 DEF TrailTypeOK, TrailIsNumbered
    <2>2. CASE KeptToday = <<>>
      BY <2>2 DEF TrailTypeOK
    <2> QED BY <2>1, <2>2 DEF KeptToday
  <1> HIDE DEF point
  <1>4. /\ s \in Seq(Point) /\ Len(s) = Len(KeptToday) + 1 /\ s # <<>>
        /\ s[Len(s)] = point
        /\ \A i \in 1..Len(KeptToday) : s[i] = KeptToday[i]
    BY <1>2, <1>3
  <1> HIDE DEF s
  <1>5. trail_seq \in Nat /\ kept \in Nat /\ trail_seq <= kept
    BY DEF TrailTypeOK, TrailIsNumbered
  <1>6. \A i \in 1..Len(s) :
          /\ s[i].seq = trail_seq + 1 - Len(s) + i
          /\ s[i].nth = kept + 1 - Len(s) + i
    <2> SUFFICES ASSUME NEW i \in 1..Len(s)
                 PROVE  /\ s[i].seq = trail_seq + 1 - Len(s) + i
                        /\ s[i].nth = kept + 1 - Len(s) + i
      OBVIOUS
    <2>1. CASE i = Len(s)
      BY <1>2, <1>3, <1>4, <1>5, <2>1
    <2>2. CASE i # Len(s)
      <3>1. i \in 1..Len(KeptToday)
        BY <1>3, <1>4, <2>2
      <3>2. /\ s[i].seq = trail_seq - Len(KeptToday) + i
            /\ s[i].nth = kept - Len(KeptToday) + i
        BY <1>3, <1>4, <3>1
      <3> QED BY <1>3, <1>4, <1>5, <3>1, <3>2
    <2> QED BY <2>1, <2>2
  <1>7. /\ Pruned(s) \in Seq(Point) /\ Pruned(s) # <<>> /\ Len(Pruned(s)) \in 1..Len(s)
        /\ Len(Pruned(s)) <= TRAIL_MAX_POINTS
        /\ \A i \in 1..Len(Pruned(s)) : Pruned(s)[i] = s[Len(s) - Len(Pruned(s)) + i]
    BY <1>4, PrunedIs
  <1> DEFINE n == Len(Pruned(s))
  <1>8. \A i \in 1..n : /\ Pruned(s)[i].seq = trail_seq + 1 - n + i
                        /\ Pruned(s)[i].nth = kept + 1 - n + i
    <2> SUFFICES ASSUME NEW i \in 1..n
                 PROVE  /\ Pruned(s)[i].seq = trail_seq + 1 - n + i
                        /\ Pruned(s)[i].nth = kept + 1 - n + i
      OBVIOUS
    <2>1. Len(s) \in Nat /\ n \in 1..Len(s)
      BY <1>3, <1>4, <1>7
    <2>2. Pruned(s)[i] = s[Len(s) - n + i]
      BY <1>7
    <2> HIDE DEF n
    <2>3. Len(s) - n + i \in 1..Len(s)
      BY <2>1
    <2>4. /\ Pruned(s)[i].seq = trail_seq + 1 - Len(s) + (Len(s) - n + i)
          /\ Pruned(s)[i].nth = kept + 1 - Len(s) + (Len(s) - n + i)
      BY <1>6, <2>2, <2>3
    <2> QED BY <1>5, <2>1, <2>4
  <1>9. n <= trail_seq + 1
    BY <1>3, <1>4, <1>5, <1>7
  <1> QED BY <1>1, <1>5, <1>7, <1>8, <1>9 DEF TrailIsNumbered

\* A fix comes in; what the page has and what is on its way stay right
LEMMA OnPositionInv ==
    ASSUME TrailInv, NEW p \in Spot, OnPosition(p)
    PROVE  TrailInv'
  <1>1. /\ UNCHANGED <<now, life, since, drawn, sinceLife, coming, overtaken>> /\ AppendTrail(p)
        /\ kept' = IF WorthKeeping(p) THEN kept + 1 ELSE kept
    BY DEF OnPosition, pageVars
  <1>2. /\ trail' \in Seq(Point) /\ TrailIsNumbered'
        /\ \/ trail_seq' = trail_seq + 1 /\ kept' = kept + 1
           \/ trail_seq' = trail_seq /\ kept' = kept
    <2>1. CASE WorthKeeping(p)
      <3>1. p \in Int
        BY RaceTrailAssumption
      <3> QED BY <1>1, <2>1, <3>1, KeepsNumbered DEF TrailInv
    <2>2. CASE ~WorthKeeping(p)
      <3>1. KeptToday # <<>> /\ trail' = KeptToday /\ trail_seq' = trail_seq /\ kept' = kept
        BY <1>1, <2>2 DEF AppendTrail, WorthKeeping
      <3>2. trail' = trail
        BY <3>1 DEF KeptToday
      <3> QED BY <3>1, <3>2 DEF TrailInv, TrailTypeOK, TrailIsNumbered
    <2> QED BY <2>1, <2>2
  <1>3. trail_seq \in Nat /\ kept \in Nat
    BY DEF TrailInv, TrailTypeOK
  <1>4. /\ trail_seq' \in Nat /\ kept' \in Nat /\ Earlier' = Earlier /\ trail_seq <= trail_seq'
    BY <1>2, <1>3 DEF Earlier
  <1>5. TrailTypeOK'
    BY <1>1, <1>2, <1>4 DEF TrailInv, TrailTypeOK
  <1>6. PageFollows'
    <2>1. ~overtaken /\ sinceLife = life /\ since # Null => since \in Nat /\ since <= trail_seq'
      BY <1>2, <1>3 DEF TrailInv, TrailTypeOK, PageFollows
    <2> QED BY <1>1, <1>4, <2>1 DEF TrailInv, PageFollows, Unbroken, LastOf
  <1>7. AnswerFollows'
    <2>1. coming # NothingComes /\ coming.of = life => coming.next <= trail_seq'
      BY <1>2, <1>3 DEF TrailInv, TrailTypeOK, AnswerFollows
    <2>2. \A points, nth : Joins(points, nth)' <=> Joins(points, nth)
      BY <1>1 DEF Joins, LastOf
    <2> QED BY <1>1, <1>4, <2>1, <2>2 DEF TrailInv, AnswerFollows, Unbroken, LastOf, NothingComes
  <1> QED BY <1>2, <1>5, <1>6, <1>7 DEF TrailInv

\* The app begins a new life, and what the page has is of an old one
LEMMA AppRestartsInv ==
    ASSUME TrailInv, AppRestarts
    PROVE  TrailInv'
  <1>1. /\ UNCHANGED <<now, kept, since, drawn, sinceLife, coming, overtaken>>
        /\ life' = life + 1 /\ trail' = <<>> /\ trail_seq' = 0
    BY DEF AppRestarts, pageVars
  <1>2. TrailTypeOK'
    BY <1>1 DEF TrailInv, TrailTypeOK
  <1>3. TrailIsNumbered'
    BY <1>1, RaceTrailAssumption DEF TrailInv, TrailTypeOK, TrailIsNumbered
  <1>4. life \in Nat /\ sinceLife \in Nat /\ (coming # NothingComes => coming.of \in Nat)
    BY DEF TrailInv, TrailTypeOK
  <1>5. sinceLife' < life' /\ (coming # NothingComes => coming.of < life')
    BY <1>1, <1>4 DEF TrailInv, PageFollows, AnswerFollows
  <1>6. PageFollows'
    BY <1>1, <1>4, <1>5 DEF TrailInv, PageFollows, Unbroken
  <1>7. AnswerFollows'
    <2>1. \A points, nth : Joins(points, nth)' <=> Joins(points, nth)
      BY <1>1 DEF Joins, LastOf
    <2> QED BY <1>1, <1>4, <1>5, <2>1
            DEF TrailInv, AnswerFollows, Unbroken, LastOf, NothingComes
  <1> QED BY <1>2, <1>3, <1>6, <1>7 DEF TrailInv

\* An answer is made of the trail there is, for the page that asks
LEMMA AskInv ==
    ASSUME TrailInv, Ask
    PROVE  TrailInv'
  <1> DEFINE points == IF Replaces THEN trail ELSE Tail_(since - Oldest + 2)
  <1>1. /\ UNCHANGED <<now, trail, trail_seq, life, kept, since, drawn, sinceLife, overtaken>>
        /\ coming' = [next |-> trail_seq, replace |-> Replaces, of |-> life, nth |-> kept,
                      points |-> points]
    BY DEF Ask, serverVars
  <1>2. /\ trail_seq \in Nat /\ kept \in Nat /\ life \in Nat /\ trail \in Seq(Point)
        /\ Replaces \in BOOLEAN
    BY DEF TrailInv, TrailTypeOK, Replaces
  <1>3. TrailIsNumbered' /\ PageFollows'
    BY <1>1 DEF TrailInv, TrailIsNumbered, PageFollows, Unbroken, LastOf, Earlier
  <1>4. Unbroken(trail) /\ (trail # <<>> => LastOf(trail).nth = kept)
    BY TrailUnbroken DEF TrailInv
  <1>5. CASE Replaces
    <2>1. /\ coming'.next = trail_seq /\ coming'.replace = TRUE /\ coming'.of = life
          /\ coming'.nth = kept /\ coming'.points = trail
      BY <1>1, <1>5
    <2>2. TrailTypeOK'
      BY <1>1, <1>2, <2>1 DEF TrailInv, TrailTypeOK
    <2>3. /\ trail_seq = 0 => trail = <<>>
          /\ trail_seq > 0 => trail # <<>> /\ LastOf(trail).nth = kept
      BY <1>2, <1>4 DEF TrailInv, TrailIsNumbered
    <2>4. AnswerFollows'
      BY <1>1, <1>2, <1>4, <2>1, <2>3 DEF AnswerFollows, Unbroken, LastOf, Earlier
    <2> QED BY <1>3, <2>2, <2>4 DEF TrailInv
  <1>6. CASE ~Replaces
    <2> DEFINE from == since - Oldest + 2
               n == Len(trail)
    <2>1. /\ coming'.next = trail_seq /\ coming'.replace = FALSE /\ coming'.of = life
          /\ coming'.nth = kept /\ coming'.points = Tail_(from)
      BY <1>1, <1>6
    <2>2. /\ since # Null /\ since \in Nat /\ trail # <<>> /\ ~(since < Oldest - 1)
          /\ ~(since > trail_seq) /\ n \in Nat /\ n > 0 /\ n <= trail_seq /\ trail_seq > 0
      BY <1>2, <1>6 DEF Replaces, TrailInv, TrailTypeOK, TrailIsNumbered
    <2>3. Oldest = trail_seq - n + 1
      BY <1>2, <2>2 DEF Oldest, TrailInv, TrailIsNumbered
    <2>4. /\ from = since - trail_seq + n + 1 /\ from \in Nat \ {0} /\ since <= trail_seq
          /\ from > n <=> since = trail_seq
      BY <1>2, <2>2, <2>3
    <2>5. /\ Tail_(from) \in Seq(Point)
          /\ Tail_(from) = <<>> <=> since = trail_seq
          /\ from <= n =>
               /\ Len(Tail_(from)) = n - from + 1
               /\ \A i \in 1..n - from + 1 : Tail_(from)[i] = trail[from + i - 1]
      BY <1>2, <2>4, TailIs
    <2>6. TrailTypeOK'
      BY <1>1, <1>2, <2>1, <2>5 DEF TrailInv, TrailTypeOK
    <2> HIDE DEF from, n
    <2>7. from <= n =>
            \A i \in 1..n - from + 1 : Tail_(from)[i].nth = kept - n + (from + i - 1)
      <3> SUFFICES ASSUME from <= n, NEW i \in 1..n - from + 1
                   PROVE  Tail_(from)[i].nth = kept - n + (from + i - 1)
        OBVIOUS
      <3>1. from + i - 1 \in 1..Len(trail)
        BY <2>2, <2>4 DEF n
      <3> QED BY <2>5, <3>1 DEF TrailInv, TrailIsNumbered, n
    <2>8. Unbroken(Tail_(from))
      <3>1. CASE from > n
        <4>1. Len(Tail_(from)) = 0
          BY <2>4, <2>5, <3>1
        <4> QED BY <4>1 DEF Unbroken
      <3>2. CASE from <= n
        <4> SUFFICES ASSUME NEW i \in 1..Len(Tail_(from)) - 1
                     PROVE  Tail_(from)[i + 1].nth = Tail_(from)[i].nth + 1
          BY DEF Unbroken
        <4>1. i \in 1..n - from + 1 /\ i + 1 \in 1..n - from + 1
          BY <2>2, <2>4, <2>5, <3>2
        <4>2. /\ Tail_(from)[i].nth = kept - n + (from + i - 1)
              /\ Tail_(from)[i + 1].nth = kept - n + (from + (i + 1) - 1)
          BY <2>7, <3>2, <4>1
        <4> QED BY <1>2, <2>2, <2>4, <4>2
      <3> QED BY <2>2, <2>4, <3>1, <3>2
    <2>9. ASSUME ~overtaken, sinceLife = life
          PROVE  Joins(Tail_(from), kept)
      <3>1. /\ since = 0 => drawn = <<>>
            /\ since > 0 => drawn # <<>> /\ LastOf(drawn).nth = since + (kept - trail_seq)
        BY <2>2, <2>9 DEF TrailInv, PageFollows, Earlier
      <3>2. CASE since = trail_seq
        <4>1. drawn # <<>> /\ LastOf(drawn).nth = kept
          BY <1>2, <2>2, <3>1, <3>2
        <4> QED BY <2>5, <3>2, <4>1 DEF Joins
      <3>3. CASE since # trail_seq
        <4>1. from <= n /\ 1 \in 1..n - from + 1 /\ n - from + 1 \in 1..n - from + 1
          BY <2>2, <2>4, <3>3
        <4>2. /\ Tail_(from)[1].nth = kept - n + (from + 1 - 1)
              /\ LastOf(Tail_(from)).nth = kept - n + (from + (n - from + 1) - 1)
          BY <2>5, <2>7, <4>1 DEF LastOf
        <4>3. /\ Tail_(from)[1].nth = since + (kept - trail_seq) + 1
              /\ LastOf(Tail_(from)).nth = kept
          <5>1. /\ kept - n + (from + 1 - 1) = since + (kept - trail_seq) + 1
                /\ kept - n + (from + (n - from + 1) - 1) = kept
            BY <1>2, <2>2, <2>4
          <5> QED BY <4>2, <5>1
        <4>4. drawn # <<>> => LastOf(drawn).nth = since + (kept - trail_seq)
          BY <2>2, <3>1
        <4> QED BY <2>5, <3>3, <4>3, <4>4 DEF Joins
      <3> QED BY <3>2, <3>3
    <2>10. AnswerFollows'
      <3>1. ASSUME ~overtaken', sinceLife' = coming'.of
            PROVE  Joins(coming.points, coming.nth)'
        <4>1. Joins(Tail_(from), kept) /\ drawn' = drawn
          BY <1>1, <2>1, <2>9, <3>1
        <4> QED BY <2>1, <4>1 DEF Joins, LastOf
      <3>2. since' # Null /\ since' <= trail_seq /\ trail_seq > 0 /\ trail_seq' = trail_seq
            /\ life' = life /\ life <= life /\ Earlier' = kept - trail_seq
        BY <1>1, <1>2, <2>2, <2>4 DEF Earlier
      <3>3. Unbroken(coming.points)'
        BY <2>1, <2>8 DEF Unbroken
      <3>4. coming'.nth - coming'.next = Earlier'
        BY <2>1, <3>2
      <3> QED BY <1>2, <2>1, <3>1, <3>2, <3>3, <3>4 DEF AnswerFollows
    <2> QED BY <1>3, <2>6, <2>10 DEF TrailInv
  <1> QED BY <1>5, <1>6

\* What is on the page once an answer is drawn
LEMMA DrawnIs ==
    ASSUME TrailInv, Draw
    PROVE  /\ drawn' \in Seq(Point)
           /\ ~overtaken' =>
                /\ Unbroken(drawn')
                /\ coming.next = 0 => drawn' = <<>>
                /\ coming.next > 0 => drawn' # <<>> /\ LastOf(drawn').nth = coming.nth
  <1>1. /\ coming # NothingComes /\ coming.next \in Nat /\ coming.replace \in BOOLEAN
        /\ coming.points \in Seq(Point) /\ drawn \in Seq(Point) /\ Unbroken(coming.points)
        /\ since \in Nat \cup {Null}
    BY DEF Draw, TrailInv, TrailTypeOK, AnswerFollows
  <1>2. CASE coming.replace
    <2>1. drawn' = coming.points
      BY <1>2 DEF Draw
    <2> QED BY <1>1, <1>2, <2>1 DEF TrailInv, AnswerFollows
  <1>3. CASE ~coming.replace
    <2>1. drawn' = drawn \o coming.points /\ coming.next > 0 /\ since <= coming.next
      BY <1>1, <1>3 DEF Draw, TrailInv, AnswerFollows
    <2>2. ASSUME ~overtaken'
          PROVE  Unbroken(drawn) /\ Joins(coming.points, coming.nth)
      <3>1. ~overtaken /\ sinceLife = coming.of
        BY <1>1, <1>3, <2>1, <2>2 DEF Draw
      <3> QED BY <1>1, <1>3, <3>1 DEF TrailInv, PageFollows, AnswerFollows
    <2>3. ASSUME ~overtaken'
          PROVE  /\ Unbroken(drawn \o coming.points) /\ drawn \o coming.points # <<>>
                 /\ LastOf(drawn \o coming.points).nth = coming.nth
      <3>1. coming.points # <<>> =>
              /\ LastOf(coming.points).nth = coming.nth
              /\ drawn # <<>> => coming.points[1].nth = LastOf(drawn).nth + 1
        BY <2>2, <2>3 DEF Joins
      <3>2. coming.points = <<>> => drawn # <<>> /\ LastOf(drawn).nth = coming.nth
        BY <2>2, <2>3 DEF Joins
      <3>3. /\ Unbroken(drawn \o coming.points)
            /\ drawn \o coming.points = <<>> <=> drawn = <<>> /\ coming.points = <<>>
            /\ coming.points # <<>> => LastOf(drawn \o coming.points) = LastOf(coming.points)
            /\ coming.points = <<>> => drawn \o coming.points = drawn
        <4>1. drawn # <<>> /\ coming.points # <<>> =>
                coming.points[1].nth = LastOf(drawn).nth + 1
          BY <3>1
        <4> QED BY <1>1, <2>2, <2>3, <4>1, JoinedIs
      <3> QED BY <3>1, <3>2, <3>3
    <2>4. drawn' \in Seq(Point)
      BY <1>1, <2>1
    <2> QED BY <1>1, <2>1, <2>3, <2>4
  <1> QED BY <1>1, <1>2, <1>3

\* The page then has what the answer was made of
LEMMA DrawInv ==
    ASSUME TrailInv, Draw
    PROVE  TrailInv'
  <1>1. /\ UNCHANGED <<now, trail, trail_seq, life, kept>>
        /\ since' = coming.next /\ sinceLife' = coming.of /\ coming' = NothingComes
        /\ overtaken' \in BOOLEAN
    BY DEF Draw, serverVars, TrailInv, TrailTypeOK
  <1>2. /\ coming # NothingComes /\ coming.next \in Nat /\ coming.nth \in Nat
        /\ coming.of \in Nat /\ kept \in Nat /\ trail_seq \in Nat /\ coming.of <= life
        /\ coming.of = life => coming.next <= trail_seq /\ coming.nth - coming.next = Earlier
    BY DEF Draw, TrailInv, TrailTypeOK, AnswerFollows
  <1>3. /\ drawn' \in Seq(Point)
        /\ ~overtaken' =>
             /\ Unbroken(drawn')
             /\ coming.next = 0 => drawn' = <<>>
             /\ coming.next > 0 => drawn' # <<>> /\ LastOf(drawn').nth = coming.nth
    BY DrawnIs
  <1>4. TrailTypeOK'
    BY <1>1, <1>2, <1>3 DEF TrailInv, TrailTypeOK
  <1>5. TrailIsNumbered'
    BY <1>1 DEF TrailInv, TrailIsNumbered
  <1>6. AnswerFollows'
    BY <1>1 DEF AnswerFollows, NothingComes
  <1>7. PageFollows'
    <2>1. since' # Null
      BY <1>1, <1>2, RaceTrailAssumption
    <2>2. coming.of = life => coming.nth = coming.next + Earlier
      BY <1>2 DEF Earlier
    <2>3. Unbroken(drawn)' <=> Unbroken(drawn')
      BY DEF Unbroken
    <2> QED BY <1>1, <1>2, <1>3, <2>1, <2>2, <2>3 DEF PageFollows, LastOf, Earlier
  <1> QED BY <1>4, <1>5, <1>6, <1>7 DEF TrailInv

\* An answer that is lost leaves the page as it was
LEMMA DropoutInv ==
    ASSUME TrailInv, Dropout
    PROVE  TrailInv'
  <1>1. /\ UNCHANGED <<now, trail, trail_seq, life, kept, since, drawn, sinceLife, overtaken>>
        /\ coming' = NothingComes
    BY DEF Dropout, serverVars
  <1> QED BY <1>1 DEF TrailInv, TrailTypeOK, TrailIsNumbered, PageFollows, AnswerFollows,
                      Unbroken, LastOf, Earlier, NothingComes

\* A page loaded again has nothing
LEMMA ReloadInv ==
    ASSUME TrailInv, Reload
    PROVE  TrailInv'
  <1>1. /\ UNCHANGED <<now, trail, trail_seq, life, kept, sinceLife>>
        /\ coming' = NothingComes /\ since' = Null /\ drawn' = <<>> /\ overtaken' = FALSE
    BY DEF Reload, serverVars
  <1>2. Unbroken(drawn)' /\ drawn' \in Seq(Point)
    BY <1>1 DEF Unbroken
  <1>3. TrailTypeOK'
    BY <1>1, <1>2 DEF TrailInv, TrailTypeOK
  <1> QED BY <1>1, <1>2, <1>3 DEF TrailInv, TrailIsNumbered, PageFollows, AnswerFollows

\* Nothing is drawn at first
LEMMA TrailInitInv == TrailInit => TrailInv
  <1> SUFFICES ASSUME TrailInit
               PROVE  TrailInv
    OBVIOUS
  <1> USE DEF TrailInit
  <1>1. Len(<<>>) = 0 /\ <<>> \in Seq(Point)
    OBVIOUS
  <1>2. TrailTypeOK
    BY <1>1 DEF TrailTypeOK
  <1>3. TrailIsNumbered
    BY <1>1, RaceTrailAssumption DEF TrailIsNumbered
  <1>4. PageFollows /\ AnswerFollows
    BY <1>1 DEF PageFollows, AnswerFollows, Unbroken
  <1> QED BY <1>2, <1>3, <1>4 DEF TrailInv

\* No step of the app or of the page breaks it
LEMMA TrailInvNext == TrailInv /\ [TrailNext]_trailVars => TrailInv'
  <1> SUFFICES ASSUME TrailInv, [TrailNext]_trailVars
               PROVE  TrailInv'
    OBVIOUS
  <1>1. ASSUME NEW p \in Spot, OnPosition(p)
        PROVE  TrailInv'
    BY <1>1, OnPositionInv
  <1>2. CASE Tick \/ UNCHANGED trailVars
    <2>1. /\ now' = now + 1 \/ now' = now
          /\ UNCHANGED <<trail, trail_seq, life, kept, since, drawn, sinceLife, coming, overtaken>>
      BY <1>2 DEF Tick, trailVars, serverVars, pageVars
    <2>2. TrailTypeOK'
      BY <2>1 DEF TrailInv, TrailTypeOK, NothingComes
    <2>3. \A points, nth : Joins(points, nth)' <=> Joins(points, nth)
      BY <2>1 DEF Joins, LastOf
    <2> QED BY <2>1, <2>2, <2>3 DEF TrailInv, TrailIsNumbered, PageFollows, AnswerFollows,
                 Unbroken, LastOf, Earlier, NothingComes
  <1> QED BY <1>1, <1>2, AppRestartsInv, AskInv, DrawInv, DropoutInv, ReloadInv DEF TrailNext

\* "So the tail the caller is missing starts at a known index" (store.py:486):
\* through midnight, pruning and restarts the trail is numbered without a gap
THEOREM Contiguous == TrailSpec => []TrailIsContiguous
  <1>1. ASSUME TrailInv
        PROVE  TrailIsContiguous
    <2>1. DOMAIN trail = 1..Len(trail)
      BY <1>1 DEF TrailInv, TrailTypeOK
    <2> QED BY <1>1, <2>1 DEF TrailInv, TrailIsNumbered, TrailIsContiguous
  <1> QED BY <1>1, TrailInitInv, TrailInvNext, PTL DEF TrailSpec

\* What the page of the racing display draws is the track of the boat: unbroken,
\* and as far as the answer drawn last goes, through midnight, pruning, lost
\* answers, reloads and restarts, but for what overtaken says (store.py trail,
\* map.js addTrail)
THEOREM PageTracks == TrailSpec => PageIsTheTrack
  <1>1. TrailInv => PageHasNoGap
    BY DEF TrailInv, PageFollows, Unbroken, PageHasNoGap
  <1>2. TrailInv => [Draw /\ ~overtaken'
                     => IF coming.next = 0 THEN drawn' = <<>>
                        ELSE drawn' # <<>> /\ LastOf(drawn').nth = coming.nth]_trailVars
    <2>1. ASSUME TrailInv, Draw, ~overtaken'
          PROVE  IF coming.next = 0 THEN drawn' = <<>>
                 ELSE drawn' # <<>> /\ LastOf(drawn').nth = coming.nth
      <3>1. coming.next \in Nat
        BY <2>1 DEF TrailInv, TrailTypeOK, Draw
      <3> QED BY <2>1, <3>1, DrawnIs
    <2> QED BY <2>1
  <1> QED BY <1>1, <1>2, TrailInitInv, TrailInvNext, PTL
          DEF TrailSpec, PageIsTheTrack, PageCatchesUp

-----------------------------------------------------------------------------
(* The totals of emon_live (LiveDerived)                                   *)

\* A set that has 0, and with a number the next, has all of them
LEMMA AllNumbers ==
    ASSUME NEW S, 0 \in S, \A n \in Nat : n \in S => n + 1 \in S
    PROVE  Nat \subseteq S
  <1> SUFFICES ASSUME Nat \ S # {} PROVE FALSE
    OBVIOUS
  <1>1. PICK n \in Nat \ S : \A m \in Nat \ S : ~(<<m, n>> \in OpToRel(<, Nat))
    BY NatLessThanWellFounded, WFMin
  <1>2. \A m \in Nat \ S : ~(m < n)
    BY <1>1 DEF OpToRel
  <1>3. n # 0
    BY <1>1
  <1>4. n - 1 \in Nat /\ n - 1 < n /\ n = (n - 1) + 1
    <2>1. n \in Nat
      BY <1>1
    <2> QED  BY <2>1, <1>3
  <1>5. n - 1 \in S
    BY <1>2, <1>4
  <1> QED  BY <1>1, <1>4, <1>5

\* A period begins no later than its moments, and later moments are of no earlier one
LEMMA PeriodsFollow ==
    /\ \A t \in Int : period_start(t) \in Int /\ period_start(t) <= t
    /\ \A s, t \in Int : s <= t => period_start(s) <= period_start(t)
  <1>1. Day \in Nat /\ Day > 0
    BY LiveAssumption
  <1>2. \A t \in Int : /\ t \div Day \in Int
                     /\ (t \div Day) * Day <= t /\ t < (t \div Day) * Day + Day
    BY <1>1
  <1>3. ASSUME NEW s \in Int, NEW t \in Int, s <= t PROVE (s \div Day) * Day <= (t \div Day) * Day
    <2> DEFINE a == s \div Day
               b == t \div Day
    <2>1. a \in Int /\ b \in Int /\ a * Day <= s /\ t < b * Day + Day
      BY <1>2
    <2>2. a * Day \in Int /\ b * Day \in Int
      BY <1>1, <2>1
    <2>3. a * Day < b * Day + Day
      BY <1>3, <2>1, <2>2, <1>1
    <2> HIDE DEF a, b
    <2>4. a < b + 1
      <3> SUFFICES ASSUME a >= b + 1 PROVE FALSE
        BY <2>1
      <3>1. a * Day >= (b + 1) * Day /\ (b + 1) * Day = b * Day + Day
        BY <1>1, <2>1
      <3> QED  BY <2>2, <2>3, <3>1, <1>1
    <2>5. a <= b
      BY <2>1, <2>4
    <2>6. a * Day <= b * Day
      BY <1>1, <2>1, <2>5
    <2> QED  BY <2>6 DEF a, b
  <1>4. \A t \in Int : (t \div Day) * Day \in Int
    BY <1>1, <1>2
  <1> QED  BY <1>2, <1>3, <1>4 DEF period_start

\* A value: a number, or none yet
Value == Int \cup {None}

\* The readings of a feed so far, and what an operator has begun: a period no later
\* than that of the moment, and no reading is of a later one
Begun(start, readings, at) ==
    /\ start \in Value
    /\ start = None => readings = {}
    /\ start # None =>
        /\ start <= period_start(at)
        /\ \A t \in readings : period_start(t) <= start

\* Ends of a set of numbers
Spans(base, last, S) == base \in S /\ last \in S /\ \A t \in S : base <= t /\ t <= last

ReadOn(readings, start) == {t \in readings : period_start(t) = start}

\* The counter's day: while its period is that of the moment, it is from the first
\* reading of it to the last
TodayIs(s, readings, at) ==
    /\ s \in [start : Value, base : Value, last : Value, prev : Value, below : {<<>>},
              carry : {0}]
    /\ Begun(s.start, readings, at)
    /\ s.base = None <=> s.last = None
    /\ s.base # None => s.base \in readings /\ s.last \in readings
    /\ s.start = period_start(at) =>
        IF s.base = None THEN ReadOn(readings, s.start) = {}
        ELSE Spans(s.base, s.last, ReadOn(readings, s.start))

\* Before any reading the counter has come no way
LEMMA TodayNew == ASSUME NEW at PROVE TodayIs(DeltaOf(None), {}, at)
  BY DEF TodayIs, DeltaOf, Begun, Value, ReadOn

\* A new day forgets the one before: nothing was read of it yet (DailyDelta.roll)
LEMMA TodayRolls ==
    ASSUME NEW readings \in SUBSET Int, NEW at \in Int, NEW t \in Int, NEW s,
           TodayIs(s, readings, at), t <= at,
           \A u \in readings : period_start(u) <= period_start(t)
    PROVE  /\ TodayIs(delta_roll(s, t), readings, at)
           /\ delta_roll(s, t).start = period_start(t)
  <1> DEFINE p == period_start(t)
  <1>1. CASE s.start = p
    BY <1>1 DEF delta_roll
  <1>2. ASSUME s.start # p PROVE TodayIs(DeltaOf(p), readings, at) /\ DeltaOf(p).start = p
    <2>1. p \in Int /\ p <= period_start(at) /\ period_start(at) \in Int
      BY PeriodsFollow
    <2>2. Begun(p, readings, at)
      BY <2>1, LiveAssumption DEF Begun, Value
    <2>3. ASSUME p = period_start(at) PROVE ReadOn(readings, p) = {}
      <3>1. CASE s.start = None
        BY <3>1 DEF TodayIs, Begun, ReadOn
      <3>2. CASE s.start # None
        <4>1. s.start \in Int /\ s.start <= p /\ \A u \in readings : period_start(u) <= s.start
          BY <3>2, <2>3 DEF TodayIs, Begun, Value
        <4>2. s.start < p
          BY <4>1, <1>2, <2>1
        <4>3. ASSUME NEW u \in readings PROVE period_start(u) # p
          BY <4>1, <4>2, <2>1, PeriodsFollow
        <4> QED  BY <4>3 DEF ReadOn
      <3> QED  BY <3>1, <3>2
    <2> HIDE DEF p
    <2> QED  BY <2>1, <2>2, <2>3, LiveAssumption DEF TodayIs, DeltaOf, Value
  <1> QED  BY <1>1, <1>2 DEF delta_roll

\* A newer reading is the last of its day, and the first if there was none
LEMMA TodayReads ==
    ASSUME NEW readings \in SUBSET Int, NEW at \in Int, NEW t \in Int, NEW s,
           TodayIs(s, readings, at), t <= at, \A u \in readings : u < t
    PROVE  TodayIs(delta_update(s, t, t), readings \cup {t}, at)
  <1> DEFINE r == delta_roll(s, t)
             new == delta_accept(r, t)
             more == readings \cup {t}
  <1>1. TodayIs(r, readings, at) /\ r.start = period_start(t)
    BY TodayRolls, PeriodsFollow
  <1> HIDE DEF r
  <1>2. period_start(t) \in Int /\ t # None
    BY PeriodsFollow, LiveAssumption
  <1>3. Begun(r.start, more, at)
    BY <1>1, <1>2, PeriodsFollow, LiveAssumption DEF TodayIs, Begun, Value
  <1>4. ReadOn(more, r.start) = ReadOn(readings, r.start) \cup {t}
    BY <1>1 DEF ReadOn
  <1>5. ASSUME r.base = None PROVE TodayIs(new, more, at)
    <2>1. new = [[r EXCEPT !.base = t] EXCEPT !.last = t]
      BY <1>5, <1>1 DEF delta_accept, TodayIs
    <2>2. /\ new \in [start : Value, base : Value, last : Value, prev : Value, below : {<<>>},
                      carry : {0}]
          /\ new.start = r.start /\ new.base = t /\ new.last = t
      BY <2>1, <1>1 DEF TodayIs, Value
    <2>3. ASSUME r.start = period_start(at) PROVE Spans(t, t, ReadOn(more, r.start))
      <3>1. ReadOn(readings, r.start) = {}
        BY <2>3, <1>1, <1>5 DEF TodayIs
      <3> QED  BY <3>1, <1>4 DEF Spans
    <2> HIDE DEF new
    <2> QED  BY <2>2, <2>3, <1>2, <1>3 DEF TodayIs
  <1>6. ASSUME r.base # None PROVE TodayIs(new, more, at)
    <2>1. r.last \in readings /\ r.base \in readings
      BY <1>6, <1>1 DEF TodayIs
    <2>2. r.last \in Int /\ r.last < t /\ r.below = <<>>
      BY <2>1, <1>1 DEF TodayIs
    <2>3. new = [r EXCEPT !.below = <<>>, !.prev = r.last, !.last = t]
      BY <1>6, <2>2 DEF delta_accept
    <2>4. new = [[[r EXCEPT !.below = <<>>] EXCEPT !.prev = r.last] EXCEPT !.last = t]
      BY <2>3, <1>1 DEF TodayIs
    <2>5. /\ new \in [start : Value, base : Value, last : Value, prev : Value, below : {<<>>},
                      carry : {0}]
          /\ new.start = r.start /\ new.base = r.base /\ new.last = t
      BY <2>4, <2>2, <1>1 DEF TodayIs, Value
    <2>6. ASSUME r.start = period_start(at) PROVE Spans(r.base, t, ReadOn(more, r.start))
      <3>1. Spans(r.base, r.last, ReadOn(readings, r.start))
        BY <2>6, <1>1, <1>6 DEF TodayIs
      <3>2. r.base \in Int /\ r.base < t /\ \A u \in ReadOn(readings, r.start) : u < t
        BY <2>1 DEF ReadOn
      <3>3. \A u \in ReadOn(more, r.start) : r.base <= u /\ u <= t
        BY <3>1, <3>2, <1>4 DEF Spans, ReadOn
      <3> QED  BY <3>1, <3>3, <1>4 DEF Spans
    <2> HIDE DEF new
    <2> QED  BY <2>1, <2>5, <2>6, <1>2, <1>3, <1>6 DEF TodayIs
  <1> QED  BY <1>5, <1>6 DEF delta_update, r

\* As time goes by, what the operator has is at most of a day that is over
LEMMA TodayLater ==
    ASSUME NEW readings \in SUBSET Int, NEW at \in Int, NEW s, TodayIs(s, readings, at),
           NEW after \in Int, at <= after
    PROVE  TodayIs(s, readings, after)
  <1>1. period_start(at) \in Int /\ period_start(after) \in Int
        /\ period_start(at) <= period_start(after)
    BY PeriodsFollow
  <1>2. Begun(s.start, readings, after)
    BY <1>1 DEF TodayIs, Begun, Value
  <1>3. s.start = period_start(after) => s.start = period_start(at)
    BY <1>1, LiveAssumption DEF TodayIs, Begun, Value
  <1> QED  BY <1>2, <1>3 DEF TodayIs
-----------------------------------------------------------------------------
\* The counter's window: until it is closed it is from the first of its readings to the
\* last, and then that is held.  Of passed are the moments the operator was told of
InWindow(readings, start) == {t \in ReadOn(readings, start) : t < window_end(start)}

NightIs(s, readings, at) ==
    /\ s \in [start : Value, base : Value, last : Value, held : Value]
    /\ Begun(s.start, readings, at)
    /\ s.base = None <=> s.last = None
    /\ s.base # None => s.base \in readings /\ s.last \in readings

NightHolds(s, readings, at, passed) ==
    s.start = period_start(at) =>
        IF s.base # None THEN Spans(s.base, s.last, InWindow(readings, s.start))
        ELSE \/ InWindow(readings, s.start) = {}
             \/ /\ \E u \in passed : u >= window_end(s.start)
                /\ \E a, b \in Int : /\ Spans(a, b, InWindow(readings, s.start))
                                     /\ s.held = b - a

\* Before any reading no window has been counted
LEMMA NightNew ==
    ASSUME NEW at, NEW passed
    PROVE  NightIs(WindowNew, {}, at) /\ NightHolds(WindowNew, {}, at, passed)
  BY DEF NightIs, NightHolds, WindowNew, Begun, Value, ReadOn, InWindow

\* Of a period that has not begun yet nothing is read
LEMMA NothingOf ==
    ASSUME NEW readings \in SUBSET Int, NEW at \in Int, NEW t \in Int, NEW start,
           Begun(start, readings, at), start # period_start(t), t <= at,
           period_start(t) = period_start(at)
    PROVE  ReadOn(readings, period_start(t)) = {}
  <1> DEFINE p == period_start(t)
  <1>1. p \in Int /\ \A u \in readings : period_start(u) \in Int
    BY PeriodsFollow
  <1>2. CASE start = None
    BY <1>2 DEF Begun, ReadOn
  <1>3. CASE start # None
    <2>1. start \in Int /\ start <= p /\ \A u \in readings : period_start(u) <= start
      BY <1>3 DEF Begun, Value
    <2>2. start < p
      BY <2>1, <1>1
    <2> HIDE DEF p
    <2>3. \A u \in readings : period_start(u) # p
      BY <2>1, <2>2, <1>1
    <2> QED  BY <2>3 DEF ReadOn, p
  <1> QED  BY <1>2, <1>3

\* A period that begins has had no reading of a later one
LEMMA Begins ==
    ASSUME NEW readings, NEW at \in Int, NEW t \in Int, t <= at,
           \A u \in readings : period_start(u) <= period_start(t)
    PROVE  Begun(period_start(t), readings, at)
  BY PeriodsFollow, LiveAssumption DEF Begun, Value

\* What is held when a window closes is from its first reading to its last
LEMMA NightRolls ==
    ASSUME NEW readings \in SUBSET Int, NEW at \in Int, NEW t \in Int, NEW s, NEW passed,
           NightIs(s, readings, at), t <= at,
           \A u \in readings : period_start(u) <= period_start(t)
    PROVE  /\ NightIs(window_roll(s, t), readings, at)
           /\ NightHolds(s, readings, at, passed) =>
                NightHolds(window_roll(s, t), readings, at, passed \cup {t})
           /\ window_roll(s, t).start = period_start(t)
  <1> DEFINE p == period_start(t)
             closed == IF Closes(s, t)
                       THEN [s EXCEPT !.held = s.last - s.base, !.base = None, !.last = None]
                       ELSE s
             r == IF p = closed.start THEN closed
                  ELSE [closed EXCEPT !.start = p, !.base = None, !.last = None]
             Nights == [start : Value, base : Value, last : Value, held : Value]
             more == passed \cup {t}
  <1>1. /\ p \in Int /\ p # None /\ period_start(at) \in Int /\ Window \in Int
        /\ s \in Nights /\ (s.start # None => s.start \in Int)
    BY PeriodsFollow, LiveAssumption DEF NightIs, Value
  <1>2. Closes(s, t) => s.base \in Int /\ s.last \in Int
    BY LiveAssumption DEF Closes, NightIs, Value
  <1>3. Closes(s, t) => closed = [[[s EXCEPT !.held = s.last - s.base] EXCEPT !.base = None]
                                    EXCEPT !.last = None]
    BY <1>1
  <1>4. /\ closed \in Nights /\ closed.start = s.start
        /\ Closes(s, t) => closed.base = None /\ closed.last = None
                             /\ closed.held = s.last - s.base
        /\ ~Closes(s, t) => closed = s
    <2>1. CASE ~Closes(s, t)
      BY <2>1, <1>1
    <2>2. CASE Closes(s, t)
      <3>1. closed = [[[s EXCEPT !.held = s.last - s.base] EXCEPT !.base = None]
                         EXCEPT !.last = None]
        BY <2>2, <1>3
      <3>2. s.last - s.base \in Value /\ None \in Value
        BY <2>2, <1>2 DEF Value
      <3> HIDE DEF closed
      <3> QED  BY <2>2, <3>1, <3>2, <1>1
    <2> QED  BY <2>1, <2>2
  <1> HIDE DEF closed
  <1>5. ASSUME p = s.start
        PROVE  /\ NightIs(r, readings, at) /\ r.start = p
               /\ NightHolds(s, readings, at, passed) => NightHolds(r, readings, at, more)
    <2>1. r = closed
      BY <1>4, <1>5
    <2>2. NightIs(closed, readings, at)
      BY <1>4 DEF NightIs
    <2>3. ASSUME NightHolds(s, readings, at, passed) PROVE NightHolds(closed, readings, at, more)
      <3>1. ASSUME Closes(s, t), s.start = period_start(at)
            PROVE  /\ \E u \in passed \cup {t} : u >= window_end(s.start)
                   /\ \E a, b \in Int : /\ Spans(a, b, InWindow(readings, s.start))
                                        /\ closed.held = b - a
        BY <3>1, <2>3, <1>2, <1>4 DEF NightHolds, Closes
      <3>2. CASE Closes(s, t)
        BY <3>1, <3>2, <1>4 DEF NightHolds
      <3>3. CASE ~Closes(s, t)
        BY <2>3, <3>3, <1>4 DEF NightHolds
      <3> QED  BY <3>2, <3>3
    <2> HIDE DEF r
    <2> QED  BY <2>1, <2>2, <2>3, <1>4, <1>5
  <1>6. ASSUME p # s.start
        PROVE  NightIs(r, readings, at) /\ r.start = p /\ NightHolds(r, readings, at, more)
    <2>1. r = [[[closed EXCEPT !.start = p] EXCEPT !.base = None] EXCEPT !.last = None]
      BY <1>4, <1>6
    <2>2. r \in Nights /\ r.start = p /\ r.base = None /\ r.last = None
      BY <2>1, <1>1, <1>4 DEF Value
    <2>3. p = period_start(at) => InWindow(readings, p) = {}
      BY <1>6, NothingOf DEF NightIs, InWindow
    <2>4. Begun(p, readings, at)
      BY Begins
    <2> HIDE DEF r, p
    <2>5. NightIs(r, readings, at)
      BY <2>2, <2>4 DEF NightIs
    <2>6. NightHolds(r, readings, at, more)
      BY <2>2, <2>3 DEF NightHolds
    <2> QED  BY <2>2, <2>5, <2>6
  <1> QED  BY <1>5, <1>6 DEF window_roll, closed

\* A newer reading counts while the window is open, and closes it when it is past it
LEMMA NightReads ==
    ASSUME NEW readings \in SUBSET Int, NEW at \in Int, NEW t \in Int, NEW s, NEW tick \in Int,
           NightIs(s, readings, at), t <= at, \A u \in readings : u < t
    PROVE  LET more == readings \cup {t}
               new == window_update(s, t, t)
           IN /\ NightIs(new, more, at)
              /\ NightHolds(s, readings, at, readings \cup {tick}) /\ tick <= t =>
                    NightHolds(new, more, at, more \cup {tick})
  <1> DEFINE r == window_roll(s, t)
             more == readings \cup {t}
             past == more \cup {tick}
             Before == NightHolds(s, readings, at, readings \cup {tick}) /\ tick <= t
             new == [r EXCEPT !.base = IF @ = None THEN t ELSE @, !.last = t]
             Nights == [start : Value, base : Value, last : Value, held : Value]
  <1>1. /\ NightIs(r, readings, at) /\ r.start = period_start(t)
        /\ Before => NightHolds(r, readings, at, (readings \cup {tick}) \cup {t})
    BY NightRolls, PeriodsFollow
  <1> HIDE DEF r
  <1>2. period_start(t) \in Int /\ t # None /\ Window \in Int /\ window_end(r.start) \in Int
    BY <1>1, PeriodsFollow, LiveAssumption DEF window_end
  <1>3. Begun(r.start, more, at)
    BY <1>1, <1>2, PeriodsFollow, LiveAssumption DEF NightIs, Begun, Value
  <1>4. ASSUME t >= window_end(r.start)
        PROVE  NightIs(r, more, at) /\ (Before => NightHolds(r, more, at, past))
    <2>1. InWindow(more, r.start) = InWindow(readings, r.start)
      BY <1>2, <1>4 DEF InWindow, ReadOn
    <2>2. NightIs(r, more, at)
      BY <1>1, <1>3 DEF NightIs
    <2>3. Before => NightHolds(r, more, at, past)
      BY <2>1, <1>1 DEF NightHolds
    <2> QED  BY <2>2, <2>3
  <1>5. ASSUME ~(t >= window_end(r.start))
        PROVE  NightIs(new, more, at) /\ (Before => NightHolds(new, more, at, past))
    <2>1. InWindow(more, r.start) = InWindow(readings, r.start) \cup {t}
      BY <1>1, <1>2, <1>5 DEF InWindow, ReadOn
    <2>2. ASSUME r.base = None
          PROVE  NightIs(new, more, at) /\ (Before => NightHolds(new, more, at, past))
      <3>1. new = [[r EXCEPT !.base = t] EXCEPT !.last = t]
        BY <2>2, <1>1 DEF NightIs
      <3>2. new \in Nights /\ new.start = r.start /\ new.base = t /\ new.last = t
        BY <3>1, <1>1 DEF NightIs, Value
      <3>3. ASSUME r.start = period_start(at), Before PROVE Spans(t, t, InWindow(more, r.start))
        <4>1. \A u \in (readings \cup {tick}) \cup {t} : ~(u >= window_end(r.start))
          BY <3>3, <1>2, <1>5
        <4>2. InWindow(readings, r.start) = {}
          BY <4>1, <3>3, <2>2, <1>1 DEF NightHolds
        <4> QED  BY <4>2, <2>1 DEF Spans
      <3> HIDE DEF new
      <3>4. NightIs(new, more, at)
        BY <3>2, <1>2, <1>3 DEF NightIs
      <3>5. Before => NightHolds(new, more, at, past)
        BY <3>2, <3>3, <1>2 DEF NightHolds
      <3> QED  BY <3>4, <3>5
    <2>3. ASSUME r.base # None
          PROVE  NightIs(new, more, at) /\ (Before => NightHolds(new, more, at, past))
      <3>1. new = [r EXCEPT !.last = t]
        BY <2>3, <1>1 DEF NightIs
      <3>2. new \in Nights /\ new.start = r.start /\ new.base = r.base /\ new.last = t
        BY <3>1, <1>1 DEF NightIs, Value
      <3>3. ASSUME r.start = period_start(at), Before
            PROVE  Spans(r.base, t, InWindow(more, r.start))
        <4>1. Spans(r.base, r.last, InWindow(readings, r.start))
          BY <3>3, <2>3, <1>1 DEF NightHolds
        <4>2. r.base < t /\ \A u \in InWindow(readings, r.start) : u < t
          BY <2>3, <1>1 DEF InWindow, ReadOn, NightIs
        <4>3. \A u \in InWindow(more, r.start) : r.base <= u /\ u <= t
          <5>1. r.base \in Int /\ r.last \in Int
            BY <2>3, <1>1 DEF NightIs
          <5>2. \A u \in InWindow(readings, r.start) : u \in Int
            BY DEF InWindow, ReadOn
          <5> QED  BY <4>1, <4>2, <5>1, <5>2, <2>1 DEF Spans
        <4> QED  BY <4>1, <4>3, <2>1 DEF Spans
      <3> HIDE DEF new
      <3>4. NightIs(new, more, at)
        BY <3>2, <2>3, <1>1, <1>2, <1>3 DEF NightIs
      <3>5. Before => NightHolds(new, more, at, past)
        BY <3>2, <3>3, <2>3 DEF NightHolds
      <3> QED  BY <3>4, <3>5
    <2> QED  BY <2>2, <2>3
  <1> QED  BY <1>4, <1>5 DEF window_update, r

\* What is held stays right as time goes by and later moments have been told
LEMMA NightLater ==
    ASSUME NEW readings \in SUBSET Int, NEW at \in Int, NEW s, NEW passed \in SUBSET Int,
           NightIs(s, readings, at), NEW after \in Int, at <= after,
           NEW past \in SUBSET Int, \A u \in passed : \E v \in past : u <= v
    PROVE  /\ NightIs(s, readings, after)
           /\ NightHolds(s, readings, at, passed) => NightHolds(s, readings, after, past)
  <1>1. period_start(at) \in Int /\ period_start(after) \in Int
        /\ period_start(at) <= period_start(after)
    BY PeriodsFollow
  <1>2. Begun(s.start, readings, after)
    BY <1>1 DEF NightIs, Begun, Value
  <1>3. s.start = period_start(after) => s.start = period_start(at)
    BY <1>1, LiveAssumption DEF NightIs, Begun, Value
  <1>4. ASSUME s.start = period_start(after), NEW u \in passed, u >= window_end(s.start)
        PROVE  \E v \in past : v >= window_end(s.start)
    BY <1>1, <1>4, LiveAssumption DEF window_end
  <1>5. NightIs(s, readings, after)
    BY <1>2 DEF NightIs
  <1>6. NightHolds(s, readings, at, passed) => NightHolds(s, readings, after, past)
    BY <1>3, <1>4 DEF NightHolds
  <1> QED  BY <1>5, <1>6

-----------------------------------------------------------------------------
\* The units of time between two readings that are bridged
Units(readings) ==
    {u \in Int : \E s, t \in readings : s <= u /\ u < t /\ t - s <= MaxGap}

\* A later reading adds the units since the one before, if that was not too long ago
LEMMA UnitsGrow ==
    ASSUME NEW readings \in SUBSET Int, IsFiniteSet(Units(readings)), NEW last \in readings,
           \A u \in readings : u <= last, NEW t \in Int, last < t
    PROVE  LET more == readings \cup {t}
           IN /\ IsFiniteSet(Units(more))
              /\ Cardinality(Units(more)) =
                    Cardinality(Units(readings)) + IF t - last <= MaxGap THEN t - last ELSE 0
  <1> DEFINE more == readings \cup {t}
             new == last..(t - 1)
  <1>1. MaxGap \in Int /\ last \in Int
    BY LiveAssumption
  <1>2. \A u \in Units(readings) : u \in Int /\ u < last
    BY DEF Units
  <1>3. \A u \in Units(readings) : u \in Units(more)
    BY DEF Units
  <1>4. Cardinality(Units(readings)) \in Nat
    BY FS_CardinalityType
  <1>5. ASSUME t - last <= MaxGap
        PROVE  IsFiniteSet(Units(more))
                 /\ Cardinality(Units(more)) = Cardinality(Units(readings)) + (t - last)
    <2>1. ASSUME NEW u \in Units(more) PROVE u \in Units(readings) \cup new
      <3>1. PICK a \in more, b \in more : u \in Int /\ a <= u /\ u < b /\ b - a <= MaxGap
        BY DEF Units
      <3>2. CASE u >= last
        BY <3>1, <3>2, <1>1
      <3>3. CASE ~(u >= last)
        <4>1. a \in readings /\ a <= u /\ u < last /\ u \in Int
          BY <3>1, <3>3, <1>1
        <4>2. CASE b = t
          <5>1. last - a <= MaxGap
            BY <3>1, <4>1, <4>2, <1>1
          <5> QED  BY <4>1, <5>1 DEF Units
        <4>3. CASE b # t
          BY <3>1, <4>1, <4>3 DEF Units
        <4> QED  BY <4>2, <4>3
      <3> QED  BY <3>2, <3>3
    <2>2. ASSUME NEW u \in new PROVE u \in Units(more)
      <3>1. u \in Int /\ last <= u /\ u < t
        BY <1>1
      <3> QED  BY <3>1, <1>5 DEF Units
    <2>3. Units(more) = Units(readings) \cup new
      BY <2>1, <2>2, <1>3
    <2>4. Units(readings) \cap new = {}
      BY <1>1, <1>2
    <2>5. IsFiniteSet(new) /\ Cardinality(new) = t - last
      <3>1. t - 1 \in Int /\ ~(last > t - 1) /\ (t - 1) - last + 1 = t - last
        BY <1>1
      <3> QED  BY <1>1, <3>1, FS_Interval
    <2>6. /\ IsFiniteSet(Units(readings) \cup new)
          /\ Cardinality(Units(readings) \cup new) =
               Cardinality(Units(readings)) + Cardinality(new)
                 - Cardinality(Units(readings) \cap new)
      BY <2>5, FS_Union
    <2> HIDE DEF new, more
    <2> QED  BY <2>3, <2>4, <2>5, <2>6, <1>1, <1>4, FS_EmptySet
  <1>6. ASSUME ~(t - last <= MaxGap) PROVE Units(more) = Units(readings)
    <2>1. ASSUME NEW u \in Units(more) PROVE u \in Units(readings)
      <3>1. PICK a \in more, b \in more : u \in Int /\ a <= u /\ u < b /\ b - a <= MaxGap
        BY DEF Units
      <3>2. a \in readings /\ b \in readings
        BY <3>1, <1>1, <1>6
      <3> QED  BY <3>1, <3>2 DEF Units
    <2> QED  BY <2>1, <1>3
  <1> HIDE DEF more
  <1>7. ASSUME ~(t - last <= MaxGap)
        PROVE  /\ IsFiniteSet(Units(more))
               /\ Cardinality(Units(more)) = Cardinality(Units(readings)) + 0
    BY <1>6, <1>7, <1>4
  <1> QED  BY <1>5, <1>7 DEF more

\* The energy of the day: the power, for the units that are bridged
Bridges(total, last, S) ==
    /\ last \in S /\ \A u \in S : u <= last
    /\ IsFiniteSet(Units(S)) /\ total = 2 * Power * Cardinality(Units(S))

EnergyIs(s, readings, at) ==
    /\ s \in [start : Value, total : Value, prev : {None} \cup [t : Int, v : {Power}]]
    /\ Begun(s.start, readings, at)
    /\ s.total = None <=> s.prev = None
    /\ s.prev # None => s.prev.t \in readings
    /\ s.start = period_start(at) =>
        IF s.prev = None THEN ReadOn(readings, s.start) = {}
        ELSE Bridges(s.total, s.prev.t, ReadOn(readings, s.start))

\* Before any reading there is no area
LEMMA EnergyNew == ASSUME NEW at PROVE EnergyIs(AreaOf(None), {}, at)
  BY DEF EnergyIs, AreaOf, Begun, Value, ReadOn

\* A new day forgets the area of the one before (Integrate.roll)
LEMMA EnergyRolls ==
    ASSUME NEW readings \in SUBSET Int, NEW at \in Int, NEW t \in Int, NEW s,
           EnergyIs(s, readings, at), t <= at,
           \A u \in readings : period_start(u) <= period_start(t)
    PROVE  /\ EnergyIs(area_roll(s, t), readings, at)
           /\ area_roll(s, t).start = period_start(t)
  <1> DEFINE p == period_start(t)
  <1>1. CASE s.start = p
    BY <1>1 DEF area_roll
  <1>2. ASSUME s.start # p PROVE EnergyIs(AreaOf(p), readings, at) /\ AreaOf(p).start = p
    <2>1. p \in Int
      BY PeriodsFollow
    <2>2. Begun(p, readings, at)
      BY Begins
    <2>3. p = period_start(at) => ReadOn(readings, p) = {}
      BY <1>2, NothingOf DEF EnergyIs
    <2> HIDE DEF p
    <2> QED  BY <2>1, <2>2, <2>3, LiveAssumption DEF EnergyIs, AreaOf, Value
  <1> QED  BY <1>1, <1>2 DEF area_roll

\* A newer reading adds the power for the units since the one before, if it is bridged
LEMMA EnergyReads ==
    ASSUME NEW readings \in SUBSET Int, NEW at \in Int, NEW t \in Int, NEW s,
           EnergyIs(s, readings, at), t <= at, \A u \in readings : u < t
    PROVE  LET new == area_update(s, Power, t)
           IN EnergyIs(new, readings \cup {t}, at) /\ new.total \in Int
  <1> DEFINE r == area_roll(s, t)
             new == area_accept(r, Power, t)
             more == readings \cup {t}
             mark == [t |-> t, v |-> Power]
             Energies == [start : Value, total : Value, prev : {None} \cup [t : Int, v : {Power}]]
  <1>1. EnergyIs(r, readings, at) /\ r.start = period_start(t)
    BY EnergyRolls, PeriodsFollow
  <1> HIDE DEF r
  <1>2. period_start(t) \in Int /\ mark # None /\ mark \in [t : Int, v : {Power}] /\ mark.t = t
        /\ Power \in Int /\ MaxGap \in Nat /\ mark.v = Power
    BY PeriodsFollow, LiveAssumption
  <1> HIDE DEF mark
  <1>3. Begun(r.start, more, at)
    BY <1>1, <1>2, PeriodsFollow, LiveAssumption DEF EnergyIs, Begun, Value
  <1>4. ReadOn(more, r.start) = ReadOn(readings, r.start) \cup {t}
    BY <1>1 DEF ReadOn
  <1>5. ASSUME NEW total \in Int, new = [[r EXCEPT !.total = total] EXCEPT !.prev = mark],
               r.start = period_start(at) => Bridges(total, t, ReadOn(more, r.start))
        PROVE  EnergyIs(new, more, at) /\ new.total \in Int
    <2>1. new \in Energies /\ new.start = r.start /\ new.total = total /\ new.prev = mark
      BY <1>1, <1>2, <1>5 DEF EnergyIs, Value
    <2>2. total # None
      BY LiveAssumption
    <2> HIDE DEF new
    <2> QED  BY <2>1, <2>2, <1>2, <1>3, <1>5 DEF EnergyIs
  <1>6. ASSUME r.prev = None PROVE EnergyIs(new, more, at) /\ new.total \in Int
    <2>1. r.total = None
      BY <1>6, <1>1 DEF EnergyIs
    <2>2. new = [[r EXCEPT !.total = 0] EXCEPT !.prev = mark]
      BY <1>6, <2>1, <1>1 DEF area_accept, EnergyIs, mark
    <2>3. ASSUME r.start = period_start(at) PROVE Bridges(0, t, ReadOn(more, r.start))
      <3>1. ReadOn(more, r.start) = {t}
        BY <2>3, <1>6, <1>1, <1>4 DEF EnergyIs
      <3>2. Units({t}) = {}
        BY DEF Units
      <3>3. 2 * Power * 0 = 0
        BY <1>2
      <3> QED  BY <3>1, <3>2, <3>3, FS_EmptySet DEF Bridges
    <2> DEFINE total == 0
    <2>4. /\ total \in Int /\ new = [[r EXCEPT !.total = total] EXCEPT !.prev = mark]
          /\ r.start = period_start(at) => Bridges(total, t, ReadOn(more, r.start))
      BY <2>2, <2>3
    <2> HIDE DEF new, total
    <2> QED  BY <2>4, <1>5
  <1>7. ASSUME r.prev # None PROVE EnergyIs(new, more, at) /\ new.total \in Int
    <2> DEFINE last == r.prev.t
               total == IF t - last <= MaxGap THEN r.total + 2 * Power * (t - last) ELSE r.total
    <2>1. /\ last \in readings /\ last \in Int /\ last < t /\ t >= last
          /\ r.prev.v = Power /\ r.total \in Int /\ r.total # None
      BY <1>7, <1>1 DEF EnergyIs, Value
    <2> HIDE DEF last
    <2>2. t - last \in 1..MaxGap <=> t - last <= MaxGap
      BY <2>1, <1>2
    <2>3. (Power + Power) * (t - last) = 2 * Power * (t - last)
      BY <2>1, <1>2
    <2>4. total \in Int
      BY <2>1, <1>2
    <2>5. new = [r EXCEPT !.total = total, !.prev = mark]
      BY <1>7, <2>1, <2>2, <2>3 DEF area_accept, last, mark
    <2>6. new = [[r EXCEPT !.total = total] EXCEPT !.prev = mark]
      BY <2>5, <1>1 DEF EnergyIs
    <2>7. ASSUME r.start = period_start(at) PROVE Bridges(total, t, ReadOn(more, r.start))
      <3> DEFINE S == ReadOn(readings, r.start)
      <3>1. /\ last \in S /\ \A u \in S : u <= last
            /\ IsFiniteSet(Units(S)) /\ r.total = 2 * Power * Cardinality(Units(S))
        BY <2>7, <1>7, <1>1 DEF EnergyIs, Bridges, last
      <3>2. S \in SUBSET Int /\ \A u \in S : u < t
        BY DEF ReadOn
      <3> HIDE DEF S
      <3>3. /\ IsFiniteSet(Units(S \cup {t}))
            /\ Cardinality(Units(S \cup {t})) =
                 Cardinality(Units(S)) + IF t - last <= MaxGap THEN t - last ELSE 0
        BY <3>1, <3>2, <2>1, UnitsGrow
      <3>4. Cardinality(Units(S)) \in Nat
        BY <3>1, FS_CardinalityType
      <3>5. \A c \in Nat, d \in Int : 2 * Power * (c + d) = 2 * Power * c + 2 * Power * d
        BY <1>2
      <3>6. 2 * Power * (Cardinality(Units(S)) + (t - last)) =
              2 * Power * Cardinality(Units(S)) + 2 * Power * (t - last)
        BY <3>4, <3>5, <2>1
      <3>7. total = 2 * Power * Cardinality(Units(S \cup {t}))
        <4>1. CASE t - last <= MaxGap
          BY <4>1, <3>1, <3>3, <3>6
        <4>2. CASE ~(t - last <= MaxGap)
          <5>1. Cardinality(Units(S \cup {t})) = Cardinality(Units(S))
            BY <4>2, <3>3, <3>4
          <5> QED  BY <4>2, <5>1, <3>1
        <4> QED  BY <4>1, <4>2
      <3> HIDE DEF total
      <3>8. \A u \in S \cup {t} : u <= t
        BY <3>2
      <3>9. Bridges(total, t, S \cup {t})
        BY <3>3, <3>7, <3>8 DEF Bridges
      <3> QED  BY <3>9, <1>4 DEF S
    <2> HIDE DEF new, total
    <2> QED  BY <2>4, <2>6, <2>7, <1>5
  <1> QED  BY <1>6, <1>7 DEF area_update, r

\* As time goes by, the area is at most of a day that is over
LEMMA EnergyLater ==
    ASSUME NEW readings \in SUBSET Int, NEW at \in Int, NEW s, EnergyIs(s, readings, at),
           NEW after \in Int, at <= after
    PROVE  EnergyIs(s, readings, after)
  <1>1. period_start(at) \in Int /\ period_start(after) \in Int
        /\ period_start(at) <= period_start(after)
    BY PeriodsFollow
  <1>2. Begun(s.start, readings, after)
    <2>1. Begun(s.start, readings, at)
      BY DEF EnergyIs
    <2> QED  BY <1>1, <2>1 DEF Begun, Value
  <1>3. s.start = period_start(after) => s.start = period_start(at)
    BY <1>1, <1>2, LiveAssumption DEF EnergyIs, Begun, Value
  <1> QED  BY <1>2, <1>3 DEF EnergyIs
-----------------------------------------------------------------------------
(* What a reading and a tick make of the operators                         *)

Reading == [entry : Entry, value : Int, t : Int]
Mean == [start : Value, total : Int, count : Nat]

Has(ops, today, nights, energy, average) ==
    ops = [today |-> today, night |-> nights, energy |-> energy, average |-> average]

\* The operators of the site after these readings of its feeds, and when each was last
DerivedIs(ops, last, readings, at) ==
    /\ Has(ops, ops.today, ops.night, ops.energy, ops.average)
    /\ TodayIs(ops.today, readings["counter"], at)
    /\ NightIs(ops.night, readings["counter"], at)
    /\ EnergyIs(ops.energy, readings["power"], at)
    /\ ops.average \in Mean
    /\ readings \in [Feed -> SUBSET Nat] /\ last \in [Feed -> Int]
    /\ \A f \in Feed : last[f] <= at /\ \A u \in readings[f] : u <= last[f]

NightTold(ops, readings, at, tick) ==
    NightHolds(ops.night, readings["counter"], at, readings["counter"] \cup {tick})

\* What is told of an operator is a reading of its entry, or nothing
LEMMA ToldIs ==
    ASSUME NEW e \in Entry, NEW v \in Value, NEW t \in Int
    PROVE  Told(e, v, t) \in Seq(Reading)
  <1>1. v # None => ReadingOf(e, v, t) \in Reading
    BY DEF ReadingOf, Reading, Value
  <1> HIDE DEF Reading
  <1> QED  BY <1>1 DEF Told

\* ... and one after the other is told in order
LEMMA BothTold ==
    ASSUME NEW a \in Seq(Reading), NEW b \in Seq(Reading) PROVE a \o b \in Seq(Reading)
  <1> HIDE DEF Reading
  <1> QED  OBVIOUS

\* A mean stays a mean, and has a value once it has been given one
LEMMA MeanUpdates ==
    ASSUME NEW s \in Mean, NEW v \in Int, NEW t \in Int
    PROVE  mean_update(s, v, t) \in Mean /\ mean_value(mean_update(s, v, t)) \in Value
  <1> DEFINE r == mean_roll(s, t)
             new == [r EXCEPT !.total = @ + v, !.count = @ + 1]
  <1>1. period_start(t) \in Int
    BY PeriodsFollow
  <1>2. r \in Mean
    BY <1>1 DEF mean_roll, MeanOf, Mean, Value
  <1> HIDE DEF r
  <1>3. new = [[r EXCEPT !.total = r.total + v] EXCEPT !.count = r.count + 1]
    BY <1>2 DEF Mean
  <1>4. r.total + v \in Int /\ r.count + 1 \in Nat /\ r.count + 1 > 0
    BY <1>2 DEF Mean
  <1>5. new \in Mean /\ new.total = r.total + v /\ new.count = r.count + 1
    BY <1>2, <1>3, <1>4 DEF Mean
  <1> HIDE DEF new
  <1>6. new.total \div new.count \in Int
    BY <1>4, <1>5
  <1>7. mean_value(new) \in Value
    BY <1>6 DEF mean_value, Value
  <1> QED  BY <1>5, <1>7 DEF mean_update, new, r

\* One of the operators is replaced
LEMMA Puts ==
    ASSUME NEW ops, NEW a, NEW b, NEW c, NEW d, Has(ops, a, b, c, d), NEW x
    PROVE  /\ Has([ops EXCEPT !.today = x], x, b, c, d)
           /\ Has([ops EXCEPT !.night = x], a, x, c, d)
           /\ Has([ops EXCEPT !.energy = x], a, b, x, d)
           /\ Has([ops EXCEPT !.average = x], a, b, c, x)
  <1> DEFINE today == [ops EXCEPT !.today = x]
  <1>1. today \in [today : {x}, night : {b}, energy : {c}, average : {d}]
    <2>1. ops \in [today : {a}, night : {b}, energy : {c}, average : {d}]
      BY DEF Has
    <2> QED  BY <2>1
  <1> HIDE DEF today
  <1>2. Has(today, x, b, c, d)
    BY <1>1 DEF Has
  <1>3. Has([ops EXCEPT !.night = x], a, x, c, d)
    BY DEF Has
  <1>4. Has([ops EXCEPT !.energy = x], a, b, x, d)
    BY DEF Has
  <1>5. Has([ops EXCEPT !.average = x], a, b, c, x)
    BY DEF Has
  <1> QED  BY <1>2, <1>3, <1>4, <1>5 DEF today

\* ... and some of them
LEMMA PutsBoth ==
    ASSUME NEW ops, NEW a, NEW b, NEW c, NEW d, Has(ops, a, b, c, d), NEW x, NEW y
    PROVE  Has([ops EXCEPT !.today = x, !.night = y], x, y, c, d)
  <1>1. [ops EXCEPT !.today = x, !.night = y] = [[ops EXCEPT !.today = x] EXCEPT !.night = y]
    BY DEF Has
  <1>2. Has([ops EXCEPT !.today = x], x, b, c, d)
    BY Puts
  <1> QED  BY <1>1, <1>2, Puts

\* ... three of them, for a tick
LEMMA PutsThree ==
    ASSUME NEW ops, NEW a, NEW b, NEW c, NEW d, Has(ops, a, b, c, d), NEW x, NEW y, NEW z
    PROVE  Has([ops EXCEPT !.today = x, !.night = y, !.energy = z], x, y, z, d)
  <1>1. [ops EXCEPT !.today = x, !.night = y, !.energy = z] =
          [[[ops EXCEPT !.today = x] EXCEPT !.night = y] EXCEPT !.energy = z]
    BY DEF Has
  <1>2. Has([ops EXCEPT !.today = x], x, b, c, d)
    BY Puts
  <1>3. Has([[ops EXCEPT !.today = x] EXCEPT !.night = y], x, y, c, d)
    BY <1>2, Puts
  <1> QED  BY <1>1, <1>3, Puts

\* What the counter of the day reports is a number, or nothing yet
LEMMA TodayValue ==
    ASSUME NEW s, NEW readings \in SUBSET Int, NEW at, TodayIs(s, readings, at)
    PROVE  delta_value(s) \in Value
  BY DEF TodayIs, delta_value, Value

\* A reading of the counter changes its day and its night, and neither of the power
LEMMA CounterValue ==
    ASSUME NEW ops, NEW readings \in SUBSET Int, NEW at \in Int, NEW t \in Int, t <= at,
           Has(ops, ops.today, ops.night, ops.energy, ops.average),
           TodayIs(ops.today, readings, at), NightIs(ops.night, readings, at), NEW tick \in Int,
           \A u \in readings : u < t
    PROVE  LET new == counter_value(ops, t, t)
               more == readings \cup {t}
           IN /\ new = Gives(new.ops, new.out) /\ new.out \in Seq(Reading)
              /\ Has(new.ops, new.ops.today, new.ops.night, ops.energy, ops.average)
              /\ TodayIs(new.ops.today, more, at) /\ NightIs(new.ops.night, more, at)
              /\ NightHolds(ops.night, readings, at, readings \cup {tick}) /\ tick <= t =>
                    NightHolds(new.ops.night, more, at, more \cup {tick})
  <1> DEFINE today == delta_update(ops.today, t, t)
             nights == window_update(ops.night, t, t)
             more == readings \cup {t}
             told == Told("today", delta_value(today), t) \o Told("night", nights.held, t)
  <1>1. TodayIs(today, more, at)
    BY TodayReads
  <1> DEFINE Before == NightHolds(ops.night, readings, at, readings \cup {tick}) /\ tick <= t
  <1>2. /\ NightIs(nights, more, at)
        /\ Before => NightHolds(nights, more, at, more \cup {tick})
    BY NightReads
  <1> HIDE DEF today, nights
  <1>3. delta_value(today) \in Value
    BY <1>1, TodayValue
  <1>4. nights.held \in Value
    BY <1>2 DEF NightIs
  <1>5. told \in Seq(Reading)
    <2>1. Told("today", delta_value(today), t) \in Seq(Reading)
      BY <1>3, ToldIs DEF Entry
    <2>2. Told("night", nights.held, t) \in Seq(Reading)
      BY <1>4, ToldIs DEF Entry
    <2> QED  BY <2>1, <2>2, BothTold
  <1>6. Has([ops EXCEPT !.today = today, !.night = nights], today, nights, ops.energy,
            ops.average)
    BY PutsBoth
  <1>7. counter_value(ops, t, t) = Gives([ops EXCEPT !.today = today, !.night = nights], told)
    BY DEF counter_value, today, nights
  <1> DEFINE put == [ops EXCEPT !.today = today, !.night = nights]
             new == counter_value(ops, t, t)
  <1> HIDE DEF told, put
  <1>8. new.ops = put /\ new.out = told /\ new = Gives(new.ops, new.out)
    BY <1>7 DEF Gives, put
  <1>9. /\ Has(put, today, nights, ops.energy, ops.average)
        /\ put.today = today /\ put.night = nights
    <2>1. Has(put, today, nights, ops.energy, ops.average)
      BY <1>6 DEF put
    <2> QED  BY <2>1 DEF Has
  <1> HIDE DEF new, more, Before
  <1>10. /\ Has(new.ops, new.ops.today, new.ops.night, ops.energy, ops.average)
         /\ TodayIs(new.ops.today, more, at)
         /\ NightIs(new.ops.night, more, at)
         /\ Before => NightHolds(new.ops.night, more, at, more \cup {tick})
    BY <1>1, <1>2, <1>8, <1>9
  <1> QED  BY <1>5, <1>8, <1>10 DEF new, more, Before

\* A value of the energy changes its mean and nothing else
LEMMA EnergyValue ==
    ASSUME NEW ops, NEW v \in Int, NEW t \in Int, ops.average \in Mean,
           Has(ops, ops.today, ops.night, ops.energy, ops.average)
    PROVE  LET new == energy_value(ops, v, t)
           IN /\ new = Gives(new.ops, new.out) /\ new.out \in Seq(Reading)
              /\ Has(new.ops, ops.today, ops.night, ops.energy, new.ops.average)
              /\ new.ops.average \in Mean
  <1> DEFINE average == mean_update(ops.average, v, t)
             put == [ops EXCEPT !.average = average]
             told == Told("energy", v, t) \o Told("average", mean_value(average), t)
             new == energy_value(ops, v, t)
  <1>1. average \in Mean /\ mean_value(average) \in Value
    BY MeanUpdates
  <1> HIDE DEF average
  <1>2. told \in Seq(Reading)
    <2>1. Told("energy", v, t) \in Seq(Reading)
      BY ToldIs DEF Entry, Value
    <2>2. Told("average", mean_value(average), t) \in Seq(Reading)
      BY <1>1, ToldIs DEF Entry
    <2> QED  BY <2>1, <2>2, BothTold
  <1>3. Has(put, ops.today, ops.night, ops.energy, average) /\ put.average = average
    <2>1. Has(put, ops.today, ops.night, ops.energy, average)
      BY Puts
    <2> HIDE DEF put
    <2> QED  BY <2>1 DEF Has
  <1>4. new = Gives(put, told)
    BY DEF energy_value, average
  <1> HIDE DEF put, told, new
  <1>5. new.ops = put /\ new.out = told /\ new = Gives(new.ops, new.out)
    BY <1>4 DEF Gives
  <1>6. /\ Has(new.ops, ops.today, ops.night, ops.energy, new.ops.average)
        /\ new.ops.average \in Mean
    BY <1>1, <1>3, <1>5
  <1> QED  BY <1>2, <1>5, <1>6 DEF new

\* A reading of the power changes the energy and the mean of it
LEMMA PowerValue ==
    ASSUME NEW ops, NEW readings \in SUBSET Int, NEW at \in Int, NEW t \in Int, t <= at,
           Has(ops, ops.today, ops.night, ops.energy, ops.average), ops.average \in Mean,
           EnergyIs(ops.energy, readings, at), \A u \in readings : u < t
    PROVE  LET new == power_value(ops, Power, t)
           IN /\ new = Gives(new.ops, new.out) /\ new.out \in Seq(Reading)
              /\ Has(new.ops, ops.today, ops.night, new.ops.energy, new.ops.average)
              /\ new.ops.average \in Mean
              /\ EnergyIs(new.ops.energy, readings \cup {t}, at)
  <1> DEFINE energy == area_update(ops.energy, Power, t)
             put == [ops EXCEPT !.energy = energy]
             new == energy_value(put, energy.total, t)
  <1>1. EnergyIs(energy, readings \cup {t}, at) /\ energy.total \in Int
    BY EnergyReads
  <1> HIDE DEF energy
  <1>2. Has(put, ops.today, ops.night, energy, ops.average)
    BY DEF Has
  <1> HIDE DEF put
  <1>3. /\ put.today = ops.today /\ put.night = ops.night /\ put.energy = energy
        /\ put.average = ops.average
        /\ Has(put, put.today, put.night, put.energy, put.average)
    BY <1>2 DEF Has
  <1>4. /\ new = Gives(new.ops, new.out) /\ new.out \in Seq(Reading)
        /\ Has(new.ops, put.today, put.night, put.energy, new.ops.average)
        /\ new.ops.average \in Mean
    BY <1>1, <1>3, EnergyValue
  <1>5. power_value(ops, Power, t) = new
    BY DEF power_value, energy, put
  <1> HIDE DEF new
  <1>6. new.ops.energy = energy
    BY <1>3, <1>4 DEF Has
  <1>7. Has(new.ops, ops.today, ops.night, new.ops.energy, new.ops.average)
    BY <1>3, <1>4, <1>6
  <1> QED  BY <1>1, <1>4, <1>5, <1>6, <1>7
\* A reading of a feed that is newer than the last of it is one of its readings now
More(readings, f, t) == [readings EXCEPT ![f] = @ \cup {t}]

\* What handling a reading makes of it: it is counted, and if no tick was past it, the
\* window goes on to hold what it came to
Counts(d, new, readings, at, f, t) ==
    /\ new = [ops |-> new.ops, last |-> [d.last EXCEPT ![f] = t], out |-> new.out]
    /\ new.out \in Seq(Reading)
    /\ DerivedIs(new.ops, new.last, More(readings, f, t), at)
    /\ \A tick \in Int :
        NightTold(d.ops, readings, at, tick) /\ tick <= t =>
            NightTold(new.ops, More(readings, f, t), at, tick)

\* on_value() counts a reading that is newer than the last of its feed (derived.py)
LEMMA OnNewer ==
    ASSUME NEW d, NEW readings, NEW at \in Int, DerivedIs(d.ops, d.last, readings, at),
           NEW f \in Feed, NEW t \in Nat, t <= at, IsNewer(d.last, Event(f, t))
    PROVE  Counts(d, on_value(d, Event(f, t)), readings, at, f, t)
  <1> DEFINE r == Event(f, t)
             ops == d.ops
             c == Computes(ops, f, ValueOf(f, t), t)
             new == on_value(d, r)
             last == [d.last EXCEPT ![f] = t]
             more == More(readings, f, t)
             Before(tick) == NightTold(ops, readings, at, tick) /\ tick <= t
  <1>1. r.feed = f /\ r.t = t
    BY DEF Event
  <1>2. new = [ops |-> c.ops, last |-> last, out |-> c.out]
    BY <1>1 DEF on_value
  <1> HIDE DEF c, new, ops
  <1>3. new.ops = c.ops /\ new.last = last /\ new.out = c.out
    BY <1>2
  <1>4. /\ readings \in [Feed -> SUBSET Nat] /\ d.last \in [Feed -> Int] /\ t > d.last[f]
        /\ \A g \in Feed : d.last[g] <= at /\ \A u \in readings[g] : u <= d.last[g]
    BY <1>1 DEF DerivedIs, IsNewer
  <1>5. /\ more \in [Feed -> SUBSET Nat] /\ last \in [Feed -> Int]
        /\ more[f] = readings[f] \cup {t} /\ \A g \in Feed \ {f} : more[g] = readings[g]
    BY <1>4 DEF More
  <1>6. \A u \in readings[f] : u < t
    BY <1>4
  <1>7. \A g \in Feed : last[g] <= at /\ \A u \in more[g] : u <= last[g]
    <2> SUFFICES ASSUME NEW g \in Feed PROVE last[g] <= at /\ \A u \in more[g] : u <= last[g]
      OBVIOUS
    <2>1. CASE g = f
      BY <2>1, <1>4, <1>5, <1>6
    <2>2. CASE g # f
      BY <2>2, <1>4, <1>5
    <2> QED  BY <2>1, <2>2
  <1> HIDE DEF last, more
  <1>8. /\ Has(ops, ops.today, ops.night, ops.energy, ops.average) /\ ops.average \in Mean
        /\ TodayIs(ops.today, readings["counter"], at)
        /\ NightIs(ops.night, readings["counter"], at)
        /\ EnergyIs(ops.energy, readings["power"], at)
        /\ readings["counter"] \in SUBSET Int /\ readings["power"] \in SUBSET Int
    BY <1>4 DEF DerivedIs, ops, Feed
  <1>9. ASSUME f = "counter"
        PROVE  /\ c.out \in Seq(Reading)
               /\ DerivedIs(c.ops, last, more, at)
               /\ \A tick \in Int : Before(tick) => NightTold(c.ops, more, at, tick)
    <2>1. c = counter_value(ops, t, t)
      BY <1>9 DEF c, Computes, ValueOf
    <2>0. /\ readings["counter"] \in SUBSET Int /\ t \in Int
          /\ \A u \in readings["counter"] : u < t
      BY <1>6, <1>8, <1>9
    <2>2. /\ c.out \in Seq(Reading)
          /\ Has(c.ops, c.ops.today, c.ops.night, ops.energy, ops.average)
          /\ TodayIs(c.ops.today, readings["counter"] \cup {t}, at)
          /\ NightIs(c.ops.night, readings["counter"] \cup {t}, at)
          /\ \A tick \in Int : Before(tick) =>
                NightHolds(c.ops.night, readings["counter"] \cup {t}, at,
                           readings["counter"] \cup {t} \cup {tick})
      BY <2>0, <2>1, <1>8, CounterValue DEF NightTold
    <2>3. c.ops.energy = ops.energy /\ c.ops.average = ops.average
      BY <2>2 DEF Has
    <2>4. more["counter"] = readings["counter"] \cup {t} /\ more["power"] = readings["power"]
      BY <1>5, <1>9 DEF Feed
    <2>5. DerivedIs(c.ops, last, more, at)
      BY <2>2, <2>3, <2>4, <1>5, <1>7, <1>8 DEF DerivedIs
    <2> QED  BY <2>2, <2>4, <2>5 DEF NightTold
  <1>10. ASSUME f = "power"
         PROVE  /\ c.out \in Seq(Reading)
                /\ DerivedIs(c.ops, last, more, at)
                /\ \A tick \in Int : Before(tick) => NightTold(c.ops, more, at, tick)
    <2>1. c = power_value(ops, Power, t)
      BY <1>10 DEF c, Computes, ValueOf
    <2>0. readings["power"] \in SUBSET Int /\ (\A u \in readings["power"] : u < t) /\ t \in Int
      BY <1>6, <1>8, <1>10
    <2>2. /\ c.out \in Seq(Reading)
          /\ Has(c.ops, ops.today, ops.night, c.ops.energy, c.ops.average)
          /\ c.ops.average \in Mean
          /\ EnergyIs(c.ops.energy, readings["power"] \cup {t}, at)
      BY <2>0, <2>1, <1>8, PowerValue
    <2>3. c.ops.today = ops.today /\ c.ops.night = ops.night
      BY <2>2 DEF Has
    <2>4. more["power"] = readings["power"] \cup {t} /\ more["counter"] = readings["counter"]
      BY <1>5, <1>10 DEF Feed
    <2>5. DerivedIs(c.ops, last, more, at)
      BY <2>2, <2>3, <2>4, <1>5, <1>7, <1>8 DEF DerivedIs
    <2> QED  BY <2>2, <2>3, <2>4, <2>5 DEF NightTold
  <1>11. f = "counter" \/ f = "power"
    BY DEF Feed
  <1>12. /\ new = [ops |-> new.ops, last |-> last, out |-> new.out]
         /\ new.out \in Seq(Reading) /\ DerivedIs(new.ops, new.last, more, at)
         /\ \A tick \in Int : Before(tick) => NightTold(new.ops, more, at, tick)
    <2>1. new = [ops |-> new.ops, last |-> last, out |-> new.out]
      BY <1>2, <1>3
    <2>2. /\ c.out \in Seq(Reading) /\ DerivedIs(c.ops, last, more, at)
          /\ \A tick \in Int : Before(tick) => NightTold(c.ops, more, at, tick)
      BY <1>9, <1>10, <1>11
    <2> HIDE DEF Before
    <2> QED  BY <2>1, <2>2, <1>3
  <1> QED  BY <1>12 DEF new, r, last, more, ops, Before, Counts

\* ... and makes nothing of any other
LEMMA OnOlder ==
    ASSUME NEW d, NEW r, ~IsNewer(d.last, r),
           d = [ops |-> d.ops, last |-> d.last, out |-> d.out]
    PROVE  on_value(d, r) = [ops |-> d.ops, last |-> d.last, out |-> <<>>]
  BY DEF on_value

\* A tick begins the periods of now, and tells of those that are over
LEMMA TickIs ==
    ASSUME NEW ops, NEW last, NEW readings, NEW at \in Int, NEW tick \in Int,
           tick <= at, DerivedIs(ops, last, readings, at)
    PROVE  LET new == tick_at(ops, at)
           IN /\ new = Gives(new.ops, new.out) /\ new.out \in Seq(Reading)
              /\ DerivedIs(new.ops, last, readings, at)
              /\ NightTold(ops, readings, at, tick) => NightTold(new.ops, readings, at, at)
  <1> DEFINE today == delta_roll(ops.today, at)
             nights == window_roll(ops.night, at)
             energy == area_roll(ops.energy, at)
             Rolled(o, was) == was.start # None /\ o.start # was.start
             put == [ops EXCEPT !.today = today, !.night = nights, !.energy = energy]
             after == IF Rolled(energy, ops.energy) THEN energy_value(put, 0, at)
                      ELSE Gives(put, <<>>)
             average == mean_roll(after.ops.average, at)
             rolled == [after.ops EXCEPT !.average = average]
             first == IF Rolled(today, ops.today) THEN Told("today", 0, at) ELSE <<>>
             second == IF Closes(ops.night, at) THEN Told("night", nights.held, at) ELSE <<>>
             out == first \o second \o after.out
             counters == readings["counter"]
  <1>1. /\ Has(ops, ops.today, ops.night, ops.energy, ops.average) /\ ops.average \in Mean
        /\ TodayIs(ops.today, counters, at)
        /\ NightIs(ops.night, counters, at)
        /\ EnergyIs(ops.energy, readings["power"], at)
        /\ counters \in SUBSET Int /\ readings["power"] \in SUBSET Int
        /\ \A f \in Feed : \A u \in readings[f] : u \in Int /\ u <= at
    <2>1. readings \in [Feed -> SUBSET Nat] /\ last \in [Feed -> Int]
      BY DEF DerivedIs
    <2>2. \A f \in Feed : \A u \in readings[f] : u \in Int /\ u <= at
      BY <2>1 DEF DerivedIs
    <2> QED  BY <2>1, <2>2 DEF DerivedIs, Feed
  <1>2. \A f \in Feed : \A u \in readings[f] : period_start(u) <= period_start(at)
    BY <1>1, PeriodsFollow
  <1>3. TodayIs(today, counters, at)
    BY <1>1, <1>2, TodayRolls DEF Feed
  <1> DEFINE Before == NightHolds(ops.night, counters, at, counters \cup {tick})
  <1>4. /\ NightIs(nights, counters, at)
        /\ Before => NightHolds(nights, counters, at, (counters \cup {tick}) \cup {at})
    BY <1>1, <1>2, NightRolls DEF Feed
  <1>5. Before => NightHolds(nights, counters, at, counters \cup {at})
    <2>1. \A u \in (counters \cup {tick}) \cup {at} : \E v \in counters \cup {at} : u <= v
      BY <1>1 DEF Feed
    <2> QED  BY <2>1, <1>1, <1>4, NightLater
  <1>6. EnergyIs(energy, readings["power"], at)
    BY <1>1, <1>2, EnergyRolls DEF Feed
  <1>7. nights.held \in Value
    BY <1>4 DEF NightIs
  <1> HIDE DEF today, nights, energy
  <1>8. Has(put, today, nights, energy, ops.average)
    BY <1>1, PutsThree
  <1> HIDE DEF put
  <1>9. /\ put.today = today /\ put.night = nights /\ put.energy = energy
        /\ put.average = ops.average
        /\ Has(put, put.today, put.night, put.energy, put.average)
    BY <1>8 DEF Has
  <1>10. /\ after.out \in Seq(Reading) /\ after.ops.average \in Mean
         /\ Has(after.ops, today, nights, energy, after.ops.average)
    <2>1. LET new == energy_value(put, 0, at)
          IN /\ new.out \in Seq(Reading) /\ new.ops.average \in Mean
             /\ Has(new.ops, put.today, put.night, put.energy, new.ops.average)
      BY <1>1, <1>9, EnergyValue
    <2>2. Gives(put, <<>>).out = <<>> /\ Gives(put, <<>>).ops = put
      BY DEF Gives
    <2>3. <<>> \in Seq(Reading)
      OBVIOUS
    <2> QED  BY <2>1, <2>2, <2>3, <1>1, <1>9
  <1> HIDE DEF after
  <1>11. average \in Mean
    BY <1>10, PeriodsFollow DEF mean_roll, MeanOf, Mean, Value
  <1> HIDE DEF average
  <1>12. Has(rolled, today, nights, energy, average)
    BY <1>10 DEF Has
  <1>13. out \in Seq(Reading)
    <2>1. first \in Seq(Reading)
      <3>1. Told("today", 0, at) \in Seq(Reading)
        BY ToldIs DEF Entry, Value
      <3> QED  BY <3>1
    <2>2. second \in Seq(Reading)
      <3>1. Told("night", nights.held, at) \in Seq(Reading)
        BY <1>7, ToldIs DEF Entry
      <3> QED  BY <3>1
    <2> HIDE DEF first, second
    <2>3. first \o second \in Seq(Reading)
      BY <2>1, <2>2, BothTold
    <2> QED  BY <2>3, <1>10, BothTold
  <1>14. tick_at(ops, at) = Gives(rolled, out)
    BY DEF tick_at, today, nights, energy, put, after, average
  <1> HIDE DEF rolled, out
  <1>15. /\ rolled.today = today /\ rolled.night = nights /\ rolled.energy = energy
         /\ rolled.average = average
         /\ Has(rolled, rolled.today, rolled.night, rolled.energy, rolled.average)
    BY <1>12 DEF Has
  <1>16. DerivedIs(rolled, last, readings, at)
    BY <1>3, <1>4, <1>6, <1>11, <1>15 DEF DerivedIs
  <1>17. NightTold(ops, readings, at, tick) => NightTold(rolled, readings, at, at)
    BY <1>5, <1>15 DEF NightTold
  <1> QED  BY <1>13, <1>14, <1>16, <1>17 DEF Gives

\* As time goes by, what was derived stays what its readings make of it
LEMMA DerivedLater ==
    ASSUME NEW ops, NEW last, NEW readings, NEW at \in Int, NEW tick \in Int,
           DerivedIs(ops, last, readings, at), NEW after \in Int, at <= after
    PROVE  /\ DerivedIs(ops, last, readings, after)
           /\ NightTold(ops, readings, at, tick) => NightTold(ops, readings, after, tick)
  <1>1. readings \in [Feed -> SUBSET Nat] /\ last \in [Feed -> Int]
    BY DEF DerivedIs
  <1>2. readings["counter"] \in SUBSET Int /\ readings["power"] \in SUBSET Int
    BY <1>1 DEF Feed
  <1>3. /\ TodayIs(ops.today, readings["counter"], after)
        /\ EnergyIs(ops.energy, readings["power"], after)
    BY <1>2, TodayLater, EnergyLater DEF DerivedIs
  <1>4. /\ NightIs(ops.night, readings["counter"], after)
        /\ NightTold(ops, readings, at, tick) => NightTold(ops, readings, after, tick)
    <2>1. \A u \in readings["counter"] \cup {tick} : u \in Int /\ u <= u
      BY <1>2
    <2> QED  BY <2>1, <1>2, NightLater DEF DerivedIs, NightTold
  <1>5. \A f \in Feed : last[f] <= after
    BY <1>1 DEF DerivedIs
  <1> QED  BY <1>3, <1>4, <1>5 DEF DerivedIs
-----------------------------------------------------------------------------
(* A start: what Influx has of the feeds is handled in order               *)

\* What the start has gone through, of either feed up to a time
Until(feeds, c, p) ==
    [f \in Feed |-> {t \in Replayed(feeds, f) : t < IF f = "counter" THEN c ELSE p}]

ReplayFits(d, feeds, c, p) ==
    /\ d = [ops |-> d.ops, last |-> d.last, out |-> d.out] /\ d.out \in Seq(Reading)
    /\ DerivedIs(d.ops, d.last, Until(feeds, c, p), moment)
    /\ NightTold(d.ops, Until(feeds, c, p), moment, Unread)
    /\ d.last["counter"] < c /\ d.last["power"] < p

RowsAre == moment \in Nat /\ rows \in [Feed -> SUBSET (0..moment)]

\* An operator that was given nothing yet
LEMMA NewFits ==
    ASSUME NEW at \in Int, NEW tick, NEW none, none = [f \in Feed |-> {}], 0 - 1 <= at
    PROVE  /\ DerivedIs(DerivedNew.ops, DerivedNew.last, none, at)
           /\ NightTold(DerivedNew.ops, none, at, tick)
           /\ DerivedNew = [ops |-> DerivedNew.ops, last |-> DerivedNew.last, out |-> <<>>]
           /\ DerivedNew.last["counter"] = Unread /\ DerivedNew.last["power"] = Unread
           /\ DerivedNew.ops.today.start = None /\ DerivedNew.ops.night.start = None
           /\ DerivedNew.ops.energy.start = None
  <1> DEFINE d == DerivedNew
             AreNew(ops) == Has(ops, DeltaOf(None), WindowNew, AreaOf(None), MeanOf(None))
  <1>1. none \in [Feed -> SUBSET Nat] /\ none["counter"] = {} /\ none["power"] = {}
        /\ \A f \in Feed : none[f] = {}
    BY DEF Feed
  <1>2. d = [ops |-> d.ops, last |-> d.last, out |-> <<>>]
        /\ d.last = [f \in Feed |-> Unread] /\ AreNew(d.ops)
    BY DEF DerivedNew, Has
  <1> HIDE DEF d
  <1>3. /\ d.ops.today = DeltaOf(None) /\ d.ops.night = WindowNew
        /\ d.ops.energy = AreaOf(None) /\ d.ops.average = MeanOf(None)
        /\ Has(d.ops, d.ops.today, d.ops.night, d.ops.energy, d.ops.average)
    BY <1>2 DEF Has
  <1>4. MeanOf(None) \in Mean
    BY DEF MeanOf, Mean, Value
  <1>5. d.last \in [Feed -> Int] /\ \A f \in Feed : d.last[f] = -1
    BY <1>2 DEF Unread
  <1>6. DerivedIs(d.ops, d.last, none, at)
    <2>1. \A f \in Feed : d.last[f] <= at /\ \A u \in none[f] : u <= d.last[f]
      BY <1>1, <1>5
    <2>2. /\ TodayIs(d.ops.today, none["counter"], at)
          /\ NightIs(d.ops.night, none["counter"], at)
          /\ EnergyIs(d.ops.energy, none["power"], at)
      BY <1>1, <1>3, TodayNew, NightNew, EnergyNew
    <2> QED  BY <2>1, <2>2, <1>1, <1>3, <1>4, <1>5 DEF DerivedIs
  <1>7. NightTold(d.ops, none, at, tick)
    BY <1>1, <1>3, NightNew DEF NightTold
  <1>8. /\ d.ops.today.start = None /\ d.ops.night.start = None /\ d.ops.energy.start = None
    BY <1>3 DEF DeltaOf, WindowNew, AreaOf
  <1>9. d.last["counter"] = Unread /\ d.last["power"] = Unread
    BY <1>5 DEF Unread, Feed
  <1> QED  BY <1>2, <1>6, <1>7, <1>8, <1>9 DEF d

\* The replay begins with nothing counted
LEMMA ReplayBegins ==
    ASSUME RowsAre, NEW feeds PROVE ReplayFits(DerivedNew, feeds, 0, 0)
  <1> DEFINE none == Until(feeds, 0, 0)
  <1>1. \A f \in Feed : none[f] = {}
    BY DEF Until, Replayed, RowsAre
  <1>2. none = [f \in Feed |-> {}]
    BY <1>1 DEF Until
  <1> HIDE DEF none
  <1>3. moment \in Int /\ 0 - 1 <= moment /\ Unread < 0
    BY DEF RowsAre, Unread
  <1>4. /\ DerivedIs(DerivedNew.ops, DerivedNew.last, none, moment)
        /\ NightTold(DerivedNew.ops, none, moment, Unread)
        /\ DerivedNew = [ops |-> DerivedNew.ops, last |-> DerivedNew.last, out |-> <<>>]
        /\ DerivedNew.last["counter"] = Unread /\ DerivedNew.last["power"] = Unread
    BY <1>2, <1>3, NewFits
  <1>5. DerivedNew.out = <<>> /\ <<>> \in Seq(Reading)
    BY <1>4
  <1> QED  BY <1>3, <1>4, <1>5 DEF ReplayFits, none

\* ... and one row further, one row more is counted if it is read
LEMMA ReplaysFits ==
    ASSUME RowsAre, NEW feeds, NEW d, NEW f \in Feed, NEW t \in 0..moment,
           NEW c \in Int, NEW p \in Int,
           ReplayFits(d, feeds, c, p), t = IF f = "counter" THEN c ELSE p
    PROVE  LET new == Replays(feeds, d, f, t)
           IN ReplayFits(new, feeds, IF f = "counter" THEN c + 1 ELSE c,
                                     IF f = "power" THEN p + 1 ELSE p)
  <1> DEFINE r == Event(f, t)
             e == on_value(d, r)
             new == [e EXCEPT !.out = d.out \o @]
             was == Until(feeds, c, p)
             c1 == IF f = "counter" THEN c + 1 ELSE c
             p1 == IF f = "power" THEN p + 1 ELSE p
             is == Until(feeds, c1, p1)
  <1>1. f = "counter" \/ f = "power"
    BY DEF Feed
  <1>2. d.last[f] < t /\ d.last \in [Feed -> Int]
    BY <1>1 DEF ReplayFits, DerivedIs
  <1>3. \A g \in Feed : Replayed(feeds, g) \subseteq Int
    BY DEF Replayed, RowsAre
  <1>4. CASE t \notin Replayed(feeds, f)
    <2>1. is = was
      <3>1. ASSUME NEW g \in Feed PROVE is[g] = was[g]
        BY <1>1, <1>3, <1>4 DEF Until, Feed
      <3> QED  BY <3>1 DEF Until
    <2>2. d.last["counter"] < c1 /\ d.last["power"] < p1
      BY <1>2 DEF ReplayFits, Feed
    <2> HIDE DEF is, was, c1, p1
    <2>3. ReplayFits(d, feeds, c1, p1)
      BY <2>1, <2>2 DEF ReplayFits, is, was
    <2>4. Replays(feeds, d, f, t) = d
      BY <1>4 DEF Replays
    <2> QED  BY <2>3, <2>4 DEF c1, p1
  <1>5. CASE t \in Replayed(feeds, f)
    <2>1. is = More(was, f, t)
      <3>1. ASSUME NEW g \in Feed PROVE is[g] = More(was, f, t)[g]
        BY <1>1, <1>3, <1>5 DEF Until, Feed, More
      <3> QED  BY <3>1 DEF Until, More
    <2>2. IsNewer(d.last, r) /\ t \in Nat /\ t <= moment /\ moment \in Int
      BY <1>2 DEF IsNewer, Event, RowsAre
    <2>0. DerivedIs(d.ops, d.last, was, moment) /\ NightTold(d.ops, was, moment, Unread)
          /\ Unread \in Int /\ Unread <= t
      BY <2>2 DEF ReplayFits, Unread
    <2> HIDE DEF is, was
    <2>3. /\ e = [ops |-> e.ops, last |-> [d.last EXCEPT ![f] = t], out |-> e.out]
          /\ e.out \in Seq(Reading)
          /\ DerivedIs(e.ops, e.last, More(was, f, t), moment)
          /\ NightTold(e.ops, More(was, f, t), moment, Unread)
      <3>1. Counts(d, e, was, moment, f, t)
        BY <2>0, <2>2, OnNewer
      <3> HIDE DEF e
      <3> QED  BY <3>1, <2>0 DEF Counts
    <2> HIDE DEF e
    <2>4. NightTold(e.ops, is, moment, Unread)
      BY <2>1, <2>3
    <2>5. e.last = [d.last EXCEPT ![f] = t]
      BY <2>3
    <2>6. d.out \o e.out \in Seq(Reading)
      BY <2>3, BothTold DEF ReplayFits
    <2>7. new = [ops |-> e.ops, last |-> e.last, out |-> d.out \o e.out]
      <3>1. e \in [ops : {e.ops}, last : {e.last}, out : {e.out}]
        BY <2>3, <2>5
      <3>2. new \in [ops : {e.ops}, last : {e.last}, out : {d.out \o e.out}]
        BY <3>1
      <3> HIDE DEF new
      <3> QED  BY <3>2
    <2> HIDE DEF new
    <2>8. /\ new.ops = e.ops /\ new.last = e.last /\ new.out \in Seq(Reading)
          /\ new = [ops |-> new.ops, last |-> new.last, out |-> new.out]
      BY <2>6, <2>7
    <2>9. new.last["counter"] < c1 /\ new.last["power"] < p1
      BY <1>1, <1>2, <2>5, <2>8 DEF ReplayFits, Feed
    <2>10. Replays(feeds, d, f, t) = new
      BY <1>5 DEF Replays, new, e
    <2> HIDE DEF c1, p1
    <2>11. ReplayFits(new, feeds, c1, p1)
      BY <2>1, <2>3, <2>4, <2>8, <2>9 DEF ReplayFits, is
    <2> QED  BY <2>10, <2>11 DEF c1, p1
  <1> QED  BY <1>4, <1>5
\* What a start has made of what it read, before it rolls the periods
LEMMA ReplayIs ==
    ASSUME RowsAre, NEW feeds
    PROVE  ReplayFits(Replay(feeds), feeds, moment + 1, moment + 1)
  <1> DEFINE After(d, t) == Replays(feeds, Replays(feeds, d, "counter", t), "power", t)
             Goes(g, n) ==
                g = [t \in 0..n |-> IF t = 0 THEN DerivedNew ELSE After(g[t - 1], t - 1)]
             before[t \in 0..moment + 1] ==
                IF t = 0 THEN DerivedNew
                ELSE Replays(feeds, Replays(feeds, before[t - 1], "counter", t - 1),
                             "power", t - 1)
  <1>1. Replay(feeds) = before[moment + 1]
    BY DEF Replay
  <1> HIDE DEF After
  <1>2. \E g : Goes(g, moment + 1)
    <2> DEFINE S == {n \in Nat : \E g : Goes(g, n)}
    <2>1. 0 \in S
      <3>1. Goes([t \in 0..0 |-> DerivedNew], 0)
        OBVIOUS
      <3> QED  BY <3>1
    <2>2. ASSUME NEW n \in Nat, n \in S PROVE n + 1 \in S
      <3>1. PICK g : Goes(g, n)
        BY <2>2
      <3> DEFINE h == [t \in 0..(n + 1) |-> IF t <= n THEN g[t] ELSE After(g[n], n)]
      <3>2. ASSUME NEW t \in 0..(n + 1)
            PROVE  h[t] = IF t = 0 THEN DerivedNew ELSE After(h[t - 1], t - 1)
        <4>1. CASE t = 0
          BY <3>1, <4>1
        <4>2. CASE t # 0 /\ t <= n
          <5>1. h[t] = g[t] /\ h[t - 1] = g[t - 1] /\ t \in 0..n
            BY <4>2
          <5> HIDE DEF h
          <5> QED  BY <3>1, <4>2, <5>1
        <4>3. CASE t = n + 1
          <5>1. h[t] = After(g[n], n) /\ t - 1 = n /\ h[n] = g[n] /\ t # 0
            BY <4>3
          <5> QED  BY <4>3, <5>1
        <4> QED  BY <4>1, <4>2, <4>3
      <3>3. Goes(h, n + 1) /\ n + 1 \in Nat
        BY <3>2
      <3> HIDE DEF h, Goes
      <3> QED  BY <3>3
    <2>3. Nat \subseteq S
      <3> HIDE DEF S
      <3> QED  BY <2>1, <2>2, AllNumbers
    <2> QED  BY <2>3 DEF RowsAre
  <1>3. Goes(before, moment + 1)
    BY <1>2 DEF After
  <1> HIDE DEF before
  <1> DEFINE S == {n \in Nat : n <= moment + 1 => ReplayFits(before[n], feeds, n, n)}
  <1>4. 0 \in S
    <2>1. before[0] = DerivedNew
      BY <1>3 DEF RowsAre
    <2> QED  BY <2>1, ReplayBegins
  <1>5. ASSUME NEW n \in Nat, n \in S PROVE n + 1 \in S
    <2>1. SUFFICES ASSUME n + 1 <= moment + 1 PROVE ReplayFits(before[n + 1], feeds, n + 1, n + 1)
      BY <1>5
    <2>2. n \in 0..moment /\ n + 1 \in 0..(moment + 1) /\ (n + 1) - 1 = n /\ n + 1 # 0
      BY <2>1 DEF RowsAre
    <2>3. before[n + 1] = After(before[n], n)
      BY <1>3, <2>2
    <2>4. ReplayFits(before[n], feeds, n, n)
      BY <1>5, <2>1, <2>2 DEF RowsAre
    <2> DEFINE half == Replays(feeds, before[n], "counter", n)
    <2>5. ReplayFits(half, feeds, n + 1, n)
      BY <2>2, <2>4, ReplaysFits DEF Feed
    <2> HIDE DEF half
    <2>6. ReplayFits(Replays(feeds, half, "power", n), feeds, n + 1, n + 1)
      BY <2>2, <2>5, ReplaysFits DEF Feed
    <2> QED  BY <2>3, <2>6 DEF After, half
  <1>6. Nat \subseteq S
    <2> HIDE DEF S
    <2> QED  BY <1>4, <1>5, AllNumbers
  <1> QED  BY <1>1, <1>6 DEF RowsAre
-----------------------------------------------------------------------------
(* The invariant                                                           *)

\* What is on its way: a reading of a feed, or one of ours
Message(at) == [feed : Feed, t : 0..at] \cup Reading

LiveType ==
    /\ RowsAre /\ site \in SUBSET Feed
    /\ whole \in [Feed -> SUBSET (0..moment)]
    /\ ticked \in Int /\ ticked <= moment /\ late \in BOOLEAN
    /\ link \in {"off", "seeded", "on"}
    /\ hand \in [Thread -> Seq(Reading)]
    /\ retained \in [Entry -> Reading \cup {None}]
    /\ inflight \in Seq(Message(moment))

\* While it does not run, nothing is derived
NothingDerived == op.today.start = None /\ op.night.start = None /\ op.energy.start = None

\* What a start found of today it has counted
WholeIsCounted ==
    \A f \in Feed : \A t \in whole[f] : period_start(t) = period_start(moment) => t \in got[f]

LiveInv ==
    /\ LiveType
    /\ DerivedIs(op, last_t, got, moment)
    /\ ~late => NightTold(op, got, moment, ticked)
    /\ link = "off" => NothingDerived /\ inflight = <<>>
    /\ link # "off" => WholeIsCounted

\* Before the first start nothing is derived
LEMMA LiveBegins == LiveInit => LiveInv
  <1> SUFFICES ASSUME LiveInit PROVE LiveInv
    OBVIOUS
  <1>1. LiveType
    <2>1. RowsAre /\ site \in SUBSET Feed /\ ticked \in Int /\ ticked <= moment
      BY DEF LiveInit, RowsAre, Feed, Unread
    <2>2. hand \in [Thread -> Seq(Reading)]
      BY DEF LiveInit
    <2>3. inflight \in Seq(Message(moment))
      BY DEF LiveInit
    <2> QED  BY <2>1, <2>2, <2>3 DEF LiveInit, LiveType
  <1>2. /\ DerivedIs(op, last_t, got, moment) /\ NightTold(op, got, moment, ticked)
        /\ NothingDerived /\ inflight = <<>> /\ link = "off"
    <2>1. moment \in Int /\ 0 - 1 <= moment /\ got = [f \in Feed |-> {}]
      BY DEF LiveInit
    <2>2. op = DerivedNew.ops /\ last_t = DerivedNew.last /\ inflight = <<>> /\ link = "off"
      BY DEF LiveInit
    <2> QED  BY <2>1, <2>2, NewFits DEF NothingDerived
  <1> QED  BY <1>1, <1>2 DEF LiveInv

\* A new day finds the totals of the day before, which are not of its period
LEMMA LiveClock ==
    ASSUME LiveInv, Clock PROVE LiveInv'
  <1>1. /\ moment \in Nat /\ moment' = moment + 1 /\ moment' \in Int /\ moment <= moment'
        /\ ticked \in Int
    BY DEF LiveInv, LiveType, RowsAre, Clock
  <1>2. /\ UNCHANGED <<site, rows, retained, inflight, link, hand, store, starts, whole>>
        /\ UNCHANGED <<op, last_t, got, ticked, late>>
    BY DEF Clock, derived
  <1>3. LiveType'
    <2>0. whole' \in [Feed -> SUBSET (0..moment')]
      <3>1. whole \in [Feed -> SUBSET (0..moment)] /\ 0..moment \subseteq 0..moment'
        BY <1>1 DEF LiveInv, LiveType
      <3> QED  BY <1>2, <3>1
    <2>1. RowsAre'
      <3>1. rows \in [Feed -> SUBSET (0..moment)] /\ 0..moment \subseteq 0..moment'
        BY <1>1 DEF LiveInv, LiveType, RowsAre
      <3> QED  BY <1>1, <1>2, <3>1 DEF RowsAre
    <2>2. inflight' \in Seq(Message(moment'))
      <3>1. Message(moment) \subseteq Message(moment')
        BY <1>1 DEF Message
      <3>2. inflight \in Seq(Message(moment))
        BY DEF LiveInv, LiveType
      <3> HIDE DEF Message
      <3> QED  BY <3>1, <3>2, <1>2
    <2>3. ticked' <= moment'
      BY <1>1, <1>2 DEF LiveInv, LiveType
    <2> QED  BY <2>0, <2>1, <2>2, <2>3, <1>2 DEF LiveInv, LiveType
  <1>4. /\ DerivedIs(op, last_t, got, moment')
        /\ NightTold(op, got, moment, ticked) => NightTold(op, got, moment', ticked)
    BY <1>1, DerivedLater DEF LiveInv
  <1>5. WholeIsCounted => WholeIsCounted'
    <2> SUFFICES ASSUME WholeIsCounted, NEW f \in Feed, NEW t \in whole'[f],
                        period_start(t) = period_start(moment') PROVE t \in got'[f]
      BY DEF WholeIsCounted
    <2>1. t \in whole[f] /\ t \in Int /\ t <= moment /\ moment \in Int
      BY <1>1, <1>2 DEF LiveInv, LiveType
    <2>2. period_start(t) = period_start(moment)
      <3>1. /\ period_start(t) \in Int /\ period_start(moment) \in Int
            /\ period_start(t) <= period_start(moment)
            /\ period_start(moment) <= period_start(moment')
        BY <1>1, <2>1, PeriodsFollow
      <3> QED  BY <3>1
    <2> QED  BY <1>2, <2>1, <2>2 DEF WholeIsCounted
  <1> QED  BY <1>2, <1>3, <1>4, <1>5 DEF LiveInv, NothingDerived

\* A reading on its way is of a feed, and of no later than now
LEMMA LiveSends ==
    ASSUME LiveInv, BridgeSends PROVE LiveInv'
  <1> PICK f \in site :
        /\ rows' = [rows EXCEPT ![f] = @ \cup {moment}]
        /\ inflight' = IF link = "on" THEN Append(inflight, Event(f, moment)) ELSE inflight
    BY DEF BridgeSends
  <1>1. /\ UNCHANGED <<site, moment, retained, link, hand, store, starts, whole>>
        /\ UNCHANGED <<op, last_t, got, ticked, late>>
    BY DEF BridgeSends, derived
  <1>2. moment \in Nat /\ f \in Feed /\ rows \in [Feed -> SUBSET (0..moment)]
        /\ inflight \in Seq(Message(moment))
    BY DEF LiveInv, LiveType, RowsAre
  <1>3. RowsAre'
    BY <1>1, <1>2 DEF RowsAre
  <1>4. inflight' \in Seq(Message(moment'))
    <2>1. Event(f, moment) \in Message(moment)
      BY <1>2 DEF Event, Message
    <2> HIDE DEF Message
    <2> QED  BY <2>1, <1>1, <1>2
  <1>5. LiveType'
    BY <1>1, <1>3, <1>4 DEF LiveInv, LiveType
  <1>6. link = "off" => inflight' = inflight
    OBVIOUS
  <1> QED  BY <1>1, <1>5, <1>6 DEF LiveInv, NothingDerived, WholeIsCounted

\* Some times have a last one
LEMMA LastIs ==
    ASSUME NEW at \in Nat, NEW S \in SUBSET (0..at), S # {}
    PROVE  Max(S) \in S
  <1> DEFINE Ends(n) == \A T \in SUBSET (0..n) : T # {} => \E x \in T : \A y \in T : x >= y
             N == {n \in Nat : Ends(n)}
  <1>1. 0 \in N
    <2>1. ASSUME NEW T \in SUBSET (0..0), T # {} PROVE \E x \in T : \A y \in T : x >= y
      <3>1. PICK x : x \in T
        BY <2>1
      <3>2. \A y \in T : y = 0 /\ x = 0
        BY <3>1
      <3> QED  BY <3>1, <3>2
    <2> QED  BY <2>1
  <1>2. ASSUME NEW n \in Nat, n \in N PROVE n + 1 \in N
    <2>1. ASSUME NEW T \in SUBSET (0..(n + 1)), T # {} PROVE \E x \in T : \A y \in T : x >= y
      <3>1. CASE n + 1 \in T
        <4>1. \A y \in T : n + 1 >= y
          OBVIOUS
        <4> QED  BY <3>1, <4>1
      <3>2. CASE n + 1 \notin T
        <4>1. T \in SUBSET (0..n)
          BY <3>2
        <4> QED  BY <4>1, <2>1, <1>2
      <3> QED  BY <3>1, <3>2
    <2> QED  BY <2>1
  <1>3. at \in N
    <2> HIDE DEF N
    <2> QED  BY <1>1, <1>2, AllNumbers
  <1>4. \E x \in S : \A y \in S : x >= y
    BY <1>3
  <1> QED  BY <1>4 DEF Max

\* What the broker kept is readings of feeds and of ours, none of them newer than now
LEMMA LiveSubscribes ==
    ASSUME LiveInv, Subscribe PROVE LiveInv'
  <1>1. /\ UNCHANGED <<site, moment, rows, retained, hand, store, starts, whole>>
        /\ UNCHANGED <<op, last_t, got, ticked, late>> /\ link = "seeded" /\ link' = "on"
    BY DEF Subscribe, derived, env
  <1>2. moment \in Nat /\ rows \in [Feed -> SUBSET (0..moment)]
        /\ retained \in [Entry -> Reading \cup {None}]
    BY DEF LiveInv, LiveType, RowsAre
  <1>3. \A f \in Feed : RetainedOf(f) \in Seq(Message(moment))
    <2> SUFFICES ASSUME NEW f \in Feed, rows[f] # {}
                 PROVE <<Event(f, Max(rows[f]))>> \in Seq(Message(moment))
      BY DEF RetainedOf
    <2>1. Max(rows[f]) \in 0..moment
      BY <1>2, LastIs
    <2>2. Event(f, Max(rows[f])) \in Message(moment)
      BY <2>1 DEF Event, Message
    <2> HIDE DEF Message
    <2> QED  BY <2>2
  <1>4. \A e \in Entry : RetainedAs(e) \in Seq(Message(moment))
    <2>1. \A e \in Entry : retained[e] # None => retained[e] \in Message(moment)
      BY <1>2 DEF Message
    <2> HIDE DEF Message
    <2> QED  BY <2>1 DEF RetainedAs
  <1>5. inflight' \in Seq(Message(moment'))
    <2>1. inflight' = RetainedOf("counter") \o RetainedOf("power")
                        \o RetainedAs("today") \o RetainedAs("night")
                        \o RetainedAs("energy") \o RetainedAs("average")
      BY DEF Subscribe
    <2>2. /\ RetainedOf("counter") \in Seq(Message(moment))
          /\ RetainedOf("power") \in Seq(Message(moment))
          /\ RetainedAs("today") \in Seq(Message(moment))
          /\ RetainedAs("night") \in Seq(Message(moment))
          /\ RetainedAs("energy") \in Seq(Message(moment))
          /\ RetainedAs("average") \in Seq(Message(moment))
      BY <1>3, <1>4 DEF Feed, Entry
    <2> HIDE DEF Message
    <2> QED  BY <2>1, <2>2, <1>1
  <1>6. LiveType'
    BY <1>1, <1>5 DEF LiveInv, LiveType, RowsAre
  <1> QED  BY <1>1, <1>6 DEF LiveInv, NothingDerived, WholeIsCounted

\* What was under way is lost, and nothing else
LEMMA LiveDisconnects ==
    ASSUME LiveInv, Disconnect PROVE LiveInv'
  <1>1. /\ UNCHANGED <<site, moment, rows, retained, hand, store, starts, whole>>
        /\ UNCHANGED <<op, last_t, got, ticked, late>>
        /\ link = "on" /\ link' = "seeded" /\ inflight' = <<>>
    BY DEF Disconnect, derived, env
  <1>2. inflight' \in Seq(Message(moment'))
    BY <1>1
  <1>3. LiveType'
    BY <1>1, <1>2 DEF LiveInv, LiveType, RowsAre
  <1> QED  BY <1>1, <1>3 DEF LiveInv, NothingDerived, WholeIsCounted

\* A stop forgets what was derived
LEMMA LiveStops ==
    ASSUME LiveInv, Stop PROVE LiveInv'
  <1>1. /\ UNCHANGED <<site, moment, rows, retained, starts, whole, ticked, late>>
        /\ link' = "off" /\ inflight' = <<>> /\ hand' = [th \in Thread |-> <<>>]
        /\ op' = DerivedNew.ops /\ last_t' = DerivedNew.last /\ got' = [f \in Feed |-> {}]
    BY DEF Stop, env
  <1>2. inflight' \in Seq(Message(moment')) /\ hand' \in [Thread -> Seq(Reading)]
    BY <1>1
  <1>3. LiveType'
    BY <1>1, <1>2 DEF LiveInv, LiveType, RowsAre
  <1>4. moment \in Int /\ 0 - 1 <= moment
    BY DEF LiveInv, LiveType, RowsAre
  <1>5. /\ DerivedIs(op', last_t', got', moment) /\ NightTold(op', got', moment, ticked)
        /\ op'.today.start = None /\ op'.night.start = None /\ op'.energy.start = None
    BY <1>1, <1>4, NewFits
  <1> QED  BY <1>1, <1>3, <1>5 DEF LiveInv, NothingDerived

\* A start reads as far back as midnight at least
LEMMA ReadsToday ==
    ASSUME moment \in Nat, NEW f
    PROVE  replay_since(f) <= period_start(moment) /\ replay_since(f) \in Int
  <1> DEFINE start == period_start(moment)
             a == moment - LIVE_S
             b == IF f = "counter" /\ moment < window_end(start)
                  THEN period_start(start - 1) ELSE start
  <1>1. start \in Int /\ a \in Int
    BY PeriodsFollow, LiveAssumption
  <1>2. period_start(start - 1) \in Int /\ period_start(start - 1) <= start
    <2>1. start - 1 \in Int /\ start - 1 <= start
      BY <1>1
    <2>2. period_start(start - 1) \in Int /\ period_start(start - 1) <= start - 1
      BY <2>1, PeriodsFollow
    <2> HIDE DEF start
    <2> QED  BY <2>1, <2>2, <1>1
  <1>3. b \in Int /\ b <= start
    BY <1>1, <1>2
  <1>4. replay_since(f) = Min({a, b})
    BY DEF replay_since
  <1> HIDE DEF start, a, b
  <1>5. \E x \in {a, b} : \A y \in {a, b} : x <= y
    BY <1>1, <1>3
  <1>6. Min({a, b}) \in {a, b} /\ Min({a, b}) <= b
    BY <1>5 DEF Min
  <1> QED  BY <1>1, <1>3, <1>4, <1>6 DEF start

\* A start derives again what Influx has of today, and ticks (main, seed)
LEMMA LiveStarts ==
    ASSUME LiveInv, Start PROVE LiveInv'
  <1> PICK feeds \in {{}, site} :
        /\ op' = Seeded(feeds).ops /\ last_t' = Seeded(feeds).last
        /\ whole' = [f \in Feed |-> IF f \in feeds THEN rows[f] ELSE {}]
        /\ got' = [f \in Feed |-> Replayed(feeds, f)]
    BY DEF Start
  <1>1. /\ UNCHANGED <<site, moment, rows, retained, inflight, hand>>
        /\ link' = "seeded" /\ ticked' = moment /\ late' = FALSE
    BY DEF Start, env
  <1>2. RowsAre /\ moment \in Nat /\ moment \in Int /\ rows \in [Feed -> SUBSET (0..moment)]
    BY DEF LiveInv, LiveType, RowsAre
  <1>3. LiveType'
    <2>1. whole' \in [Feed -> SUBSET (0..moment)]
      BY <1>2
    <2>2. ticked' \in Int /\ ticked' <= moment'
      BY <1>1, <1>2
    <2> QED  BY <2>1, <2>2, <1>1 DEF LiveInv, LiveType, RowsAre
  <1> DEFINE d == Replay(feeds)
             rolled == tick_at(d.ops, moment)
             new == [d EXCEPT !.ops = rolled.ops, !.out = @ \o rolled.out]
  <1>4. ReplayFits(d, feeds, moment + 1, moment + 1)
    BY <1>2, ReplayIs
  <1>5. Until(feeds, moment + 1, moment + 1) = got'
    <2>1. \A f \in Feed : \A t \in Replayed(feeds, f) : t < moment + 1
      BY <1>2 DEF Replayed
    <2> QED  BY <2>1 DEF Until
  <1>6. Seeded(feeds) = new
    BY DEF Seeded, Rolls
  <1> HIDE DEF d
  <1>7. /\ d = [ops |-> d.ops, last |-> d.last, out |-> d.out]
        /\ DerivedIs(d.ops, d.last, got', moment) /\ NightTold(d.ops, got', moment, Unread)
    BY <1>4, <1>5 DEF ReplayFits
  <1>8. Unread \in Int /\ Unread <= moment
    BY <1>2 DEF Unread
  <1>9. DerivedIs(rolled.ops, d.last, got', moment) /\ NightTold(rolled.ops, got', moment, moment)
    BY <1>2, <1>7, <1>8, TickIs
  <1> HIDE DEF rolled
  <1>10. new.ops = rolled.ops /\ new.last = d.last
    BY <1>7
  <1> HIDE DEF new
  <1>11. DerivedIs(op', last_t', got', moment) /\ NightTold(op', got', moment, moment)
    BY <1>6, <1>9, <1>10
  <1>12. WholeIsCounted'
    <2> SUFFICES ASSUME NEW f \in Feed, NEW t \in whole'[f],
                        period_start(t) = period_start(moment') PROVE t \in got'[f]
      BY DEF WholeIsCounted
    <2>1. f \in feeds /\ t \in rows[f] /\ t \in Int
      BY <1>2
    <2>2. period_start(t) \in Int /\ period_start(t) <= t
      BY <2>1, PeriodsFollow
    <2>3. t >= replay_since(f)
      BY <2>1, <2>2, <1>1, <1>2, ReadsToday
    <2> QED  BY <2>1, <2>3 DEF Replayed
  <1> QED  BY <1>1, <1>3, <1>11, <1>12 DEF LiveInv

\* A tick rolls the periods that are over (app.py tick)
LEMMA LiveTicks ==
    ASSUME LiveInv, Ticks PROVE LiveInv'
  <1> DEFINE d == tick_at(op, moment)
  <1>1. /\ UNCHANGED <<site, moment, rows, retained, inflight, link, last_t, got, late, whole>>
        /\ link # "off" /\ ticked' = moment /\ op' = d.ops
        /\ hand' = [hand EXCEPT !["tick"] = d.out]
    BY DEF Ticks, env
  <1>2. moment \in Int /\ ticked \in Int /\ ticked <= moment /\ hand \in [Thread -> Seq(Reading)]
    BY DEF LiveInv, LiveType, RowsAre
  <1>3. /\ d.out \in Seq(Reading) /\ DerivedIs(d.ops, last_t, got, moment)
        /\ NightTold(op, got, moment, ticked) => NightTold(d.ops, got, moment, moment)
    BY <1>2, TickIs DEF LiveInv
  <1> HIDE DEF d
  <1>4. hand' \in [Thread -> Seq(Reading)]
    BY <1>1, <1>2, <1>3
  <1>5. LiveType'
    BY <1>1, <1>2, <1>4 DEF LiveInv, LiveType, RowsAre
  <1> QED  BY <1>1, <1>3, <1>5 DEF LiveInv, WholeIsCounted

\* Accepting what was derived changes no operator (accept_derived)
LEMMA LiveAccepts ==
    ASSUME LiveInv, NEW th \in Thread, AcceptDerived(th) PROVE LiveInv'
  <1> DEFINE r == Head(hand[th])
  <1>1. /\ UNCHANGED <<site, moment, rows, link, whole>>
        /\ UNCHANGED <<op, last_t, got, ticked, late>>
        /\ hand[th] # <<>> /\ hand' = [hand EXCEPT ![th] = Tail(hand[th])]
    BY DEF AcceptDerived, env, derived
  <1>2. /\ moment \in Int /\ hand \in [Thread -> Seq(Reading)]
        /\ retained \in [Entry -> Reading \cup {None}] /\ inflight \in Seq(Message(moment))
    BY DEF LiveInv, LiveType, RowsAre
  <1>3. r \in Reading /\ Tail(hand[th]) \in Seq(Reading)
    <2>1. hand[th] \in Seq(Reading) /\ hand[th] # <<>>
      BY <1>1, <1>2
    <2> HIDE DEF Reading
    <2> QED  BY <2>1
  <1> HIDE DEF r
  <1>4. \/ /\ link = "on" /\ retained' = [retained EXCEPT ![r.entry] = r]
           /\ inflight' = Append(inflight, r)
        \/ UNCHANGED <<retained, inflight>>
    BY DEF AcceptDerived, r
  <1>5. retained' \in [Entry -> Reading \cup {None}]
    BY <1>2, <1>3, <1>4
  <1>6. inflight' \in Seq(Message(moment))
    <2>1. r \in Message(moment)
      BY <1>3 DEF Message
    <2> HIDE DEF Message
    <2> QED  BY <2>1, <1>2, <1>4
  <1>7. hand' \in [Thread -> Seq(Reading)]
    BY <1>1, <1>2, <1>3
  <1>8. LiveType'
    BY <1>1, <1>5, <1>6, <1>7 DEF LiveInv, LiveType, RowsAre
  <1>9. link = "off" => inflight' = inflight
    BY <1>4
  <1> QED  BY <1>1, <1>8, <1>9 DEF LiveInv, NothingDerived, WholeIsCounted

\* A message of a feed is counted if it is newer; of ours, it only is stored
LEMMA LiveHandles ==
    ASSUME LiveInv, HandleMessage PROVE LiveInv'
  <1> DEFINE r == Head(inflight)
             d == [ops |-> op, last |-> last_t, out |-> <<>>]
             new == on_value(d, r)
  <1>1. /\ UNCHANGED <<site, moment, rows, retained, link, whole>>
        /\ inflight # <<>> /\ inflight' = Tail(inflight)
    BY DEF HandleMessage, env
  <1>2. /\ moment \in Int /\ hand \in [Thread -> Seq(Reading)]
        /\ inflight \in Seq(Message(moment))
        /\ ticked \in Int /\ ticked <= moment /\ late \in BOOLEAN
    BY DEF LiveInv, LiveType, RowsAre
  <1>3. r \in Message(moment) /\ inflight' \in Seq(Message(moment))
    <2> HIDE DEF Message
    <2> QED  BY <1>1, <1>2
  <1>4. link # "off"
    BY <1>1 DEF LiveInv
  <1> HIDE DEF r
  <1>5. ASSUME UNCHANGED <<op, last_t, got, late, ticked>>, hand' \in [Thread -> Seq(Reading)]
        PROVE  LiveInv'
    <2>1. LiveType'
      BY <1>1, <1>3, <1>5 DEF LiveInv, LiveType, RowsAre
    <2> QED  BY <2>1, <1>1, <1>4, <1>5 DEF LiveInv, WholeIsCounted
  <1>6. CASE "entry" \in DOMAIN r
    <2>1. UNCHANGED <<op, last_t, got, late, ticked>> /\ UNCHANGED hand
      BY <1>6 DEF HandleMessage, r, derived
    <2> QED  BY <2>1, <1>2, <1>5
  <1>7. CASE "entry" \notin DOMAIN r
    <2>1. PICK f \in Feed, t \in 0..moment : r = Event(f, t)
      <3>1. r \notin Reading
        BY <1>7 DEF Reading
      <3>2. r \in [feed : Feed, t : 0..moment]
        BY <3>1, <1>3 DEF Message
      <3> QED  BY <3>2 DEF Event
    <2>2. /\ op' = new.ops /\ last_t' = new.last /\ hand' = [hand EXCEPT !["loop"] = new.out]
          /\ got' = IF IsNewer(last_t, r) THEN [got EXCEPT ![r.feed] = @ \cup {r.t}] ELSE got
          /\ late' = (late \/ (IsNewer(last_t, r) /\ r.t < ticked)) /\ ticked' = ticked
      BY <1>7 DEF HandleMessage, r
    <2>3. d.ops = op /\ d.last = last_t /\ d.out = <<>> /\ r.feed = f /\ r.t = t
      BY <2>1 DEF Event
    <2>4. CASE ~IsNewer(last_t, r)
      <3>1. ~IsNewer(d.last, r) /\ d = [ops |-> d.ops, last |-> d.last, out |-> d.out]
        BY <2>3, <2>4
      <3>2. new = [ops |-> op, last |-> last_t, out |-> <<>>]
        BY <3>1, <2>3, OnOlder
      <3> HIDE DEF new
      <3>3. UNCHANGED <<op, last_t, got, ticked>> /\ hand' = [hand EXCEPT !["loop"] = <<>>]
        BY <3>2, <2>2, <2>4
      <3>4. late' = late
        BY <2>2, <2>4, <1>2
      <3>5. hand' \in [Thread -> Seq(Reading)]
        BY <3>3, <1>2 DEF Thread
      <3> QED  BY <3>3, <3>4, <3>5, <1>5
    <2>5. CASE IsNewer(last_t, r)
      <3> DEFINE more == More(got, f, t)
      <3>0. t \in Nat /\ t <= moment
        BY <1>2
      <3>1. Counts(d, new, got, moment, f, t)
        <4>1. DerivedIs(d.ops, d.last, got, moment) /\ IsNewer(d.last, Event(f, t))
          BY <2>1, <2>3, <2>5 DEF LiveInv
        <4> HIDE DEF d
        <4>2. Counts(d, on_value(d, Event(f, t)), got, moment, f, t)
          BY <4>1, <3>0, <1>2, OnNewer
        <4> QED  BY <4>2, <2>1
      <3> HIDE DEF new
      <3>2. got' = more /\ late' = (late \/ t < ticked)
        BY <2>2, <2>3, <2>5 DEF More
      <3>3. /\ new.out \in Seq(Reading) /\ DerivedIs(op', last_t', got', moment)
            /\ NightTold(op, got, moment, ticked) /\ ticked <= t =>
                  NightTold(op', got', moment, ticked)
        <4>1. /\ new.out \in Seq(Reading) /\ DerivedIs(new.ops, new.last, more, moment)
              /\ NightTold(d.ops, got, moment, ticked) /\ ticked <= t =>
                    NightTold(new.ops, more, moment, ticked)
          BY <3>1, <1>2 DEF Counts
        <4> HIDE DEF more, d
        <4> QED  BY <4>1, <2>2, <2>3, <3>2
      <3>4. ~late' => ~late /\ ticked <= t
        <4>1. ~(t < ticked) => ticked <= t
          BY <3>0, <1>2
        <4> QED  BY <3>2, <4>1, Zenon
      <3>5. hand' \in [Thread -> Seq(Reading)]
        BY <2>2, <3>3, <1>2 DEF Thread
      <3>6. LiveType'
        <4>1. late' \in BOOLEAN
          BY <3>2
        <4> QED  BY <4>1, <2>2, <3>5, <1>1, <1>3 DEF LiveInv, LiveType, RowsAre
      <3>7. WholeIsCounted'
        <4>1. \A g \in Feed : got[g] \subseteq got'[g]
          BY <3>2 DEF LiveInv, DerivedIs, More
        <4> QED  BY <4>1, <1>1, <1>4 DEF LiveInv, WholeIsCounted
      <3> QED  BY <3>3, <3>4, <3>6, <3>7, <1>1, <1>4, <2>2 DEF LiveInv
    <2> QED  BY <2>4, <2>5
  <1> QED  BY <1>6, <1>7

\* Whatever emon_live derives is what the readings it was given come to, through
\* restarts, what the broker brings again, midnight, and ticks between (derived.py)
THEOREM DerivedOfReadings == LiveSpec => []LiveInv
  <1>1. LiveInv /\ [LiveNext]_liveVars => LiveInv'
    <2> SUFFICES ASSUME LiveInv, [LiveNext]_liveVars PROVE LiveInv'
      OBVIOUS
    <2>1. CASE LiveNext
      BY <2>1, LiveClock, LiveSends, LiveStarts, LiveSubscribes, LiveDisconnects, LiveStops,
         LiveHandles, LiveTicks, LiveAccepts DEF LiveNext
    <2>2. CASE UNCHANGED liveVars
      BY <2>2 DEF LiveInv, LiveType, RowsAre, NothingDerived, WholeIsCounted, liveVars, env,
                  derived
    <2> QED  BY <2>1, <2>2
  <1> QED  BY LiveBegins, <1>1, PTL DEF LiveSpec

\* The ends of some times are the first and the last of them
LEMMA EndsAre ==
    ASSUME NEW S \in SUBSET Int, NEW a, NEW b, Spans(a, b, S)
    PROVE  Min(S) = a /\ Max(S) = b
  <1>1. a \in S /\ b \in S /\ \A t \in S : a <= t /\ t <= b
    BY DEF Spans
  <1>2. \E x \in S : \A y \in S : x <= y
    BY <1>1
  <1>3. Min(S) \in S /\ \A y \in S : Min(S) <= y
    BY <1>2 DEF Min
  <1>4. \E x \in S : \A y \in S : x >= y
    BY <1>1
  <1>5. Max(S) \in S /\ \A y \in S : Max(S) >= y
    BY <1>4 DEF Max
  <1>6. Min(S) <= a /\ a <= Min(S) /\ Max(S) >= b /\ Max(S) <= b
    BY <1>1, <1>3, <1>5
  <1>7. a \in Int /\ b \in Int /\ Min(S) \in Int /\ Max(S) \in Int
    BY <1>1, <1>3, <1>5
  <1> QED  BY <1>6, <1>7

\* What is counted of a day that has begun is all that is known of it
LEMMA InDayIs ==
    ASSUME LiveInv, link # "off", NEW f \in Feed
    PROVE  InDay(f) = ReadOn(got[f], period_start(moment)) /\ InDay(f) \in SUBSET (0..moment)
  <1>1. \A t \in whole[f] : period_start(t) = period_start(moment) => t \in got[f]
    BY DEF LiveInv, WholeIsCounted
  <1>2. got \in [Feed -> SUBSET Nat] /\ last_t \in [Feed -> Int] /\ moment \in Nat
    BY DEF LiveInv, LiveType, RowsAre, DerivedIs
  <1>3. \A t \in got[f] : t \in 0..moment
    BY <1>2 DEF LiveInv, DerivedIs
  <1> QED  BY <1>1, <1>3 DEF InDay, ReadOn

\* The counter of today comes from the first reading of today to the last
LEMMA TodayCounted == LiveInv => TodayIsCounted
  <1> SUFFICES ASSUME LiveInv, op.today.start = period_start(moment), InDay("counter") # {}
               PROVE  delta_value(op.today) = Max(InDay("counter")) - Min(InDay("counter"))
    BY DEF TodayIsCounted
  <1> DEFINE S == InDay("counter")
             s == op.today
  <1>1. period_start(moment) \in Int /\ period_start(moment) # None
    BY PeriodsFollow, LiveAssumption DEF LiveInv, LiveType, RowsAre
  <1>2. link # "off"
    BY <1>1 DEF LiveInv, NothingDerived
  <1>3. S = ReadOn(got["counter"], s.start) /\ S \in SUBSET Int
    <2>1. "counter" \in Feed
      BY DEF Feed
    <2> QED  BY <1>2, <2>1, InDayIs
  <1>4. TodayIs(s, got["counter"], moment)
    BY DEF LiveInv, DerivedIs
  <1> HIDE DEF S, s
  <1>5. s.base # None /\ Spans(s.base, s.last, S) /\ s.carry = 0
    BY <1>3, <1>4 DEF TodayIs, S, s
  <1>6. Min(S) = s.base /\ Max(S) = s.last /\ s.base \in Int /\ s.last \in Int
    BY <1>3, <1>5, EndsAre DEF Spans
  <1>7. delta_value(s) = s.last - s.base + s.carry
    BY <1>5 DEF delta_value
  <1> QED  BY <1>5, <1>6, <1>7 DEF S, s

\* The energy of today is the area under the readings of today
LEMMA EnergyCounted == LiveInv => EnergyIsTheArea
  <1> SUFFICES ASSUME LiveInv, op.energy.start = period_start(moment), InDay("power") # {}
               PROVE  op.energy.total = 2 * Power * Cardinality(Bridged(InDay("power")))
    BY DEF EnergyIsTheArea
  <1> DEFINE S == InDay("power")
             s == op.energy
  <1>1. period_start(moment) \in Int /\ period_start(moment) # None
    BY PeriodsFollow, LiveAssumption DEF LiveInv, LiveType, RowsAre
  <1>2. link # "off"
    BY <1>1 DEF LiveInv, NothingDerived
  <1>3. S = ReadOn(got["power"], s.start) /\ S \in SUBSET (0..moment)
    <2>1. "power" \in Feed
      BY DEF Feed
    <2> QED  BY <1>2, <2>1, InDayIs
  <1>4. EnergyIs(s, got["power"], moment)
    BY DEF LiveInv, DerivedIs
  <1>5. Bridged(S) = Units(S)
    <2>1. moment \in Nat
      BY DEF LiveInv, LiveType, RowsAre
    <2>2. ASSUME NEW u \in Units(S) PROVE u \in Bridged(S)
      <3>1. PICK a \in S, b \in S : u \in Int /\ a <= u /\ u < b /\ b - a <= MaxGap
        BY DEF Units
      <3>2. u \in 0..moment
        BY <1>3, <2>1, <3>1
      <3> QED  BY <3>1, <3>2 DEF Bridged
    <2>3. ASSUME NEW u \in Bridged(S) PROVE u \in Units(S)
      BY <2>1, <2>3 DEF Bridged, Units
    <2> QED  BY <2>2, <2>3
  <1> HIDE DEF S, s
  <1>6. s.total = 2 * Power * Cardinality(Units(S))
    BY <1>3, <1>4 DEF EnergyIs, Bridges, S, s
  <1> QED  BY <1>5, <1>6 DEF S, s

\* The night holds what the counter came in its window
LEMMA NightCounted == LiveInv => NightIsItsWindow
  <1> DEFINE start == period_start(moment)
             window == {t \in InDay("counter") : t < window_end(start)}
             s == op.night
  <1> SUFFICES ASSUME LiveInv, s.start = start, s.base = None, window # {}, ~late
               PROVE  s.held = Max(window) - Min(window)
    BY DEF NightIsItsWindow
  <1>1. start \in Int /\ start # None
    BY PeriodsFollow, LiveAssumption DEF LiveInv, LiveType, RowsAre
  <1>2. link # "off"
    BY <1>1 DEF LiveInv, NothingDerived
  <1>3. window = InWindow(got["counter"], start) /\ window \in SUBSET Int
    <2>1. "counter" \in Feed
      BY DEF Feed
    <2>2. /\ InDay("counter") = ReadOn(got["counter"], start)
          /\ InDay("counter") \in SUBSET (0..moment)
      BY <1>2, <2>1, InDayIs
    <2> QED  BY <2>2 DEF InWindow
  <1>4. NightHolds(s, got["counter"], moment, got["counter"] \cup {ticked})
    BY DEF LiveInv, NightTold
  <1> HIDE DEF window, s, start
  <1>5. PICK a, b \in Int : Spans(a, b, window) /\ s.held = b - a
    BY <1>3, <1>4 DEF NightHolds, start
  <1>6. Min(window) = a /\ Max(window) = b
    BY <1>3, <1>5, EndsAre
  <1> QED  BY <1>5, <1>6

\* The totals of the page are of the periods they say, for every day, window and gap:
\* the counter's day, the energy of the day, the night (derived.py, emon_feed.py)
THEOREM TotalsOfTheirPeriods == LiveSpec => []TotalsAreOfTheirPeriods
  <1>1. LiveInv => TotalsAreOfTheirPeriods
    BY TodayCounted, EnergyCounted, NightCounted DEF TotalsAreOfTheirPeriods
  <1> QED  BY <1>1, DerivedOfReadings, PTL
=============================================================================
