--------------------------- MODULE SysFreq_proofs ---------------------------
(* Theorems about SysFreq for every number of users and of frequencies. *)
EXTENDS SysFreq, WellFoundedInduction, TLAPS

-----------------------------------------------------------------------------
(* The search of hal_sysfreq_req *)

LEMMA LeastNat ==
  ASSUME NEW S, S \subseteq Nat, S # {}
  PROVE  \E x \in S : \A y \in S : x <= y
<1> DEFINE R == OpToRel(<, Nat)
<1>1. PICK x \in S : \A y \in S : ~(<<y, x>> \in R)
  <2> HIDE DEF R
  <2>1. IsWellFoundedOn(R, Nat)
    BY NatLessThanWellFounded DEF R
  <2> QED
    BY <2>1, WFMin
<1>2. \A y \in S : y < x => <<y, x>> \in R
  BY DEF OpToRel
<1>3. \A y \in S : ~(y < x)
  BY <1>1, <1>2
<1> HIDE DEF R
<1>4. \A y \in S : x <= y
  BY <1>3
<1> QED
  BY <1>4

\* TopOf finds a user, and nobody requests more.
LEMMA TopIsHighest ==
  ASSUME NEW req \in [Users -> Freqs]
  PROVE  TopOf(req) \in Users /\ \A v \in Users : req[v] <= req[TopOf(req)]
<1> DEFINE Gaps == {FreqQty - req[v] : v \in Users}
           Highest == {u \in Users : \A v \in Users : req[v] <= req[u]}
<1>1. 0 \in Users
  BY UsersAssumption DEF Users
<1>2. \A v \in Users : req[v] \in Nat /\ req[v] < FreqQty /\ FreqQty - req[v] \in Nat
  BY FreqAssumption DEF Freqs
<1>3. \E g \in Gaps : \A h \in Gaps : g <= h
  <2>1. Gaps \subseteq Nat
    BY <1>2
  <2>2. Gaps # {}
    BY <1>1
  <2> HIDE DEF Gaps
  <2> QED
    BY <2>1, <2>2, LeastNat
<1>4. PICK w \in Users : \A v \in Users : FreqQty - req[w] <= FreqQty - req[v]
  BY <1>3
<1>5. w \in Highest
  BY <1>2, <1>4, FreqAssumption
<1>6. PICK u \in Highest : \A v \in Highest : u <= v
  <2>1. Highest \subseteq Nat
    BY UsersAssumption DEF Users
  <2> HIDE DEF Highest
  <2> QED
    BY <1>5, <2>1, LeastNat
<1>7. \A v \in Users : req[v] < req[u] \/ (req[v] = req[u] /\ u <= v)
  <2> SUFFICES ASSUME NEW v \in Users, ~(req[v] < req[u])
               PROVE  req[v] = req[u] /\ u <= v
    OBVIOUS
  <2>1. req[v] = req[u]
    BY <1>2, <1>6
  <2>2. v \in Highest
    BY <2>1, <1>6
  <2> QED
    BY <2>1, <2>2, <1>6
<1>8. TopOf(req) \in Users
      /\ \A v \in Users : req[v] < req[TopOf(req)] \/ (req[v] = req[TopOf(req)] /\ TopOf(req) <= v)
  <2> HIDE DEF Highest
  <2>1. u \in Users
    BY <1>6 DEF Highest
  <2> QED
    BY <1>7, <2>1 DEF TopOf
<1> QED
  BY <1>2, <1>8

-----------------------------------------------------------------------------
(* The invariant *)

LEMMA Constants ==
  /\ UserQty \in Nat \ {0} /\ UserQty \notin Users
  /\ \A u \in Users : u < UserQty /\ u \in 0..UserQty
  /\ F26M \in Freqs /\ F52M \in Freqs /\ 0 \in Freqs
  /\ Freqs \subseteq Nat
  /\ F26M \in Nat /\ F52M \in Nat /\ F104M \in Nat
  /\ 0 < F26M /\ F26M < F52M /\ F52M < F104M
BY UsersAssumption, FreqAssumption DEF Users, Freqs

LEMMA InitIInv == Init => IInv
<1> SUFFICES ASSUME Init PROVE IInv
  OBVIOUS
<1> USE Constants DEF Init, Idle
<1>1. TypeOK
  <2>1. perUser \in [Users -> Freqs] /\ topUser \in 0..UserQty
    OBVIOUS
  <2>5. flashLowSpeed \in BOOLEAN
    OBVIOUS
  <2>2. minSysfreq \in Freqs /\ cmu \in Freqs /\ medium \in BOOLEAN /\ pllOn \in BOOLEAN
    OBVIOUS
  <2>3. pllMap \subseteq PllUsers
    BY DEF PllUsers
  <2>4. todo \in [way : {"none", "up", "down"}, step : 1..3, from : Freqs, to : Freqs]
    OBVIOUS
  <2> QED
    BY <2>1, <2>2, <2>3, <2>4, <2>5 DEF TypeOK
<1>2. TopInv
  BY DEF TopInv, Target, Revised, Get
<1>3. ChangeInv
  BY DEF ChangeInv
<1>4. SupplyInv
  <2>1. \A o : Reached(o) = F26M
    BY DEF Reached
  <2>2. pllOn <=> pllMap # {}
    OBVIOUS
  <2> QED
    BY <2>1, <2>2 DEF SupplyInv
<1> QED
  BY <1>1, <1>2, <1>3, <1>4 DEF IInv

\* What the frequencies of the arbiter are.
LEMMA GetIsFreq ==
  ASSUME TypeOK
  PROVE  /\ Get \in Freqs
         /\ \A f \in Freqs : Revised(f) \in Freqs /\ Revised(f) >= f /\ Revised(f) >= minSysfreq
BY Constants DEF TypeOK, Get, Revised, Users

\* Changing the clock starts with all three orders to come.
LEMMA Starts ==
  ASSUME IInv, todo = Idle, NEW way \in {"up", "down"}, NEW f \in Freqs,
         todo' = Change(way, f), UNCHANGED <<flashLowSpeed, hardwareVars>>
  PROVE  /\ SupplyInv' /\ todo'.from = cmu /\ todo'.to = f
         /\ todo' \in [way : {"up", "down"}, step : 1..3, from : Freqs, to : Freqs]
         /\ todo' # Idle
<1>1. Revised(Get) = cmu /\ cmu \in Freqs
  BY DEF IInv, TopInv, Target, TypeOK
<1>2. todo' = [way |-> way, step |-> 1, from |-> cmu, to |-> f]
  BY <1>1 DEF Change
<1>3. todo' # Idle
  BY <1>2 DEF Idle
<1>4. \A o \in {"pmu", "pll", "cmu"} : Pending(o)'
  BY <1>2 DEF Pending, Orders
<1>5. \A o \in {"pmu", "pll", "cmu"} : Reached(o)' = cmu /\ Reached(o) = cmu
  BY <1>2, <1>3, <1>4 DEF Reached
<1>6. SupplyInv'
  BY <1>5 DEF IInv, SupplyInv, hardwareVars
<1> QED
  BY <1>1, <1>2, <1>3, <1>6

\* Nobody requests more than what hal_sysfreq_get returns.
LEMMA GetIsHighest ==
  ASSUME IInv, todo = Idle
  PROVE  \A v \in Users : perUser[v] <= Get
<1>1. perUser \in [Users -> Freqs] /\ cmu \in Freqs
  BY DEF IInv, TypeOK
<1>2. CASE topUser = UserQty
  <2>1. Get = cmu /\ \A v \in Users : perUser[v] < cmu
    BY <1>2, Constants DEF IInv, TopInv, Get
  <2>2. \A v \in Users : perUser[v] \in Nat
    BY <1>1, Constants
  <2> QED
    BY <2>1, <2>2, <1>1, Constants
<1>3. CASE topUser # UserQty
  <2>1. topUser < UserQty
    BY <1>3, Constants DEF IInv, TypeOK
  <2> QED
    BY <1>3, <2>1 DEF IInv, TopInv, Get
<1> QED
  BY <1>2, <1>3

LEMMA RequestStep ==
  ASSUME IInv, NEW user \in Users, NEW freq \in Freqs, Request(user, freq)
  PROVE  IInv'
<1> DEFINE req == [perUser EXCEPT ![user] = freq]
           top == TopOf(req)
<1>1. perUser \in [Users -> Freqs] /\ req \in [Users -> Freqs]
  BY DEF IInv, TypeOK
<1>2. top \in Users /\ \A v \in Users : req[v] <= req[top]
  BY <1>1, TopIsHighest
<1> HIDE DEF top
<1>3. perUser' = req /\ todo = Idle /\ UNCHANGED <<flashLowSpeed, minSysfreq, hardwareVars>>
  BY DEF Request
<1>4. Get \in Freqs /\ TypeOK
  BY GetIsFreq DEF IInv
<1>5. ASSUME UNCHANGED todo PROVE SupplyInv' /\ ChangeInv'
  BY <1>3, <1>5 DEF IInv, SupplyInv, ChangeInv, Reached, Pending, hardwareVars
<1>6. CASE freq = Get /\ topUser' = user /\ UNCHANGED todo
  <2>1. TypeOK'
    BY <1>1, <1>3, <1>6, Constants DEF IInv, TypeOK, hardwareVars
  <2>2. TopInv'
    <3>1. \A v \in Users : perUser[v] <= freq
      BY <1>3, <1>6, GetIsHighest
    <3>2. Get' = freq
      BY <1>1, <1>3, <1>6, Constants DEF Get
    <3>3. Target' = Target /\ Revised(freq)' = Revised(freq)
      BY <1>3, <1>6 DEF Target, Revised, hardwareVars
    <3>4. Target' = Revised(Get)'
      BY <3>2, <3>3, <1>6, <1>3 DEF IInv, TopInv, Revised
    <3> QED
      BY <3>1, <3>4, <1>1, <1>3, <1>6, Constants DEF TopInv
  <2> QED
    BY <2>1, <2>2, <1>5, <1>6 DEF IInv
<1>7. CASE freq > Get /\ topUser' = user /\ todo' = Change("up", Revised(freq))
  <2>1. Revised(freq) \in Freqs /\ Revised(Get) = cmu /\ Revised(freq) >= Revised(Get)
    BY <1>3, <1>4, <1>7, GetIsFreq, Constants DEF IInv, TopInv, Target, Revised, TypeOK
  <2>2. /\ SupplyInv' /\ todo'.from = cmu /\ todo'.to = Revised(freq)
        /\ todo' \in [way : {"up", "down"}, step : 1..3, from : Freqs, to : Freqs]
        /\ todo' # Idle
    BY <1>3, <1>7, <2>1, Starts
  <2>3. TypeOK'
    BY <1>1, <1>3, <1>7, <2>2, Constants DEF IInv, TypeOK, hardwareVars
  <2>4. ChangeInv'
    BY <1>3, <1>7, <2>1, <2>2 DEF IInv, ChangeInv, Change
  <2>5. TopInv'
    <3>1. \A v \in Users : perUser[v] <= freq
      <4>1. \A v \in Users : perUser[v] <= Get /\ perUser[v] \in Nat
        BY <1>1, <1>3, GetIsHighest, Constants
      <4> QED
        BY <4>1, <1>4, <1>7, Constants
    <3>2. Get' = freq
      BY <1>1, <1>3, <1>7, Constants DEF Get
    <3>3. Target' = Revised(freq) /\ Revised(Get)' = Revised(freq)
      BY <2>2, <3>2, <1>3 DEF Target, Revised
    <3> QED
      BY <3>1, <3>3, <1>1, <1>3, <1>7, Constants DEF TopInv
  <2> QED
    BY <2>2, <2>3, <2>4, <2>5 DEF IInv
<1>8. CASE freq < Get /\ topUser # user /\ UNCHANGED <<topUser, todo>>
  <2>1. TypeOK'
    BY <1>1, <1>3, <1>8, Constants DEF IInv, TypeOK, hardwareVars
  <2>2. TopInv'
    <3>1. CASE topUser = UserQty
      <4>1. Get = cmu /\ Get' = cmu
        BY <3>1, <1>3, <1>8, Constants DEF Get, hardwareVars
      <4> QED
        BY <4>1, <3>1, <1>1, <1>3, <1>8, Constants
        DEF IInv, TopInv, TypeOK, Target, Revised, hardwareVars
    <3>2. CASE topUser # UserQty
      <4>1. topUser \in Users /\ topUser < UserQty
        BY <3>2, Constants DEF IInv, TypeOK, Users
      <4>2. Get = perUser[topUser] /\ Get' = Get
        BY <4>1, <1>1, <1>3, <1>8 DEF Get
      <4>3. Target' = Revised(Get)'
        BY <4>2, <1>3, <1>8 DEF IInv, TopInv, Target, Revised, hardwareVars
      <4> QED
        BY <4>1, <4>2, <4>3, <3>2, <1>1, <1>3, <1>8, Constants DEF IInv, TopInv
    <3> QED
      BY <3>1, <3>2
  <2> QED
    BY <2>1, <2>2, <1>5, <1>8 DEF IInv
<1>9. CASE /\ freq < Get /\ topUser = user /\ topUser' = top
           /\ todo' = IF req[top] = Get THEN Idle ELSE Change("down", Revised(req[top]))
  <2>1. Get = perUser[user] /\ \A v \in Users : perUser[v] <= Get
    BY <1>3, <1>9, GetIsHighest, Constants DEF Get
  <2>2. req[top] \in Freqs /\ req[top] <= Get
    BY <2>1, <1>1, <1>2, <1>4, <1>9, Constants
  <2>3. Get' = req[top]
    BY <1>1, <1>2, <1>3, <1>9, Constants DEF Get
  <2>4. topUser' \in Users /\ \A v \in Users : perUser'[v] <= perUser'[topUser']
    BY <1>2, <1>3, <1>9
  <2>5. Revised(Get)' = Revised(req[top])
    BY <2>3, <1>3 DEF Revised
  <2>6. CASE req[top] = Get
    <3>1. todo' = todo
      BY <2>6, <1>3, <1>9
    <3>2. TypeOK'
      BY <3>1, <2>4, <1>1, <1>3, Constants DEF IInv, TypeOK, hardwareVars
    <3>3. Target' = Revised(Get)'
      BY <3>1, <2>5, <2>6, <1>3 DEF IInv, TopInv, Target, hardwareVars
    <3>4. TopInv'
      BY <3>3, <2>4, Constants DEF TopInv
    <3> QED
      BY <3>1, <3>2, <3>4, <1>5 DEF IInv
  <2>7. CASE req[top] # Get
    <3>1. Revised(req[top]) \in Freqs /\ Revised(Get) = cmu /\ Revised(req[top]) <= Revised(Get)
      <4>1. Revised(req[top]) \in Freqs /\ Revised(Get) = cmu
        BY <1>3, <1>4, <2>2, GetIsFreq DEF IInv, TopInv, Target
      <4>2. minSysfreq \in Nat /\ req[top] \in Nat /\ Get \in Nat
        BY <1>4, <2>2, Constants DEF TypeOK
      <4>3. Revised(req[top]) <= Revised(Get)
        <5> DEFINE h == req[top]
        <5> HIDE DEF h
        <5>1. h \in Nat /\ h <= Get
          BY <4>2, <2>2 DEF h
        <5>2. Revised(h) <= Revised(Get)
          BY <4>2, <5>1 DEF Revised
        <5> QED
          BY <5>2 DEF h
      <4> QED
        BY <4>1, <4>3
    <3>2. /\ SupplyInv' /\ todo'.from = cmu /\ todo'.to = Revised(req[top])
          /\ todo' \in [way : {"up", "down"}, step : 1..3, from : Freqs, to : Freqs]
          /\ todo' # Idle
      BY <1>3, <1>9, <2>7, <3>1, Starts
    <3>3. TypeOK'
      BY <3>2, <2>4, <1>1, <1>3, Constants DEF IInv, TypeOK, hardwareVars
    <3>4. ChangeInv'
      BY <1>3, <1>9, <2>7, <3>1, <3>2 DEF IInv, ChangeInv, Change
    <3>5. TopInv'
      BY <3>2, <2>4, <2>5, Constants DEF TopInv, Target
    <3> QED
      BY <3>2, <3>3, <3>4, <3>5 DEF IInv
  <2> QED
    BY <2>6, <2>7
<1> QED
  BY <1>6, <1>7, <1>8, <1>9 DEF Request, top

\* Every change gives each order once.
LEMMA OrderOnce ==
  ASSUME NEW way \in {"up", "down"}, NEW k \in 1..3, NEW l \in 1..3
  PROVE  /\ Orders[way][k] \in {"pmu", "pll", "cmu"}
         /\ Orders[way][k] = Orders[way][l] => k = l
<1>1. k \in {1, 2, 3} /\ l \in {1, 2, 3}
  OBVIOUS
<1> QED
  BY <1>1 DEF Orders

\* An order taken: what it was and is brought to, and that nothing else moves.
LEMMA DoneStep ==
  ASSUME IInv, NEW order \in {"pmu", "pll", "cmu"}, Done(order), UNCHANGED requestVars,
         cmu' = IF order = "cmu" THEN todo.to ELSE cmu
  PROVE  /\ todo.from \in Freqs /\ todo.to \in Freqs
         /\ todo' \in [way : {"none", "up", "down"}, step : 1..3, from : Freqs, to : Freqs]
         /\ Reached(order) = todo.from /\ Reached(order)' = todo.to
         /\ \A o \in {"pmu", "pll", "cmu"} \ {order} : Reached(o)' = Reached(o)
         /\ cmu' = Reached("cmu")'
         /\ ChangeInv' /\ TopInv'
<1>1. todo \in [way : {"none", "up", "down"}, step : 1..3, from : Freqs, to : Freqs]
  BY DEF IInv, TypeOK
<1>2. todo.way \in {"up", "down"} /\ todo # Idle /\ Orders[todo.way][todo.step] = order
  BY <1>1 DEF Done, Idle
<1>3. \A k, l \in 1..3 : Orders[todo.way][k] = Orders[todo.way][l] => k = l
  BY <1>2, OrderOnce
<1>4. Pending(order) /\ Reached(order) = todo.from
  BY <1>1, <1>2 DEF Pending, Reached
<1>5. CASE todo.step # 3
  <2>1. todo' = [todo EXCEPT !.step = todo.step + 1]
    BY <1>5 DEF Done
  <2>2. /\ todo'.way = todo.way /\ todo'.step = todo.step + 1
        /\ todo'.from = todo.from /\ todo'.to = todo.to /\ todo' # Idle
        /\ todo' \in [way : {"none", "up", "down"}, step : 1..3, from : Freqs, to : Freqs]
    BY <1>1, <1>2, <1>5, <2>1 DEF Idle
  <2>3. ~Pending(order)'
    <3> SUFFICES ASSUME NEW k \in todo.step + 1 .. 3 PROVE Orders[todo.way][k] # order
      BY <2>2 DEF Pending
    <3> QED
      BY <1>1, <1>2, <1>3
  <2>4. \A o \in {"pmu", "pll", "cmu"} \ {order} : Pending(o)' <=> Pending(o)
    <3> TAKE o \in {"pmu", "pll", "cmu"} \ {order}
    <3>1. Pending(o)' <=> \E k \in todo.step + 1 .. 3 : Orders[todo.way][k] = o
      BY <2>2 DEF Pending
    <3>2. Pending(o) <=> \E k \in todo.step .. 3 : Orders[todo.way][k] = o
      BY DEF Pending
    <3>3. \A k \in todo.step .. 3 : k = todo.step \/ k \in todo.step + 1 .. 3
      BY <1>1
    <3>4. \A k \in todo.step + 1 .. 3 : k \in todo.step .. 3
      BY <1>1
    <3> QED
      BY <3>1, <3>2, <3>3, <3>4, <1>2
  <2>5. Reached(order)' = todo.to
    BY <2>2, <2>3 DEF Reached
  <2>6. \A o \in {"pmu", "pll", "cmu"} \ {order} : Reached(o)' = Reached(o)
    BY <1>2, <2>2, <2>4 DEF Reached
  <2>7. cmu' = Reached("cmu")'
    BY <2>5, <2>6 DEF IInv, SupplyInv
  <2>8. ChangeInv'
    BY <1>2, <2>2 DEF IInv, ChangeInv, requestVars
  <2>9. TopInv'
    <3>1. topUser # UserQty /\ Target' = Target
      BY <1>2, <2>2 DEF IInv, TopInv, Target
    <3>2. Get' = Get /\ Revised(Get)' = Revised(Get)
      BY <3>1, Constants DEF Get, Revised, requestVars, IInv, TypeOK
    <3> QED
      BY <3>1, <3>2 DEF IInv, TopInv, requestVars
  <2> QED
    BY <1>1, <1>4, <2>2, <2>5, <2>6, <2>7, <2>8, <2>9
<1>6. CASE todo.step = 3
  <2>1. todo' = Idle
    BY <1>6 DEF Done
  <2>2. \A o \in {"pmu", "pll", "cmu"} \ {order} : Reached(o) = todo.to
    <3> TAKE o \in {"pmu", "pll", "cmu"} \ {order}
    <3>1. ~Pending(o)
      BY <1>2, <1>6 DEF Pending
    <3> QED
      BY <3>1, <1>2 DEF Reached
  <2>3. cmu' = todo.to
    BY <2>2 DEF IInv, SupplyInv
  <2>4. \A o : Reached(o)' = todo.to
    BY <2>1, <2>3 DEF Reached
  <2>5. todo' \in [way : {"none", "up", "down"}, step : 1..3, from : Freqs, to : Freqs]
    BY <2>1, Constants DEF Idle
  <2>6. ChangeInv'
    BY <2>1 DEF IInv, ChangeInv, requestVars, Idle
  <2>7. TopInv'
    <3>1. topUser # UserQty /\ Target' = Target
      BY <1>2, <2>1, <2>3 DEF IInv, TopInv, Target
    <3>2. Get' = Get /\ Revised(Get)' = Revised(Get)
      BY <3>1, Constants DEF Get, Revised, requestVars, IInv, TypeOK
    <3> QED
      BY <3>1, <3>2 DEF IInv, TopInv, requestVars
  <2> QED
    BY <1>1, <1>4, <2>2, <2>3, <2>4, <2>5, <2>6, <2>7
<1> QED
  BY <1>5, <1>6

LEMMA HardwareStep ==
  ASSUME IInv, SetVoltage \/ SetClock \/ SetPll
  PROVE  IInv'
<1>1. CASE SetVoltage
  <2>1. Done("pmu") /\ UNCHANGED requestVars /\ UNCHANGED <<flashLowSpeed, cmu, pllMap, pllOn>>
        /\ medium' = (todo.to > F104M)
    BY <1>1 DEF SetVoltage
  <2>2. /\ todo' \in [way : {"none", "up", "down"}, step : 1..3, from : Freqs, to : Freqs]
        /\ Reached("pmu")' = todo.to /\ Reached("pll")' = Reached("pll")
        /\ cmu' = Reached("cmu")' /\ ChangeInv' /\ TopInv'
    BY <2>1, DoneStep
  <2>3. SupplyInv'
    BY <2>1, <2>2 DEF IInv, SupplyInv
  <2>4. TypeOK'
    BY <2>1, <2>2 DEF IInv, TypeOK, requestVars
  <2> QED
    BY <2>2, <2>3, <2>4 DEF IInv
<1>2. CASE SetClock
  <2>1. Done("cmu") /\ UNCHANGED requestVars /\ UNCHANGED <<flashLowSpeed, medium, pllMap, pllOn>>
        /\ cmu' = todo.to
    BY <1>2 DEF SetClock
  <2>2. /\ todo.to \in Freqs
        /\ todo' \in [way : {"none", "up", "down"}, step : 1..3, from : Freqs, to : Freqs]
        /\ Reached("pmu")' = Reached("pmu") /\ Reached("pll")' = Reached("pll")
        /\ cmu' = Reached("cmu")' /\ ChangeInv' /\ TopInv'
    BY <2>1, DoneStep
  <2>3. SupplyInv'
    BY <2>1, <2>2 DEF IInv, SupplyInv
  <2>4. TypeOK'
    BY <2>1, <2>2 DEF IInv, TypeOK, requestVars
  <2> QED
    BY <2>2, <2>3, <2>4 DEF IInv
<1>3. CASE SetPll
  <2>1. Done("pll") /\ UNCHANGED requestVars /\ UNCHANGED <<flashLowSpeed, cmu, medium>>
    BY <1>3 DEF SetPll
  <2>2. /\ todo.from \in Freqs /\ todo.to \in Freqs
        /\ todo' \in [way : {"none", "up", "down"}, step : 1..3, from : Freqs, to : Freqs]
        /\ Reached("pll") = todo.from /\ Reached("pll")' = todo.to
        /\ Reached("pmu")' = Reached("pmu")
        /\ cmu' = Reached("cmu")' /\ ChangeInv' /\ TopInv'
    BY <2>1, DoneStep
  <2>3. /\ pllMap' \subseteq PllUsers /\ pllOn' \in BOOLEAN
        /\ flashLowSpeed => ("SYS" \in pllMap' <=> todo.to > F52M)
        /\ ~flashLowSpeed => "SYS" \in pllMap'
        /\ pllOn' <=> pllMap' # {}
    <3>1. /\ flashLowSpeed => ("SYS" \in pllMap <=> todo.from > F52M)
          /\ ~flashLowSpeed => "SYS" \in pllMap
          /\ pllOn <=> pllMap # {}
          /\ pllMap \subseteq PllUsers /\ pllOn \in BOOLEAN
      BY <2>2 DEF IInv, SupplyInv, TypeOK
    <3>2. (~(todo.from <= F52M) <=> todo.from > F52M) /\ (~(todo.to <= F52M) <=> todo.to > F52M)
      <4>1. \A f \in Nat : ~(f <= F52M) <=> f > F52M
        BY Constants
      <4>2. todo.from \in Nat /\ todo.to \in Nat
        BY <2>2, Constants
      <4> QED
        BY <4>1, <4>2
    <3>3. CASE flashLowSpeed /\ todo.from <= F52M /\ todo.to > F52M
      <4>1. pllMap' = pllMap \cup {"SYS"} /\ pllOn' = TRUE
        BY <1>3, <3>3 DEF SetPll, PllEnable
      <4>2. todo.to > F52M /\ flashLowSpeed
        BY <3>3
      <4> QED
        BY <3>1, <4>1, <4>2 DEF PllUsers
    <3>4. CASE flashLowSpeed /\ todo.from > F52M /\ todo.to <= F52M
      <4>1. ~(todo.to > F52M) /\ ~(todo.from <= F52M) /\ flashLowSpeed
        BY <3>2, <3>4, Zenon
      <4>2. pllMap' = pllMap \ {"SYS"} /\ pllOn' = IF pllMap \ {"SYS"} = {} THEN FALSE ELSE pllOn
        BY <1>3, <3>4, <4>1 DEF SetPll, PllDisable
      <4>3. pllOn' <=> pllMap' # {}
        BY <3>1, <4>2
      <4> QED
        BY <3>1, <4>1, <4>2, <4>3
    <3>5. CASE ~(flashLowSpeed /\ todo.from <= F52M /\ todo.to > F52M)
               /\ ~(flashLowSpeed /\ todo.from > F52M /\ todo.to <= F52M)
      <4>1. UNCHANGED <<pllMap, pllOn>>
        BY <1>3, <3>5 DEF SetPll
      <4>2. flashLowSpeed => (todo.from > F52M <=> todo.to > F52M)
        BY <3>2, <3>5, Zenon
      <4> QED
        BY <3>1, <4>1, <4>2
    <3> QED
      BY <3>3, <3>4, <3>5
  <2>4. SupplyInv'
    BY <2>1, <2>2, <2>3 DEF IInv, SupplyInv
  <2>5. TypeOK'
    BY <2>1, <2>2, <2>3 DEF IInv, TypeOK, requestVars
  <2> QED
    BY <2>2, <2>4, <2>5 DEF IInv
<1> QED
  BY <1>1, <1>2, <1>3

LEMMA SetMinFreqStep ==
  ASSUME IInv, SetMinFreq
  PROVE  IInv'
<1>1. /\ todo = Idle /\ todo' = Idle /\ minSysfreq < F52M /\ minSysfreq' = F52M
      /\ cmu' = IF F52M > Get THEN F52M ELSE cmu
      /\ UNCHANGED <<flashLowSpeed, perUser, topUser, medium, pllMap, pllOn>>
      /\ ~flashLowSpeed
  BY DEF SetMinFreq
<1>2. Get \in Freqs /\ cmu \in Freqs /\ cmu = Revised(Get) /\ minSysfreq = F26M
  BY <1>1, GetIsFreq, Constants DEF IInv, TopInv, Target, TypeOK, ChangeInv
<1>3. cmu' \in Freqs /\ cmu' = (IF Get > F52M THEN Get ELSE F52M)
  BY <1>1, <1>2, Constants DEF Revised
<1>4. TypeOK'
  BY <1>1, <1>3, Constants DEF IInv, TypeOK
<1>5. ChangeInv'
  BY <1>1 DEF IInv, ChangeInv, Idle
<1>6. SupplyInv'
  <2>1. medium <=> cmu > F104M
    BY <1>1 DEF IInv, SupplyInv, Reached
  <2>2. cmu > F104M <=> cmu' > F104M
    BY <1>2, <1>3, Constants DEF Revised
  <2>3. \A o : Reached(o)' = cmu'
    BY <1>1 DEF Reached
  <2> QED
    BY <1>1, <2>1, <2>2, <2>3 DEF IInv, SupplyInv
<1>7. TopInv'
  <2>1. CASE topUser = UserQty
    <3>1. Get = cmu /\ Get' = cmu' /\ cmu = F26M
      BY <2>1, <1>1, <1>2, Constants DEF Get, IInv, TopInv
    <3>2. cmu' = F52M /\ cmu' = Revised(Get)'
      BY <3>1, <1>1, <1>3, Constants DEF Revised
    <3>3. \A u \in Users : perUser[u] < F52M
      <4>1. \A u \in Users : perUser[u] \in Nat /\ perUser[u] < cmu
        BY <2>1, Constants DEF IInv, TopInv, TypeOK
      <4> QED
        BY <4>1, <3>1, Constants
    <3> QED
      BY <2>1, <3>2, <3>3, <1>1 DEF TopInv, Target
  <2>2. CASE topUser # UserQty
    <3>1. Get' = Get
      BY <2>2, <1>1, Constants DEF Get, IInv, TypeOK
    <3>2. Revised(Get)' = cmu'
      BY <3>1, <1>1, <1>3 DEF Revised
    <3> QED
      BY <2>2, <3>2, <1>1 DEF IInv, TopInv, Target
  <2> QED
    BY <2>1, <2>2
<1> QED
  BY <1>4, <1>5, <1>6, <1>7 DEF IInv

LEMMA OtherPllUserStep ==
  ASSUME IInv, NEW u \in OtherUsers, OtherPllUser(u)
  PROVE  IInv'
<1>1. todo = Idle /\ UNCHANGED <<flashLowSpeed, requestVars, cmu, medium, todo>>
  BY DEF OtherPllUser
<1>2. u # "SYS"
  BY PllAssumption
<1>3. /\ pllMap' \subseteq PllUsers /\ pllOn' \in BOOLEAN
      /\ "SYS" \in pllMap' <=> "SYS" \in pllMap
      /\ pllOn' <=> pllMap' # {}
  <2>1. pllMap \subseteq PllUsers /\ pllOn \in BOOLEAN /\ (pllOn <=> pllMap # {})
    BY DEF IInv, TypeOK, SupplyInv
  <2>2. CASE PllEnable(u)
    BY <1>2, <2>1, <2>2 DEF PllEnable, PllUsers
  <2>3. CASE PllDisable(u)
    BY <1>2, <2>1, <2>3 DEF PllDisable
  <2> QED
    BY <2>2, <2>3 DEF OtherPllUser
<1>4. TypeOK'
  BY <1>1, <1>3 DEF IInv, TypeOK, requestVars
<1>5. ChangeInv' /\ TopInv'
  BY <1>1 DEF IInv, ChangeInv, TopInv, Target, Revised, Get, requestVars
<1>6. SupplyInv'
  BY <1>1, <1>3 DEF IInv, SupplyInv, Reached, Pending
<1> QED
  BY <1>4, <1>5, <1>6 DEF IInv

-----------------------------------------------------------------------------
(* The theorems *)

\* Every reachable state satisfies the invariant: hal_sysfreq_req keeps top_user
\* at a user nobody exceeds, and each order to the hardware is where the call in
\* progress has brought it.
THEOREM Invariant == Spec => []IInv
<1>1. Init => IInv
  BY InitIInv
<1>2. IInv /\ [Next]_vars => IInv'
  <2> SUFFICES ASSUME IInv, [Next]_vars PROVE IInv'
    OBVIOUS
  <2>1. CASE UNCHANGED vars
    BY <2>1 DEF IInv, TypeOK, TopInv, Target, Revised, Get, ChangeInv, SupplyInv,
                Reached, Pending, vars
  <2>2. ASSUME NEW u \in Users, NEW f \in Freqs, Request(u, f) PROVE IInv'
    BY <2>2, RequestStep
  <2>3. CASE SetVoltage \/ SetClock \/ SetPll
    BY <2>3, HardwareStep
  <2>4. CASE SetMinFreq
    BY <2>4, SetMinFreqStep
  <2>5. ASSUME NEW u \in OtherUsers, OtherPllUser(u) PROVE IInv'
    BY <2>5, OtherPllUserStep
  <2> QED
    BY <2>1, <2>2, <2>3, <2>4, <2>5 DEF Next
<1> QED
  BY <1>1, <1>2, PTL DEF Spec

\* The clock never runs ahead of the voltage and the PLL it needs, at any step
\* of any change, however many users request and share the PLL.
THEOREM SupplySafe == Spec => []SupplyCoversClock
<1>1. IInv => SupplyCoversClock
  <2> SUFFICES ASSUME IInv PROVE SupplyCoversClock
    OBVIOUS
  <2>1. /\ todo \in [way : {"none", "up", "down"}, step : 1..3, from : Freqs, to : Freqs]
        /\ cmu \in Freqs
    BY DEF IInv, TypeOK
  <2>2. Reached("pmu") >= cmu /\ Reached("pll") >= cmu
    <3>1. CASE todo = Idle
      BY <3>1, <2>1, Constants DEF Reached
    <3>2. CASE todo.way = "up" /\ todo # Idle
      <4>1. Pending("pmu") => Pending("cmu")
        BY <2>1, <3>2 DEF Pending, Orders
      <4>2. Pending("pll") => Pending("cmu")
        BY <2>1, <3>2 DEF Pending, Orders
      <4>3. todo.from <= todo.to /\ todo.from \in Nat /\ todo.to \in Nat
        BY <2>1, <3>2, Constants DEF IInv, ChangeInv
      <4> QED
        BY <3>2, <4>1, <4>2, <4>3 DEF IInv, SupplyInv, Reached
    <3>3. CASE todo.way = "down" /\ todo # Idle
      <4>1. Pending("cmu") => Pending("pmu") /\ Pending("pll")
        BY <2>1, <3>3 DEF Pending, Orders
      <4>2. todo.to <= todo.from /\ todo.from \in Nat /\ todo.to \in Nat
        BY <2>1, <3>3, Constants DEF IInv, ChangeInv
      <4> QED
        BY <3>3, <4>1, <4>2 DEF IInv, SupplyInv, Reached
    <3> QED
      BY <2>1, <3>1, <3>2, <3>3 DEF IInv, ChangeInv
  <2>3. Reached("pmu") \in Nat /\ Reached("pll") \in Nat /\ cmu \in Nat
    BY <2>1, Constants DEF Reached
  <2>4. cmu > F104M => medium
    BY <2>2, <2>3, Constants DEF IInv, SupplyInv
  <2>5. cmu > F52M => pllMap # {}
    <3>1. cmu > F52M => Reached("pll") > F52M
      BY <2>2, <2>3, Constants
    <3>2. cmu > F52M => "SYS" \in pllMap
      BY <3>1, Constants DEF IInv, SupplyInv
    <3> QED
      BY <3>2
  <2> QED
    BY <2>4, <2>5 DEF SupplyCoversClock, IInv, SupplyInv
<1> QED
  BY <1>1, Invariant, PTL

\* Between calls the clock is the highest request or the minimum, whichever is
\* higher.
THEOREM ClockIsGranted == Spec => []ClockIsHighestRequest
<1>1. IInv => ClockIsHighestRequest
  <2> SUFFICES ASSUME IInv, todo = Idle
               PROVE  /\ \A u \in Users : perUser[u] <= cmu
                      /\ minSysfreq <= cmu
                      /\ cmu = minSysfreq \/ \E u \in Users : perUser[u] = cmu
    BY DEF ClockIsHighestRequest
  <2>1. Get \in Nat /\ minSysfreq \in Nat /\ cmu = Revised(Get)
    BY GetIsFreq, Constants DEF IInv, TypeOK, TopInv, Target
  <2>2. Get <= cmu /\ minSysfreq <= cmu /\ (cmu = minSysfreq \/ cmu = Get)
    BY <2>1 DEF Revised
  <2>3. \A u \in Users : perUser[u] <= Get /\ perUser[u] \in Nat
    BY GetIsHighest, Constants DEF IInv, TypeOK
  <2>4. cmu = minSysfreq \/ \E u \in Users : perUser[u] = cmu
    <3>1. CASE topUser = UserQty
      BY <3>1 DEF IInv, TopInv
    <3>2. CASE topUser # UserQty
      <4>1. topUser \in Users /\ Get = perUser[topUser]
        BY <3>2, Constants DEF IInv, TypeOK, Users, Get
      <4> QED
        BY <4>1, <2>2
    <3> QED
      BY <3>1, <3>2
  <2>5. \A u \in Users : perUser[u] <= cmu
    BY <2>1, <2>2, <2>3 DEF Revised
  <2> QED
    BY <2>2, <2>4, <2>5
<1> QED
  BY <1>1, Invariant, PTL

\* When nobody needs more than 52M the raised voltage and the system clock's
\* hold on the PLL are gone.
THEOREM SupplyReleased == Spec => []LowRequestsReleaseSupply
<1>1. IInv => LowRequestsReleaseSupply
  <2> SUFFICES ASSUME IInv, todo = Idle, \A u \in Users : perUser[u] <= F52M
               PROVE  ~medium /\ (flashLowSpeed => "SYS" \notin pllMap)
    BY DEF LowRequestsReleaseSupply
  <2>1. cmu \in Nat /\ minSysfreq \in {F26M, F52M}
    BY Constants DEF IInv, TypeOK, ChangeInv
  <2>2. cmu <= F52M
    <3>1. CASE topUser = UserQty
      BY <3>1, <2>1, Constants DEF IInv, TopInv
    <3>2. CASE topUser # UserQty
      <4>1. topUser \in Users /\ Get = perUser[topUser]
        BY <3>2, Constants DEF IInv, TypeOK, Users, Get
      <4>2. Get <= F52M /\ cmu = Revised(Get)
        BY <4>1 DEF IInv, TopInv, Target
      <4> QED
        BY <4>2, <2>1, Constants DEF Revised
    <3> QED
      BY <3>1, <3>2
  <2>3. \A o : Reached(o) = cmu
    BY DEF Reached
  <2>4. ~(cmu > F52M) /\ ~(cmu > F104M)
    BY <2>1, <2>2, Constants
  <2> QED
    BY <2>3, <2>4 DEF IInv, SupplyInv
<1> QED
  BY <1>1, Invariant, PTL

=============================================================================
