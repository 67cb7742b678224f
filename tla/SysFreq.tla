------------------------------- MODULE SysFreq -------------------------------
(***************************************************************************)
(* platform/hal/hal_sysfreq.c: the arbiter of the system clock, with the    *)
(* core voltage (pmu_best2300.c) and the audio PLL (hal_cmu_best2300.c)     *)
(* that the clock depends on.  A call runs with the interrupts off, but the *)
(* hardware takes its orders one by one: a call that changes the clock      *)
(* leaves the rest of them in todo, and each order is a step.               *)
(* An operator whose name begins with Bug is a wrong variant of the one     *)
(* that follows it; only the sensitivity runs use it.                       *)
(***************************************************************************)
EXTENDS Integers

CONSTANTS
  UserQty,     \* HAL_SYSFREQ_USER_QTY
  FreqQty,     \* HAL_CMU_FREQ_QTY
  F26M, F52M, F104M,   \* these members of HAL_CMU_FREQ_T
  OtherUsers   \* users of the audio PLL besides the system clock

Users == 0 .. UserQty - 1
Freqs == 0 .. FreqQty - 1
PllUsers == OtherUsers \cup {"SYS"}

ASSUME UsersAssumption == UserQty \in Nat \ {0}
ASSUME FreqAssumption ==
  /\ {F26M, F52M, F104M, FreqQty} \subseteq Nat
  /\ 0 < F26M /\ F26M < F52M /\ F52M < F104M /\ F104M < FreqQty
ASSUME PllAssumption == "SYS" \notin OtherUsers

VARIABLES
  flashLowSpeed, \* the build, FLASH_LOW_SPEED: the flash does not need the PLL
  perUser,    \* sysfreq_per_user
  topUser,    \* top_user
  minSysfreq, \* min_sysfreq
  cmu,        \* the frequency the CMU runs at
  medium,     \* PMU_VCORE_SYS_FREQ_MEDIUM is in pmu_vcore_req
  pllMap,     \* pll_user_map[HAL_CMU_PLL_AUD]
  pllOn,      \* the audio PLL is powered
  todo        \* what the call in progress has still to tell the hardware

requestVars == <<perUser, topUser, minSysfreq>>
hardwareVars == <<cmu, medium, pllMap, pllOn>>
vars == <<flashLowSpeed, perUser, topUser, minSysfreq, cmu, medium, pllMap, pllOn, todo>>

\* A change of the clock under way: up or down, how far it has come, and the
\* frequencies it goes between.
Idle == [way |-> "none", step |-> 1, from |-> 0, to |-> 0]

TypeOK ==
  /\ flashLowSpeed \in BOOLEAN
  /\ perUser \in [Users -> Freqs]
  /\ topUser \in 0..UserQty
  /\ minSysfreq \in Freqs
  /\ cmu \in Freqs
  /\ medium \in BOOLEAN
  /\ pllMap \subseteq PllUsers
  /\ pllOn \in BOOLEAN
  /\ todo \in [way : {"none", "up", "down"}, step : 1..3, from : Freqs, to : Freqs]

\* After hal_cmu_setup: 26M from the crystal.
Init ==
  /\ flashLowSpeed \in BOOLEAN
  /\ perUser = [u \in Users |-> 0]
  /\ topUser = UserQty
  /\ minSysfreq = F26M
  /\ cmu = F26M
  /\ medium = FALSE
  /\ pllMap = IF flashLowSpeed THEN {} ELSE {"SYS"}
  /\ pllOn = ~flashLowSpeed
  /\ todo = Idle

-----------------------------------------------------------------------------
\* hal_sysfreq_get
Get == IF topUser < UserQty THEN perUser[topUser] ELSE cmu

\* The minimum is forgotten.
BugRevised(f) == f

\* hal_sysfreq_revise_freq
Revised(f) == IF f > minSysfreq THEN f ELSE minSysfreq

\* The search stops at the first user instead of the highest.
BugTopOf(req) == 0

\* The first of the users with the highest request.
TopOf(req) ==
  CHOOSE u \in Users : \A v \in Users : req[v] < req[u] \/ (req[v] = req[u] /\ u <= v)

\* The clock goes up before its voltage.
BugOrders == [up |-> <<"pll", "cmu", "pmu">>, down |-> <<"cmu", "pll", "pmu">>]

\* What hal_sysfreq_req tells the hardware, in this order.
Orders == [up |-> <<"pmu", "pll", "cmu">>, down |-> <<"cmu", "pll", "pmu">>]

Change(way, to) == [way |-> way, step |-> 1, from |-> Revised(Get), to |-> to]

\* hal_sysfreq_req, as it leaves the requests ...
Request(user, freq) ==
  LET req == [perUser EXCEPT ![user] = freq]
      top == TopOf(req)
  IN  /\ todo = Idle
      /\ perUser' = req
      /\ \/ /\ freq = Get
            /\ topUser' = user
            /\ UNCHANGED todo
         \/ /\ freq > Get
            /\ topUser' = user
            /\ todo' = Change("up", Revised(freq))
         \/ /\ freq < Get
            /\ topUser # user
            /\ UNCHANGED <<topUser, todo>>
         \/ /\ freq < Get
            /\ topUser = user
            /\ topUser' = top
            /\ todo' = IF req[top] = Get THEN Idle ELSE Change("down", Revised(req[top]))
      /\ UNCHANGED <<flashLowSpeed, minSysfreq, hardwareVars>>

\* ... and as the hardware follows.
Done(order) ==
  /\ todo.way # "none"
  /\ Orders[todo.way][todo.step] = order
  /\ todo' = IF todo.step = 3 THEN Idle ELSE [todo EXCEPT !.step = @ + 1]

SetVoltage ==
  /\ Done("pmu")
  /\ medium' = (todo.to > F104M)
  /\ UNCHANGED <<flashLowSpeed, requestVars, cmu, pllMap, pllOn>>

SetClock ==
  /\ Done("cmu")
  /\ cmu' = todo.to
  /\ UNCHANGED <<flashLowSpeed, requestVars, medium, pllMap, pllOn>>

PllEnable(u) ==
  /\ pllMap' = pllMap \cup {u}
  /\ pllOn' = TRUE

\* The PLL is stopped for its other users too.
BugPllDisable(u) ==
  /\ pllMap' = pllMap \ {u}
  /\ pllOn' = FALSE

PllDisable(u) ==
  /\ pllMap' = pllMap \ {u}
  /\ pllOn' = IF pllMap \ {u} = {} THEN FALSE ELSE pllOn

\* The PLL is given back only from above 104M.
BugSetPll ==
  /\ Done("pll")
  /\ IF flashLowSpeed /\ todo.from <= F52M /\ todo.to > F52M THEN PllEnable("SYS")
     ELSE IF flashLowSpeed /\ todo.from > F104M /\ todo.to <= F52M THEN PllDisable("SYS")
     ELSE UNCHANGED <<pllMap, pllOn>>
  /\ UNCHANGED <<flashLowSpeed, requestVars, cmu, medium>>

\* hal_cmu_low_freq_mode_disable and _enable: the PLL is needed above 52M.
SetPll ==
  /\ Done("pll")
  /\ IF flashLowSpeed /\ todo.from <= F52M /\ todo.to > F52M THEN PllEnable("SYS")
     ELSE IF flashLowSpeed /\ todo.from > F52M /\ todo.to <= F52M THEN PllDisable("SYS")
     ELSE UNCHANGED <<pllMap, pllOn>>
  /\ UNCHANGED <<flashLowSpeed, requestVars, cmu, medium>>

\* hal_sysfreq_set_min_freq(HAL_CMU_FREQ_52M), from hal_norflash_open.
SetMinFreq ==
  /\ todo = Idle
  /\ ~flashLowSpeed
  /\ minSysfreq < F52M
  /\ minSysfreq' = F52M
  /\ cmu' = IF F52M > Get THEN F52M ELSE cmu
  /\ UNCHANGED <<flashLowSpeed, perUser, topUser, medium, pllMap, pllOn, todo>>

\* The codec takes and leaves the audio PLL.
OtherPllUser(u) ==
  /\ todo = Idle
  /\ PllEnable(u) \/ PllDisable(u)
  /\ UNCHANGED <<flashLowSpeed, requestVars, cmu, medium, todo>>

Next ==
  \/ \E u \in Users, f \in Freqs : Request(u, f)
  \/ SetVoltage \/ SetClock \/ SetPll
  \/ SetMinFreq
  \/ \E u \in OtherUsers : OtherPllUser(u)

Spec == Init /\ [][Next]_vars

-----------------------------------------------------------------------------
(* The inductive invariant: where the clock is going, and which of the three *)
(* orders the hardware has already taken.                                    *)

\* How far the call in progress has come with an order.
Pending(order) == \E k \in todo.step..3 : Orders[todo.way][k] = order

\* The frequency that order has been brought to.
Reached(order) ==
  IF todo = Idle THEN cmu ELSE IF Pending(order) THEN todo.from ELSE todo.to

Target == IF todo = Idle THEN cmu ELSE todo.to

TopInv ==
  /\ Target = Revised(Get)
  /\ IF topUser = UserQty
     THEN todo = Idle /\ cmu = minSysfreq /\ \A u \in Users : perUser[u] < cmu
     ELSE \A u \in Users : perUser[u] <= perUser[topUser]

ChangeInv ==
  /\ minSysfreq \in {F26M, F52M}
  /\ todo.way = "none" <=> todo = Idle
  /\ todo.way = "up" => todo.from <= todo.to
  /\ todo.way = "down" => todo.to <= todo.from

SupplyInv ==
  /\ cmu = Reached("cmu")
  /\ medium <=> Reached("pmu") > F104M
  /\ flashLowSpeed => ("SYS" \in pllMap <=> Reached("pll") > F52M)
  /\ ~flashLowSpeed => "SYS" \in pllMap
  /\ pllOn <=> pllMap # {}

IInv == TypeOK /\ TopInv /\ ChangeInv /\ SupplyInv

-----------------------------------------------------------------------------
(* Properties *)

\* The order of pmu_sys_freq_config, the PLL switches and hal_cmu_sys_set_freq
\* in hal_sysfreq_req, on the way up and on the way down: at no instant does
\* the clock run above 52M without the PLL or above 104M without the voltage,
\* whoever else takes and leaves the PLL.
SupplyCoversClock ==
  /\ cmu > F52M => pllOn
  /\ cmu > F104M => medium

\* Between calls every request is granted, and once some user has reached the
\* clock it is no faster than the highest request and the minimum require.
ClockIsHighestRequest ==
  todo = Idle =>
    /\ \A u \in Users : perUser[u] <= cmu
    /\ minSysfreq <= cmu
    /\ cmu = minSysfreq \/ \E u \in Users : perUser[u] = cmu

\* ULTRA_LOW_POWER: between calls that leave all requests at 52M or below the
\* system clock holds neither the PLL nor the raised voltage.
LowRequestsReleaseSupply ==
  todo = Idle /\ (\A u \in Users : perUser[u] <= F52M)
    => ~medium /\ (flashLowSpeed => "SYS" \notin pllMap)
=============================================================================
