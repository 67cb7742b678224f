------------------------ MODULE BleModeSwitch_proofs ------------------------
(****************************************************************************)
(* That the switch and the stack keep in step, and that what was last asked *)
(* for is what it comes to, for any number of requests, mails, connections  *)
(* and refusals, if the stack answers late cancels.                         *)
(****************************************************************************)
EXTENDS BleModeSwitch, TLAPS

IsAnswer(m) == m.fn \in {"switch", "failed"}

\* The mails that are neither an answer nor news of a connection.
Requests == {Starting(i) : i \in Intervals} \cup {Other("stop")}

-----------------------------------------------------------------------------
(* Mails *)

\* Appending a mail leaves the others where they are.
LEMMA AppendMail ==
  ASSUME mails \in Seq(Mails), NEW m \in Mails
  PROVE  /\ Append(mails, m) \in Seq(Mails)
         /\ Len(Append(mails, m)) = Len(mails) + 1
         /\ \A i \in 1..Len(mails) : Append(mails, m)[i] = mails[i]
         /\ Append(mails, m)[Len(mails) + 1] = m
OBVIOUS

\* Taking the first moves the others up.
LEMMA TakeMail ==
  ASSUME mails \in Seq(Mails), mails # <<>>
  PROVE  /\ Head(mails) \in Mails /\ Head(mails) = mails[1]
         /\ Tail(mails) \in Seq(Mails)
         /\ Len(mails) \in Nat \ {0} /\ Len(Tail(mails)) = Len(mails) - 1
         /\ \A i \in 1..Len(Tail(mails)) : Tail(mails)[i] = mails[i + 1]
OBVIOUS

\* Each mail is one of its kind.
LEMMA MailKinds ==
  /\ \A i \in Intervals : Starting(i) \in Mails /\ Starting(i).fn = "start" /\ Starting(i).interval = i
  /\ \A f \in {"stop", "switch", "failed", "connected"} : Other(f) \in Mails /\ Other(f).fn = f
  /\ \A m \in Mails : m.fn \in {"start", "stop", "switch", "failed", "connected"} /\ m.interval \in Intervals
  /\ \A m \in Requests : m \in Mails /\ m.fn \in {"start", "stop"}
  /\ \A m \in Calls : m # NoCall => m \in Requests
  /\ Cancel.fn = "stop"
BY DEF Mails, Requests, Calls, Starting, Other, Intervals, NoCall, Cancel

-----------------------------------------------------------------------------
\* A mail that asks for something changes nothing of what InStep says, even if
\* the connections go.
LEMMA RequestPosted ==
  ASSUME InStep, NEW m \in Requests, mails' = Append(mails, m),
         UNCHANGED <<cmds, air>>, TypeOK', conns' = conns \/ conns' = 0,
         state' = state \/ (state = "CONNECTED" /\ state' = "IDLE")
  PROVE  InStep'
<1> USE DEF InStep
<1>1. mails \in Seq(Mails) /\ m \in Mails /\ m.fn \in {"start", "stop"} /\ Len(mails) \in Nat
  BY MailKinds DEF TypeOK
<1>2. /\ Len(mails') = Len(mails) + 1
      /\ \A i \in 1..Len(mails) : mails'[i] = mails[i]
      /\ mails'[Len(mails) + 1] = m
  BY <1>1, AppendMail
<1>3. Answers' = Answers
  BY <1>1, <1>2 DEF Answers
<1>4. OneUnderWay'
  BY <1>1, <1>2, <1>3 DEF OneUnderWay, UnderWay
<1>5. AirKnown'
  BY <1>1, <1>2 DEF AirKnown
<1>6. ConnectionInOrder'
  BY <1>1, <1>2 DEF ConnectionInOrder
<1>7. OneConnection'
  BY DEF OneConnection
<1> QED BY <1>4, <1>5, <1>6, <1>7

\* The same if no mail is posted.
LEMMA NothingPosted ==
  ASSUME InStep, UNCHANGED <<mails, cmds, air>>, TypeOK', conns' = conns \/ conns' = 0,
         state' = state \/ (state = "CONNECTED" /\ state' = "IDLE")
  PROVE  InStep'
BY DEF InStep, OneUnderWay, UnderWay, Answers, AirKnown, ConnectionInOrder, OneConnection

\* PostStart does one or the other.
LEMMA StartPosted ==
  ASSUME InStep, PostStart(mails), UNCHANGED <<cmds, air>>, TypeOK', conns' = conns \/ conns' = 0,
         state' = state \/ (state = "CONNECTED" /\ state' = "IDLE")
  PROVE  InStep'
<1>1. Starting("normal") \in Requests
  BY DEF Requests, Intervals
<1>2. CASE powerOff
  BY <1>2, NothingPosted DEF PostStart
<1>3. CASE ~powerOff
  BY <1>1, <1>3, RequestPosted DEF PostStart
<1> QED BY <1>2, <1>3

-----------------------------------------------------------------------------
(* What the handlers send *)

States == {"IDLE", "STARTING_ADV", "ADVERTISING", "STOPPING_ADV", "CONNECTED"}
Pendings == {"IDLE", "START_ADV", "STOP_ADV"}
Wants == Intervals \cup {"none", "any"}

\* What a handler that finds state s may do: nothing, cancel, or start.
Effect(s) ==
  \/ state' = s /\ cmds' = cmds
  \/ s = "ADVERTISING" /\ state' = "STOPPING_ADV" /\ cmds' = cmds \o <<Cancel>>
  \/ /\ s \in {"IDLE", "CONNECTED"} /\ conns = 0 /\ state' = "STARTING_ADV"
     /\ \E i \in Intervals : cmds' = cmds \o <<Starting(i)>>

\* It leaves its variables with their types.
SwitchTyped ==
  /\ state' \in States /\ pending' \in Pendings /\ interval' \in Intervals
  /\ want' \in Wants /\ cmds' \in Seq(Cmds)

LEMMA CmdTypes == Cancel \in Cmds /\ \A i \in Intervals : Starting(i) \in Cmds
BY DEF Cmds

LEMMA StopEffect ==
  ASSUME TypeOK, NEW s \in States, NEW p \in Pendings, NEW w \in Wants, StopAdv(s, p, w)
  PROVE  Effect(s) /\ SwitchTyped
<1>1. cmds \in Seq(Cmds) /\ interval \in Intervals /\ cmds \o <<>> = cmds /\ cmds \o <<Cancel>> \in Seq(Cmds)
  BY CmdTypes DEF TypeOK
<1>2. CASE s = "ADVERTISING"
  BY <1>1, <1>2 DEF StopAdv, Leave, Effect, SwitchTyped, States, Pendings
<1>3. CASE s = "STARTING_ADV"
  BY <1>1, <1>3 DEF StopAdv, Leave, Effect, SwitchTyped, States, Pendings
<1>4. CASE s = "STOPPING_ADV"
  BY <1>1, <1>4 DEF StopAdv, Leave, Effect, SwitchTyped, States, Pendings
<1>5. CASE s \in {"IDLE", "CONNECTED"}
  BY <1>1, <1>5 DEF StopAdv, Leave, Effect, SwitchTyped, States, Pendings
<1> QED BY <1>2, <1>3, <1>4, <1>5 DEF States

LEMMA StartEffect ==
  ASSUME TypeOK, NEW s \in States, NEW p \in Pendings, NEW i \in Intervals, NEW w \in Wants,
         StartAdv(s, p, i, w)
  PROVE  Effect(s) /\ SwitchTyped
<1>1. /\ cmds \in Seq(Cmds) /\ interval \in Intervals /\ sco \in BOOLEAN
      /\ cmds \o <<>> = cmds /\ cmds \o <<Cancel>> \in Seq(Cmds) /\ cmds \o <<Starting(i)>> \in Seq(Cmds)
  BY CmdTypes DEF TypeOK
<1>2. "any" \in Wants
  BY DEF Wants
<1>3. CASE sco
  BY <1>1, <1>2, <1>3 DEF StartAdv, Leave, Effect, SwitchTyped
<1>4. CASE ~sco /\ s = "ADVERTISING"
  BY <1>1, <1>4 DEF StartAdv, Restart, Leave, Effect, SwitchTyped, States, Pendings
<1>5. CASE ~sco /\ s \in {"STARTING_ADV", "STOPPING_ADV"}
  BY <1>1, <1>5 DEF StartAdv, Leave, Effect, SwitchTyped, States, Pendings
<1>6. CASE ~sco /\ s \in {"IDLE", "CONNECTED"}
  <2>1. CASE Forbidden
    BY <1>1, <1>2, <1>6, <2>1 DEF StartAdv, Leave, Effect, SwitchTyped
  <2>2. CASE ~Forbidden
    <3>1. conns = 0
      BY <2>2 DEF Forbidden, TypeOK
    <3> QED BY <1>1, <1>6, <2>2, <3>1 DEF StartAdv, Leave, Effect, SwitchTyped, States
  <2> QED BY <2>1, <2>2
<1> QED BY <1>1, <1>3, <1>4, <1>5, <1>6 DEF States

LEMMA PendingEffect ==
  ASSUME TypeOK, NEW s \in States, RunPending(s)
  PROVE  Effect(s) /\ SwitchTyped
<1>1. /\ pending \in Pendings /\ interval \in Intervals /\ want \in Wants /\ "IDLE" \in Pendings
      /\ cmds \in Seq(Cmds) /\ cmds \o <<>> = cmds
  BY DEF TypeOK, Pendings, Wants
<1>2. CASE pending = "START_ADV"
  <2>1. StartAdv(s, "IDLE", interval, want)
    BY <1>2 DEF RunPending
  <2> QED BY <1>1, <2>1, StartEffect
<1>3. CASE pending = "STOP_ADV"
  <2>1. StopAdv(s, "IDLE", want)
    BY <1>3 DEF RunPending
  <2> QED BY <1>1, <2>1, StopEffect
<1>4. CASE pending = "IDLE"
  BY <1>1, <1>4 DEF RunPending, Leave, Effect, SwitchTyped
<1> QED BY <1>1, <1>2, <1>3, <1>4 DEF Pendings

-----------------------------------------------------------------------------
(* The next mail is taken *)

\* The first mail goes, and the handler may post a request of its own.
Taken == mails # <<>> /\ (mails' = Tail(mails) \/ \E m \in Requests : mails' = Append(Tail(mails), m))

LEMMA TakenMails ==
  ASSUME mails \in Seq(Mails), Taken
  PROVE  /\ mails' \in Seq(Mails)
         /\ Len(mails) \in Nat \ {0} /\ Len(mails') \in Nat /\ Len(mails') >= Len(mails) - 1
         /\ \A i \in 1..(Len(mails) - 1) : mails'[i] = mails[i + 1]
         /\ \A i \in Len(mails)..Len(mails') : mails'[i].fn \in {"start", "stop"}
<1>1. /\ Tail(mails) \in Seq(Mails) /\ Len(mails) \in Nat \ {0} /\ Len(Tail(mails)) = Len(mails) - 1
      /\ \A i \in 1..(Len(mails) - 1) : Tail(mails)[i] = mails[i + 1]
  BY TakeMail DEF Taken
<1>2. CASE mails' = Tail(mails)
  BY <1>1, <1>2
<1>3. CASE \E m \in Requests : mails' = Append(Tail(mails), m)
  <2>1. PICK m \in Requests : mails' = Append(Tail(mails), m)
    BY <1>3
  <2>2. m \in Mails /\ m.fn \in {"start", "stop"}
    BY MailKinds
  <2>3. /\ mails' \in Seq(Mails) /\ Len(mails') = Len(mails)
        /\ \A i \in 1..(Len(mails) - 1) : mails'[i] = Tail(mails)[i]
        /\ mails'[Len(mails)] = m
    BY <1>1, <2>1, <2>2
  <2> QED BY <1>1, <2>2, <2>3
<1> QED BY <1>2, <1>3 DEF Taken

\* The answers move up.
LEMMA TakenAnswers ==
  ASSUME mails \in Seq(Mails), Taken, ~IsAnswer(mails[1])
  PROVE  /\ Answers = {} => Answers' = {}
         /\ \A i \in 1..Len(mails) : Answers = {i} => i - 1 \in 1..Len(mails') /\ Answers' = {i - 1}
<1>1. Answers' = {i \in 1..(Len(mails) - 1) : i + 1 \in Answers}
  BY TakenMails DEF Answers
<1>2. 1 \notin Answers /\ Len(mails) \in Nat \ {0} /\ Len(mails') \in Nat /\ Len(mails') >= Len(mails) - 1
  BY TakenMails DEF Answers, IsAnswer
<1>3. ASSUME NEW i \in 1..Len(mails), Answers = {i}
      PROVE  i - 1 \in 1..Len(mails') /\ Answers' = {i - 1}
  <2>1. i # 1
    BY <1>2, <1>3
  <2>2. i - 1 \in 1..(Len(mails) - 1) /\ \A k \in 1..(Len(mails) - 1) : k + 1 = i <=> k = i - 1
    BY <1>2, <2>1
  <2> QED BY <1>1, <1>2, <1>3, <2>2
<1> QED BY <1>1, <1>3

\* A mail that asks for something is handled.
LEMMA RequestHandled ==
  ASSUME InStep, Taken, mails[1].fn \in {"start", "stop"}, Effect(state), air' = air, conns' = conns, TypeOK'
  PROVE  InStep'
<1> USE DEF InStep
<1>1. mails \in Seq(Mails) /\ ~IsAnswer(mails[1]) /\ cmds \in Seq(Cmds)
  BY DEF TypeOK, IsAnswer
<1>2. /\ Len(mails) \in Nat \ {0} /\ Len(mails') \in Nat /\ Len(mails') >= Len(mails) - 1
      /\ \A i \in 1..(Len(mails) - 1) : mails'[i] = mails[i + 1]
      /\ \A i \in Len(mails)..Len(mails') : mails'[i].fn \in {"start", "stop"}
  BY <1>1, TakenMails
<1>3. /\ Answers = {} => Answers' = {}
      /\ \A i \in 1..Len(mails) : Answers = {i} => i - 1 \in 1..Len(mails') /\ Answers' = {i - 1}
  BY <1>1, TakenAnswers
<1>4. \A c : <<>> \o <<c>> = <<c>>
  OBVIOUS
<1>m. \A k \in 1..Len(mails') : mails'[k].fn \notin {"start", "stop"} =>
        k + 1 \in 1..Len(mails) /\ mails'[k] = mails[k + 1]
  BY <1>2
<1>n. \A k \in 1..Len(mails) : k # 1 => k - 1 \in 1..Len(mails') /\ mails'[k - 1] = mails[k]
  BY <1>2
<1>5. CASE state' = state /\ cmds' = cmds
  <2>1. OneUnderWay'
    BY <1>3, <1>5 DEF OneUnderWay, UnderWay
  <2>2. AirKnown'
    BY <1>2, <1>5 DEF AirKnown
  <2>3. ConnectionInOrder'
    <3> SUFFICES ASSUME NEW i \in 1..Len(mails'), mails'[i].fn = "connected"
                 PROVE  /\ air = "none"
                        /\ \A j \in 1..Len(mails') : mails'[j].fn = "connected" => i = j
                        /\ \/ state = "ADVERTISING"
                           \/ /\ state = "STARTING_ADV" /\ cmds = <<>>
                              /\ \E j \in 1..(i - 1) : mails'[j].fn = "switch"
                           \/ /\ state = "STOPPING_ADV"
                              /\ \/ cmds = <<Cancel>>
                                 \/ \E j \in (i + 1)..Len(mails') : mails'[j].fn = "switch"
      BY <1>5 DEF ConnectionInOrder
    <3>1. i + 1 \in 1..Len(mails) /\ mails[i + 1].fn = "connected"
      BY <1>m
    <3>2. \A j \in 1..Len(mails') : mails'[j].fn = "connected" => i = j
      BY <1>m, <3>1 DEF ConnectionInOrder
    <3>3. ASSUME NEW j \in 1..(i + 1 - 1), mails[j].fn = "switch"
          PROVE  \E k \in 1..(i - 1) : mails'[k].fn = "switch"
      <4>1. j # 1 /\ j \in 1..Len(mails)
        BY <1>1, <3>1, <3>3 DEF IsAnswer
      <4>2. j - 1 \in 1..(i - 1) /\ mails'[j - 1].fn = "switch"
        BY <1>n, <3>3, <4>1
      <4> QED BY <4>2
    <3>4. ASSUME NEW j \in (i + 1 + 1)..Len(mails), mails[j].fn = "switch"
          PROVE  \E k \in (i + 1)..Len(mails') : mails'[k].fn = "switch"
      <4>1. j # 1 /\ j \in 1..Len(mails)
        BY <1>2
      <4>2. j - 1 \in (i + 1)..Len(mails') /\ mails'[j - 1].fn = "switch"
        BY <1>2, <1>n, <3>4, <4>1
      <4> QED BY <4>2
    <3>5. /\ air = "none"
          /\ \/ state = "ADVERTISING"
             \/ state = "STARTING_ADV" /\ cmds = <<>> /\ \E j \in 1..(i + 1 - 1) : mails[j].fn = "switch"
             \/ /\ state = "STOPPING_ADV"
                /\ \/ cmds = <<Cancel>>
                   \/ \E j \in (i + 1 + 1)..Len(mails) : mails[j].fn = "switch"
      BY <3>1 DEF ConnectionInOrder
    <3> QED BY <3>2, <3>3, <3>4, <3>5
  <2>4. OneConnection'
    BY <1>5 DEF OneConnection
  <2> QED BY <2>1, <2>2, <2>3, <2>4
<1>6. CASE state = "ADVERTISING" /\ state' = "STOPPING_ADV" /\ cmds' = cmds \o <<Cancel>>
  <2>1. cmds' = <<Cancel>> /\ Answers' = {}
    BY <1>3, <1>4, <1>6 DEF OneUnderWay
  <2>2. OneUnderWay'
    BY <1>6, <2>1 DEF OneUnderWay, UnderWay
  <2>3. \A k \in 1..Len(mails') : mails'[k].fn # "failed"
    BY <1>m, <1>6 DEF AirKnown
  <2>4. AirKnown'
    BY <1>6, <2>1, <2>3 DEF AirKnown
  <2>5. \A k \in 1..Len(mails') : mails'[k].fn = "connected" =>
          air = "none" /\ \A j \in 1..Len(mails') : mails'[j].fn = "connected" => k = j
    BY <1>m DEF ConnectionInOrder
  <2>6. ConnectionInOrder'
    BY <1>6, <2>1, <2>5 DEF ConnectionInOrder
  <2>7. OneConnection'
    BY <1>6 DEF OneConnection
  <2> QED BY <2>2, <2>4, <2>6, <2>7
<1>7. CASE /\ state \in {"IDLE", "CONNECTED"} /\ conns = 0 /\ state' = "STARTING_ADV"
           /\ \E i \in Intervals : cmds' = cmds \o <<Starting(i)>>
  <2>1. Answers' = {} /\ \E i \in Intervals : cmds' = <<Starting(i)>>
    BY <1>3, <1>4, <1>7 DEF OneUnderWay
  <2>2. OneUnderWay'
    BY <1>7, <2>1 DEF OneUnderWay, UnderWay
  <2>3. air = "none"
    BY <1>7 DEF AirKnown
  <2>4. AirKnown'
    BY <1>2, <1>7, <2>3 DEF AirKnown
  <2>5. \A i \in 1..Len(mails) : mails[i].fn # "connected"
    BY <1>7 DEF ConnectionInOrder
  <2>6. ConnectionInOrder'
    BY <1>2, <2>5 DEF ConnectionInOrder
  <2>7. OneConnection'
    BY <1>7 DEF OneConnection
  <2> QED BY <2>2, <2>4, <2>6, <2>7
<1> QED BY <1>5, <1>6, <1>7 DEF Effect

\* The types of a handler's variables.
LEMMA HandlerTyped ==
  ASSUME TypeOK, Taken, SwitchTyped, UNCHANGED <<clients, stack, gates, events, failed>>,
         asked' \in {"start", "stop"}
  PROVE  TypeOK'
<1>1. mails' \in Seq(Mails)
  BY TakenMails DEF TypeOK
<1> QED
  BY <1>1 DEF TypeOK, SwitchTyped, States, Pendings, Wants, clients, stack, gates

\* Every handler begins so.
LEMMA TakeFirst ==
  ASSUME TypeOK, NEW fn, Take(fn)
  PROVE  /\ mails # <<>> /\ mails[1] = Head(mails) /\ mails[1].fn = fn /\ mails[1] \in Mails
         /\ 1 \in 1..Len(mails)
         /\ state \in States /\ pending \in Pendings /\ interval \in Intervals /\ want \in Wants
         /\ UNCHANGED <<clients, stack, gates, events>>
<1>1. mails \in Seq(Mails) /\ mails # <<>> /\ Head(mails).fn = fn
  BY DEF TypeOK, Take
<1>2. Head(mails) = mails[1] /\ Head(mails) \in Mails /\ Len(mails) \in Nat \ {0}
  BY <1>1, TakeMail
<1> QED BY <1>1, <1>2 DEF TypeOK, Take, States, Pendings, Wants

LEMMA HandleStartInv == InStep /\ HandleStart => InStep'
<1> SUFFICES ASSUME InStep, HandleStart PROVE InStep'
  OBVIOUS
<1>1. /\ TypeOK /\ Take("start") /\ mails' = Tail(mails) /\ UNCHANGED failed /\ asked' = "start"
      /\ StartAdv(state, pending, Head(mails).interval, Head(mails).interval)
  BY DEF InStep, HandleStart
<1>2. mails[1].fn = "start" /\ Taken /\ air' = air /\ conns' = conns /\ mails[1].interval \in Intervals
  BY <1>1, TakeFirst, MailKinds DEF Taken, stack
<1>3. Effect(state) /\ SwitchTyped
  BY <1>1, <1>2, TakeFirst, StartEffect DEF Wants
<1>4. TypeOK'
  BY <1>1, <1>2, <1>3, TakeFirst, HandlerTyped
<1> QED BY <1>2, <1>3, <1>4, RequestHandled

LEMMA HandleStopInv == InStep /\ HandleStop => InStep'
<1> SUFFICES ASSUME InStep, HandleStop PROVE InStep'
  OBVIOUS
<1>1. /\ TypeOK /\ Take("stop") /\ mails' = Tail(mails) /\ UNCHANGED failed /\ asked' = "stop"
      /\ StopAdv(state, pending, "none")
  BY DEF InStep, HandleStop
<1>2. mails[1].fn = "stop" /\ Taken /\ air' = air /\ conns' = conns
  BY <1>1, TakeFirst DEF Taken, stack
<1>3. Effect(state) /\ SwitchTyped
  BY <1>1, TakeFirst, StopEffect DEF Wants
<1>4. TypeOK'
  BY <1>1, <1>2, <1>3, TakeFirst, HandlerTyped
<1> QED BY <1>2, <1>3, <1>4, RequestHandled

\* While an answer waits at the head nothing else is under way.
LEMMA AnswerFirst ==
  ASSUME InStep, mails # <<>>, IsAnswer(mails[1]), mails' = Tail(mails)
  PROVE  /\ state \in {"STARTING_ADV", "STOPPING_ADV"} /\ cmds = <<>>
         /\ Answers = {1} /\ Answers' = {}
         /\ state = "STOPPING_ADV" => air = "none"
         /\ Len(mails) \in Nat \ {0} /\ Len(mails') = Len(mails) - 1
         /\ \A i \in 1..Len(mails') : i + 1 \in 1..Len(mails) /\ mails'[i] = mails[i + 1]
         /\ \A i \in 1..Len(mails') : mails'[i].fn # "failed" /\ mails'[i].fn # "switch"
<1>1. mails \in Seq(Mails)
  BY DEF InStep, TypeOK
<1>2. /\ Len(mails) \in Nat \ {0} /\ Len(mails') = Len(mails) - 1
      /\ \A i \in 1..Len(mails') : i + 1 \in 1..Len(mails) /\ mails'[i] = mails[i + 1]
  BY <1>1, TakeMail
<1>3. 1 \in Answers
  BY <1>2 DEF Answers, IsAnswer
<1>4. state \in {"STARTING_ADV", "STOPPING_ADV"} /\ cmds = <<>> /\ Answers = {1}
  BY <1>3 DEF InStep, OneUnderWay, UnderWay
<1>5. \A i \in 1..Len(mails') : mails'[i].fn # "failed" /\ mails'[i].fn # "switch"
  BY <1>2, <1>4 DEF Answers
<1>6. Answers' = {}
  BY <1>5 DEF Answers
<1>7. state = "STOPPING_ADV" => air = "none"
  BY <1>4 DEF InStep, AirKnown, Cancel, Other
<1> QED BY <1>2, <1>4, <1>5, <1>6, <1>7

LEMMA HandleSwitchInv == InStep /\ HandleSwitch => InStep'
<1> SUFFICES ASSUME InStep, HandleSwitch PROVE InStep'
  OBVIOUS
<1>1. /\ TypeOK /\ Take("switch") /\ mails' = Tail(mails) /\ UNCHANGED <<asked, failed>>
      /\ SwitchActivities
  BY DEF InStep, HandleSwitch
<1>2. mails # <<>> /\ mails[1].fn = "switch" /\ IsAnswer(mails[1]) /\ Taken /\ air' = air /\ conns' = conns
  BY <1>1, TakeFirst DEF Taken, IsAnswer, stack
<1>3. /\ state \in {"STARTING_ADV", "STOPPING_ADV"} /\ cmds = <<>>
      /\ Answers = {1} /\ Answers' = {}
      /\ state = "STOPPING_ADV" => air = "none"
      /\ Len(mails) \in Nat \ {0} /\ Len(mails') = Len(mails) - 1
      /\ \A i \in 1..Len(mails') : i + 1 \in 1..Len(mails) /\ mails'[i] = mails[i + 1]
      /\ \A i \in 1..Len(mails') : mails'[i].fn # "failed" /\ mails'[i].fn # "switch"
  BY <1>1, <1>2, AnswerFirst
<1>c. \A i \in 1..Len(mails') : mails'[i].fn = "connected" =>
        state = "STARTING_ADV" /\ air = "none" /\ \A j \in 1..Len(mails') : mails'[j].fn = "connected" => i = j
  <2> SUFFICES ASSUME NEW i \in 1..Len(mails'), mails'[i].fn = "connected"
               PROVE  state = "STARTING_ADV" /\ air = "none"
                      /\ \A j \in 1..Len(mails') : mails'[j].fn = "connected" => i = j
    OBVIOUS
  <2>1. i + 1 \in 1..Len(mails) /\ mails[i + 1].fn = "connected"
    BY <1>3
  <2>2. air = "none" /\ \A j \in 1..Len(mails) : mails[j].fn = "connected" => i + 1 = j
    BY <2>1 DEF InStep, ConnectionInOrder
  <2>3. \A j \in (i + 1 + 1)..Len(mails) : mails[j].fn # "switch"
    BY <1>3, <2>1 DEF Answers
  <2>4. state # "STOPPING_ADV"
    BY <1>3, <2>1, <2>3 DEF InStep, ConnectionInOrder, Cancel, Other
  <2> QED BY <1>3, <2>2, <2>4
<1>4. PICK s \in States : /\ s = IF state = "STARTING_ADV" THEN "ADVERTISING" ELSE "IDLE"
                          /\ RunPending(s)
  BY <1>1, <1>3 DEF SwitchActivities, States
<1>5. Effect(s) /\ SwitchTyped
  BY <1>1, <1>4, PendingEffect
<1>6. TypeOK'
  BY <1>1, <1>2, <1>5, TakeFirst, HandlerTyped DEF TypeOK
<1>7. \A c : <<>> \o <<c>> = <<c>>
  OBVIOUS
<1>8. CASE state = "STARTING_ADV"
  <2>0. s = "ADVERTISING" /\ cmds = <<>>
    BY <1>3, <1>4, <1>8
  <2>1. \/ state' = "ADVERTISING" /\ cmds' = <<>>
        \/ state' = "STOPPING_ADV" /\ cmds' = <<Cancel>>
    <3>1. CASE state' = s /\ cmds' = cmds
      BY <2>0, <3>1
    <3>2. CASE state' = "STOPPING_ADV" /\ cmds' = cmds \o <<Cancel>>
      BY <1>7, <2>0, <3>2
    <3> QED BY <1>5, <2>0, <3>1, <3>2 DEF Effect
  <2>2. OneUnderWay'
    BY <1>3, <2>1 DEF OneUnderWay, UnderWay
  <2>3. AirKnown'
    BY <1>2, <1>3, <2>1 DEF AirKnown
  <2>4. ConnectionInOrder'
    BY <1>2, <1>c, <2>1 DEF ConnectionInOrder
  <2>5. OneConnection'
    BY <1>2, <2>1 DEF InStep, OneConnection
  <2> QED BY <1>6, <2>2, <2>3, <2>4, <2>5 DEF InStep
<1>9. CASE state = "STOPPING_ADV"
  <2>1. \/ state' = "IDLE" /\ cmds' = <<>>
        \/ state' = "STARTING_ADV" /\ conns = 0 /\ \E i \in Intervals : cmds' = <<Starting(i)>>
    BY <1>3, <1>4, <1>5, <1>7, <1>9 DEF Effect
  <2>2. OneUnderWay'
    BY <1>3, <2>1 DEF OneUnderWay, UnderWay
  <2>3. AirKnown'
    BY <1>2, <1>3, <1>9, <2>1 DEF AirKnown
  <2>4. ConnectionInOrder'
    BY <1>c, <1>9 DEF ConnectionInOrder
  <2>5. OneConnection'
    BY <1>2, <1>3, <1>9, <2>1 DEF OneConnection
  <2> QED BY <1>6, <2>2, <2>3, <2>4, <2>5 DEF InStep
<1> QED BY <1>3, <1>8, <1>9

LEMMA HandleFailedInv == InStep /\ HandleFailed => InStep'
<1> SUFFICES ASSUME InStep, HandleFailed PROVE InStep'
  OBVIOUS
<1>1. /\ TypeOK /\ Take("failed") /\ mails' = Tail(mails) /\ UNCHANGED <<asked, failed>>
      /\ Leave(IF state = "STARTING_ADV" THEN "IDLE" ELSE state, pending, interval, <<>>, "any")
  BY DEF InStep, HandleFailed
<1>2. /\ mails # <<>> /\ mails[1].fn = "failed" /\ IsAnswer(mails[1]) /\ Taken /\ air' = air
      /\ 1 \in 1..Len(mails)
  BY <1>1, TakeFirst DEF Taken, IsAnswer, stack
<1>3. /\ cmds = <<>> /\ Answers = {1} /\ Answers' = {}
      /\ Len(mails) \in Nat \ {0} /\ Len(mails') = Len(mails) - 1
      /\ \A i \in 1..Len(mails') : i + 1 \in 1..Len(mails) /\ mails'[i] = mails[i + 1]
      /\ \A i \in 1..Len(mails') : mails'[i].fn # "failed"
  BY <1>2, <1>1, AnswerFirst
<1>4. state = "STARTING_ADV" /\ air = "none"
  BY <1>2 DEF InStep, AirKnown
<1>5. state' = "IDLE" /\ cmds' = <<>>
  BY <1>1, <1>3, <1>4 DEF Leave
<1>6. SwitchTyped
  BY <1>1, <1>5, TakeFirst DEF Leave, SwitchTyped, States, Wants
<1>7. TypeOK'
  BY <1>1, <1>2, <1>6, TakeFirst, HandlerTyped DEF TypeOK
<1>8. \A i \in 1..Len(mails') : mails'[i].fn # "connected"
  <2> SUFFICES ASSUME NEW i \in 1..Len(mails'), mails'[i].fn = "connected" PROVE FALSE
    OBVIOUS
  <2>1. i + 1 \in 1..Len(mails) /\ mails[i + 1].fn = "connected"
    BY <1>3
  <2>2. \E j \in 1..(i + 1 - 1) : mails[j].fn = "switch"
    BY <1>4, <2>1 DEF InStep, ConnectionInOrder
  <2>3. PICK j \in 1..Len(mails) : mails[j].fn = "switch"
    BY <2>1, <2>2
  <2>4. j \in Answers
    BY <2>3 DEF Answers
  <2> QED BY <1>2, <1>3, <2>3, <2>4
<1>9. OneUnderWay' /\ AirKnown' /\ ConnectionInOrder' /\ OneConnection'
  BY <1>2, <1>3, <1>4, <1>5, <1>8 DEF OneUnderWay, AirKnown, ConnectionInOrder, OneConnection
<1> QED BY <1>7, <1>9 DEF InStep

LEMMA HandleConnectedInv == InStep /\ HandleConnected => InStep'
<1> SUFFICES ASSUME InStep, HandleConnected PROVE InStep'
  OBVIOUS
<1>1. /\ TypeOK /\ Take("connected") /\ PostStart(Tail(mails)) /\ UNCHANGED <<asked, failed>>
      /\ Leave(IF state = "ADVERTISING" THEN "CONNECTED" ELSE state, pending, interval, <<>>, want)
  BY DEF InStep, HandleConnected
<1>2. /\ mails # <<>> /\ mails[1].fn = "connected" /\ ~IsAnswer(mails[1]) /\ air' = air
      /\ 1 \in 1..Len(mails) /\ mails \in Seq(Mails) /\ cmds \in Seq(Cmds)
  BY <1>1, TakeFirst DEF IsAnswer, stack, TypeOK
<1>3. Starting("normal") \in Requests
  BY DEF Requests, Intervals
<1>4. Taken
  BY <1>1, <1>2, <1>3 DEF Taken, PostStart
<1>5. /\ Len(mails) \in Nat \ {0} /\ Len(mails') \in Nat /\ Len(mails') >= Len(mails) - 1
      /\ \A i \in 1..(Len(mails) - 1) : mails'[i] = mails[i + 1]
      /\ \A i \in Len(mails)..Len(mails') : mails'[i].fn \in {"start", "stop"}
  BY <1>2, <1>4, TakenMails
<1>6. /\ Answers = {} => Answers' = {}
      /\ \A i \in 1..Len(mails) : Answers = {i} => i - 1 \in 1..Len(mails') /\ Answers' = {i - 1}
  BY <1>2, <1>4, TakenAnswers
<1>7. /\ air = "none" /\ state \in {"ADVERTISING", "STARTING_ADV", "STOPPING_ADV"}
      /\ \A j \in 1..Len(mails) : mails[j].fn = "connected" => j = 1
  BY <1>2 DEF InStep, ConnectionInOrder
<1>8. state # "STARTING_ADV"
  BY <1>2 DEF InStep, ConnectionInOrder
<1>9. cmds' = cmds /\ state' = IF state = "ADVERTISING" THEN "CONNECTED" ELSE state
  BY <1>1, <1>2 DEF Leave
<1>10. SwitchTyped
  BY <1>1, <1>2, <1>9, TakeFirst DEF Leave, SwitchTyped, States
<1>11. TypeOK'
  BY <1>1, <1>4, <1>10, TakeFirst, HandlerTyped DEF TypeOK
<1>12. \A k \in 1..Len(mails') : mails'[k].fn \notin {"start", "stop"} =>
         k + 1 \in 1..Len(mails) /\ mails'[k] = mails[k + 1]
  BY <1>5
<1>13. \A k \in 1..Len(mails') : mails'[k].fn # "connected" /\ mails'[k].fn # "failed"
  BY <1>7, <1>8, <1>12 DEF InStep, AirKnown
<1>14. OneUnderWay'
  <2>1. CASE state = "ADVERTISING"
    BY <1>6, <1>9, <2>1 DEF InStep, OneUnderWay
  <2>2. CASE state = "STOPPING_ADV"
    BY <1>6, <1>9, <2>2 DEF InStep, OneUnderWay, UnderWay
  <2> QED BY <1>7, <1>8, <2>1, <2>2
<1>15. AirKnown'
  BY <1>2, <1>7, <1>13 DEF AirKnown
<1>16. ConnectionInOrder'
  BY <1>13 DEF ConnectionInOrder
<1>17. OneConnection'
  BY <1>2, <1>7, <1>8, <1>9 DEF OneConnection
<1> QED BY <1>11, <1>14, <1>15, <1>16, <1>17 DEF InStep

-----------------------------------------------------------------------------
(* The stack *)

\* An answer is posted when the last command has been taken.
LEMMA AnswerPosted ==
  ASSUME InStep, NEW f \in {"switch", "failed"}, Answer(f), Len(cmds) = 1, cmds' = Tail(cmds),
         state' = state, conns' = conns, TypeOK',
         f = "failed" => state = "STARTING_ADV" /\ air' = "none",
         air' # "none" => state = "STARTING_ADV" /\ f # "failed",
         state = "STOPPING_ADV" => f = "switch"
  PROVE  InStep'
<1>1. /\ mails \in Seq(Mails) /\ Other(f) \in Mails /\ Other(f).fn = f /\ cmds \in Seq(Cmds)
      /\ Len(mails) \in Nat
  BY MailKinds DEF InStep, TypeOK
<1>2. /\ Len(mails') = Len(mails) + 1 /\ mails'[Len(mails) + 1].fn = f
      /\ \A i \in 1..Len(mails) : mails'[i] = mails[i]
  BY <1>1, AppendMail DEF Answer
<1>3. cmds # <<>> /\ cmds' = <<>>
  <2>1. cmds # <<>>
    <3>1. \A q : q = <<>> => Len(q) = 0
      OBVIOUS
    <3> QED BY <3>1
  <2>2. Tail(cmds) \in Seq(Cmds) /\ Len(Tail(cmds)) = 0
    BY <1>1, <2>1
  <2>3. \A q \in Seq(Cmds) : Len(q) = 0 => q = <<>>
    OBVIOUS
  <2> QED BY <2>1, <2>2, <2>3
<1>4. state \in {"STARTING_ADV", "STOPPING_ADV"} /\ Answers = {}
  BY <1>3 DEF InStep, OneUnderWay, UnderWay
<1>5. Answers' = {Len(mails) + 1}
  BY <1>1, <1>2, <1>4 DEF Answers
<1>6. OneUnderWay'
  BY <1>1, <1>2, <1>3, <1>4, <1>5 DEF OneUnderWay, UnderWay
<1>7. \A i \in 1..Len(mails) : mails[i].fn # "failed"
  BY <1>4 DEF Answers
<1>8. AirKnown'
  BY <1>1, <1>2, <1>3, <1>4, <1>7 DEF AirKnown
<1>9. \A i \in 1..Len(mails) : mails[i].fn = "connected" =>
        /\ air = "none" /\ state = "STOPPING_ADV"
        /\ \A j \in 1..Len(mails) : mails[j].fn = "connected" => i = j
  BY <1>3, <1>4 DEF InStep, ConnectionInOrder
<1>10. ConnectionInOrder'
  <2> SUFFICES ASSUME NEW i \in 1..Len(mails'), mails'[i].fn = "connected"
               PROVE  /\ air' = "none" /\ state' = "STOPPING_ADV"
                      /\ \A j \in 1..Len(mails') : mails'[j].fn = "connected" => i = j
                      /\ \E j \in (i + 1)..Len(mails') : mails'[j].fn = "switch"
    BY DEF ConnectionInOrder
  <2>1. i \in 1..Len(mails) /\ mails[i].fn = "connected"
    BY <1>1, <1>2
  <2>2. state = "STOPPING_ADV" /\ f = "switch"
    BY <1>9, <2>1
  <2>3. Len(mails) + 1 \in (i + 1)..Len(mails') /\ mails'[Len(mails) + 1].fn = "switch"
    BY <1>1, <1>2, <2>1, <2>2
  <2>4. \A j \in 1..Len(mails') : mails'[j].fn = "connected" => i = j
    <3> SUFFICES ASSUME NEW j \in 1..Len(mails'), mails'[j].fn = "connected" PROVE i = j
      OBVIOUS
    <3>1. j # Len(mails) + 1
      BY <1>2
    <3>2. j \in 1..Len(mails) /\ mails[j].fn = "connected"
      BY <1>1, <1>2, <3>1
    <3> QED BY <1>9, <2>1, <3>2
  <2> QED BY <2>2, <2>3, <2>4
<1>11. OneConnection'
  BY <1>3, <1>4 DEF InStep, OneConnection
<1> QED BY <1>6, <1>8, <1>10, <1>11 DEF InStep

\* Whatever the stack works on is the last thing it was told.
LEMMA StackCommand ==
  ASSUME InStep, NEW c, StackStep(c)
  PROVE  /\ Len(cmds) = 1 /\ cmds' = Tail(cmds) /\ cmds' \in Seq(Cmds) /\ Head(cmds).fn = c
         /\ c = "start" => state = "STARTING_ADV" /\ Head(cmds).interval \in Intervals
         /\ c = "stop" => state = "STOPPING_ADV"
         /\ UNCHANGED <<state, pending, interval, calls, later, conns, sco, profiles, powerOff>>
<1>1. cmds \in Seq(Cmds) /\ cmds # <<>> /\ Head(cmds).fn = c /\ cmds' = Tail(cmds)
  BY DEF InStep, TypeOK, StackStep
<1>2. \/ state = "STARTING_ADV" /\ \E i \in Intervals : cmds = <<Starting(i)>>
      \/ state = "STOPPING_ADV" /\ cmds = <<Cancel>>
  BY <1>1 DEF InStep, OneUnderWay, UnderWay
<1>3. CASE state = "STARTING_ADV" /\ \E i \in Intervals : cmds = <<Starting(i)>>
  <2>1. PICK i \in Intervals : cmds = <<Starting(i)>>
    BY <1>3
  <2>2. Len(cmds) = 1 /\ Head(cmds) = Starting(i) /\ Starting(i).fn = "start" /\ Starting(i).interval = i
    BY <2>1, MailKinds
  <2> QED BY <1>1, <1>3, <2>2 DEF StackStep, switch, clients, gates
<1>4. CASE state = "STOPPING_ADV" /\ cmds = <<Cancel>>
  <2>1. Len(cmds) = 1 /\ Head(cmds) = Cancel /\ Cancel.fn = "stop"
    BY <1>4, MailKinds
  <2> QED BY <1>1, <1>4, <2>1 DEF StackStep, switch, clients, gates
<1> QED BY <1>2, <1>3, <1>4

\* The types after a step of the stack.
LEMMA StackTyped ==
  ASSUME TypeOK, NEW f \in {"switch", "failed"}, Answer(f), cmds' \in Seq(Cmds),
         UNCHANGED <<state, pending, interval, calls, later, conns, sco, profiles, powerOff>>,
         air' \in Intervals \cup {"none"}, events' \in 0..MaxEvents, failed' \in BOOLEAN,
         UNCHANGED <<asked, want>>
  PROVE  TypeOK'
<1>1. mails' \in Seq(Mails)
  BY MailKinds DEF TypeOK, Answer
<1> QED BY <1>1 DEF TypeOK

LEMMA CountedEvent == TypeOK /\ Bounded => events' \in 0..MaxEvents
BY BoundsAssumption DEF TypeOK, Bounded

LEMMA StackStartsInv == InStep /\ StackStarts => InStep'
<1> SUFFICES ASSUME InStep, StackStarts PROVE InStep'
  OBVIOUS
<1>1. /\ TypeOK /\ StackStep("start") /\ Answer("switch") /\ air' = Head(cmds).interval
      /\ UNCHANGED <<events, asked, want, failed>>
  BY DEF InStep, StackStarts, ghosts
<1>2. TypeOK'
  BY <1>1, StackCommand, StackTyped DEF TypeOK
<1> QED BY <1>1, <1>2, StackCommand, AnswerPosted

LEMMA StackRefusesInv == InStep /\ StackRefuses => InStep'
<1> SUFFICES ASSUME InStep, StackRefuses PROVE InStep'
  OBVIOUS
<1>1. /\ TypeOK /\ StackStep("start") /\ Answer("failed") /\ Bounded /\ failed' = TRUE
      /\ UNCHANGED <<air, asked, want>>
  BY DEF InStep, StackRefuses
<1>2. Len(cmds) = 1 /\ state = "STARTING_ADV"
  BY <1>1, StackCommand
<1>3. air = "none"
  BY <1>2 DEF InStep, AirKnown
<1>4. TypeOK'
  BY <1>1, StackCommand, StackTyped, CountedEvent DEF TypeOK
<1> QED BY <1>1, <1>3, <1>4, StackCommand, AnswerPosted

LEMMA StackCancelsInv == AnswersLateCancel /\ InStep /\ StackCancels => InStep'
<1> SUFFICES ASSUME AnswersLateCancel, InStep, StackCancels PROVE InStep'
  OBVIOUS
<1>1. /\ TypeOK /\ StackStep("stop") /\ Answer("switch") /\ air' = "none"
      /\ UNCHANGED <<events, asked, want, failed>>
  BY DEF InStep, StackCancels, ghosts
<1>2. TypeOK'
  BY <1>1, StackCommand, StackTyped DEF TypeOK
<1> QED BY <1>1, <1>2, StackCommand, AnswerPosted

LEMMA ConnectionInv == InStep /\ Connection => InStep'
<1> SUFFICES ASSUME InStep, Connection PROVE InStep'
  OBVIOUS
<1>1. /\ air # "none" /\ air' = "none" /\ conns = 0 /\ conns' = 1 /\ later' \subseteq later
      /\ mails' = Append(mails, Other("connected")) /\ want' = "any" /\ Bounded
      /\ UNCHANGED <<state, pending, interval, calls, cmds, sco, profiles, powerOff, asked, failed>>
  BY DEF Connection, switch, gates, InStep, OneConnection
<1>2. /\ TypeOK /\ mails \in Seq(Mails) /\ Other("connected") \in Mails
      /\ Other("connected").fn = "connected" /\ Len(mails) \in Nat
  BY MailKinds DEF InStep, TypeOK
<1>3. /\ mails' \in Seq(Mails) /\ Len(mails') = Len(mails) + 1
      /\ mails'[Len(mails) + 1].fn = "connected"
      /\ \A i \in 1..Len(mails) : mails'[i] = mails[i]
  BY <1>1, <1>2, AppendMail
<1>4. \A i \in 1..Len(mails) : mails[i].fn # "connected" /\ mails[i].fn # "failed"
  BY <1>1 DEF InStep, ConnectionInOrder, AirKnown
<1>5. Answers' = Answers
  BY <1>2, <1>3 DEF Answers
<1>6. TypeOK'
  BY <1>1, <1>2, <1>3, CountedEvent DEF TypeOK
<1>7. OneUnderWay'
  BY <1>1, <1>2, <1>3, <1>5 DEF InStep, OneUnderWay, UnderWay
<1>8. AirKnown'
  BY <1>1, <1>2, <1>3, <1>4 DEF AirKnown
<1>9. \/ state = "ADVERTISING"
      \/ state = "STARTING_ADV" /\ cmds = <<>> /\ \E j \in 1..Len(mails) : mails[j].fn = "switch"
      \/ state = "STOPPING_ADV" /\ cmds = <<Cancel>>
  BY <1>1, <1>4 DEF InStep, AirKnown, OneUnderWay, UnderWay, Answers
<1>10. ConnectionInOrder'
  BY <1>1, <1>2, <1>3, <1>4, <1>9 DEF ConnectionInOrder
<1>11. OneConnection'
  BY <1>1, <1>9 DEF OneConnection
<1> QED BY <1>6, <1>7, <1>8, <1>10, <1>11 DEF InStep

LEMMA DisconnectionInv == InStep /\ Disconnection => InStep'
<1> SUFFICES ASSUME InStep, Disconnection PROVE InStep'
  OBVIOUS
<1>1. /\ TypeOK /\ Bounded /\ conns > 0 /\ conns' = conns - 1 /\ PostStart(mails)
      /\ state' = (IF state = "CONNECTED" THEN "IDLE" ELSE state)
      /\ UNCHANGED <<pending, interval, calls, later, cmds, air, sco, profiles, powerOff, asked, want, failed>>
  BY DEF InStep, Disconnection, clients, gates, ghosts
<1>2. mails' \in Seq(Mails)
  BY <1>1, MailKinds DEF TypeOK, PostStart, Intervals
<1>3. conns' = 0
  BY <1>1 DEF TypeOK
<1>4. state' = state \/ (state = "CONNECTED" /\ state' = "IDLE")
  BY <1>1
<1>5. TypeOK'
  BY <1>1, <1>2, <1>3, CountedEvent DEF TypeOK
<1> QED BY <1>1, <1>3, <1>4, <1>5, StartPosted

-----------------------------------------------------------------------------
(* The clients *)

\* What a client does before its mail touches neither the switch nor the stack.
LEMMA ClientStep ==
  ASSUME TypeOK, NEW t \in Threads, Client(t)
  PROVE  /\ UNCHANGED <<state, pending, interval, cmds, air, conns, asked, want, failed>>
         /\ events' \in 0..MaxEvents
BY CountedEvent DEF Client, switch, stack, ghosts

\* What it leaves for Post is a request.
LEMMA StopCall ==
  ASSUME TypeOK, NEW t \in Threads, Stopping(t)
  PROVE  calls' \in [Threads -> Calls] /\ later' \subseteq {"fast", "resume", "player"}
BY DEF TypeOK, Stopping, Calls

LEMMA FastCall ==
  ASSUME TypeOK, NEW t \in Threads, StartingFast(t)
  PROVE  calls' \in [Threads -> Calls] /\ later' \subseteq {"fast", "resume", "player"}
BY DEF TypeOK, StartingFast, Calls, Intervals

LEMMA AskStopInv == InStep /\ (\E t \in Threads : AskStop(t)) => InStep'
<1> SUFFICES ASSUME InStep, NEW t \in Threads, AskStop(t) PROVE InStep'
  OBVIOUS
<1>1. TypeOK /\ Client(t) /\ Stopping(t) /\ UNCHANGED <<mails, sco, profiles, powerOff>>
  BY DEF InStep, AskStop, gates
<1>2. TypeOK'
  BY <1>1, ClientStep, StopCall DEF TypeOK
<1> QED BY <1>1, <1>2, ClientStep, NothingPosted

LEMMA AskFastInv == InStep /\ (\E t \in Threads : AskFast(t)) => InStep'
<1> SUFFICES ASSUME InStep, NEW t \in Threads, AskFast(t) PROVE InStep'
  OBVIOUS
<1>1. TypeOK /\ Client(t) /\ StartingFast(t) /\ UNCHANGED <<mails, sco, profiles, powerOff>>
  BY DEF InStep, AskFast, gates
<1>2. TypeOK'
  BY <1>1, ClientStep, FastCall DEF TypeOK
<1> QED BY <1>1, <1>2, ClientStep, NothingPosted

LEMMA AskStartInv == InStep /\ (\E t \in Threads : AskStart(t)) => InStep'
<1> SUFFICES ASSUME InStep, NEW t \in Threads, AskStart(t) PROVE InStep'
  OBVIOUS
<1>1. /\ TypeOK /\ Client(t) /\ \E i \in Intervals : calls' = [calls EXCEPT ![t] = Starting(i)]
      /\ UNCHANGED <<mails, later, sco, profiles, powerOff>>
  BY DEF InStep, AskStart, gates
<1>2. calls' \in [Threads -> Calls]
  BY <1>1 DEF TypeOK, Calls
<1>3. TypeOK'
  BY <1>1, <1>2, ClientStep DEF TypeOK
<1> QED BY <1>1, <1>3, ClientStep, NothingPosted

LEMMA PostInv == InStep /\ (\E t \in Threads : Post(t)) => InStep'
<1> SUFFICES ASSUME InStep, NEW t \in Threads, Post(t) PROVE InStep'
  OBVIOUS
<1>1. /\ TypeOK /\ calls[t] # NoCall /\ calls' = [calls EXCEPT ![t] = NoCall]
      /\ mails' = Append(mails, calls[t])
      /\ UNCHANGED <<state, pending, interval, later, cmds, air, conns, sco, profiles, powerOff,
                     events, asked, want, failed>>
  BY DEF InStep, Post, switch, stack, gates, ghosts
<1>2. calls[t] \in Requests /\ calls[t] \in Mails
  BY <1>1, MailKinds DEF TypeOK
<1>3. calls' \in [Threads -> Calls] /\ mails' \in Seq(Mails)
  BY <1>1, <1>2 DEF TypeOK, Calls, NoCall
<1>4. TypeOK'
  BY <1>1, <1>3 DEF TypeOK
<1> QED BY <1>1, <1>2, <1>4, RequestPosted

LEMMA TimerFiresInv == InStep /\ (\E timer \in {"fast", "resume"} : TimerFires(timer)) => InStep'
<1> SUFFICES ASSUME InStep, NEW timer, TimerFires(timer) PROVE InStep'
  OBVIOUS
<1>1. /\ TypeOK /\ later' \subseteq later /\ mails' = Append(mails, Starting("normal"))
      /\ UNCHANGED <<state, pending, interval, calls, cmds, air, conns, sco, profiles, powerOff,
                     events, asked, want, failed>>
  BY DEF InStep, TimerFires, switch, stack, gates, ghosts
<1>2. Starting("normal") \in Requests /\ Starting("normal") \in Mails
  BY MailKinds DEF Requests, Intervals
<1>3. mails' \in Seq(Mails)
  BY <1>1, <1>2 DEF TypeOK
<1>4. TypeOK'
  BY <1>1, <1>3 DEF TypeOK
<1> QED BY <1>1, <1>2, <1>4, RequestPosted

LEMMA ProfilesConnectInv == InStep /\ ProfilesConnect => InStep'
<1> SUFFICES ASSUME InStep, ProfilesConnect PROVE InStep'
  OBVIOUS
<1>1. /\ TypeOK /\ "bt" \in Threads /\ Client("bt") /\ Stopping("bt") /\ profiles' = TRUE
      /\ UNCHANGED <<mails, sco, powerOff>>
  BY DEF InStep, ProfilesConnect, Threads
<1>2. TypeOK'
  BY <1>1, ClientStep, StopCall DEF TypeOK
<1> QED BY <1>1, <1>2, ClientStep, NothingPosted

LEMMA ProfilesDoneInv == InStep /\ ProfilesDone => InStep'
<1> SUFFICES ASSUME InStep, ProfilesDone PROVE InStep'
  OBVIOUS
<1>1. /\ TypeOK /\ "bt" \in Threads /\ Client("bt") /\ StartingFast("bt") /\ profiles' = FALSE
      /\ UNCHANGED <<mails, sco, powerOff>>
  BY DEF InStep, ProfilesDone, Threads
<1>2. TypeOK'
  BY <1>1, ClientStep, FastCall DEF TypeOK
<1> QED BY <1>1, <1>2, ClientStep, NothingPosted

LEMMA ScoInv == InStep /\ (ScoConnects \/ ScoDisconnects) => InStep'
<1> SUFFICES ASSUME InStep, ScoConnects \/ ScoDisconnects PROVE InStep'
  OBVIOUS
<1>1. /\ TypeOK /\ "bt" \in Threads /\ Client("bt") /\ sco' \in BOOLEAN
      /\ later' \subseteq {"fast", "resume", "player"}
      /\ UNCHANGED <<mails, calls, profiles, powerOff>>
  BY DEF InStep, TypeOK, ScoConnects, ScoDisconnects, Threads
<1>2. TypeOK'
  BY <1>1, ClientStep DEF TypeOK
<1> QED BY <1>1, <1>2, ClientStep, NothingPosted

LEMMA PlayerStartsInv == InStep /\ PlayerStarts => InStep'
<1> SUFFICES ASSUME InStep, PlayerStarts PROVE InStep'
  OBVIOUS
<1>1. /\ TypeOK /\ later' \subseteq later /\ calls' = [calls EXCEPT !["app"] = Other("stop")]
      /\ UNCHANGED <<state, pending, interval, mails, cmds, air, conns, sco, profiles, powerOff,
                     events, asked, want, failed>>
  BY DEF InStep, PlayerStarts, switch, stack, gates, ghosts
<1>2. calls' \in [Threads -> Calls]
  BY <1>1 DEF TypeOK, Calls
<1>3. TypeOK'
  BY <1>1, <1>2 DEF TypeOK
<1> QED BY <1>1, <1>3, NothingPosted

LEMMA PowersOffInv == InStep /\ PowersOff => InStep'
<1> SUFFICES ASSUME InStep, PowersOff PROVE InStep'
  OBVIOUS
<1>1. /\ TypeOK /\ "app" \in Threads /\ Client("app") /\ powerOff' = TRUE
      /\ UNCHANGED <<mails, calls, later, sco, profiles>>
  BY DEF InStep, PowersOff, Threads, clients
<1>2. TypeOK'
  BY <1>1, ClientStep DEF TypeOK
<1> QED BY <1>1, <1>2, ClientStep, NothingPosted

-----------------------------------------------------------------------------
LEMMA InitInStep == Init => InStep
<1> SUFFICES ASSUME Init PROVE InStep
  OBVIOUS
<1>1. /\ mails = <<Starting("normal")>> /\ Starting("normal") \in Mails
      /\ Starting("normal").fn = "start" /\ NoCall \in Calls
  BY MailKinds DEF Init, Intervals, Calls, NoCall
<1>2. /\ mails \in Seq(Mails) /\ Len(mails) = 1
      /\ \A i \in 1..Len(mails) : mails[i].fn = "start"
  BY <1>1
<1>3. cmds = <<>> /\ cmds \in Seq(Cmds)
  BY DEF Init
<1>4. TypeOK
  <2>1. calls \in [Threads -> Calls] /\ events \in 0..MaxEvents
    BY <1>1, BoundsAssumption DEF Init
  <2>2. {sco, profiles, powerOff, failed} \subseteq BOOLEAN
    BY DEF Init
  <2>3. /\ state = "IDLE" /\ pending = "IDLE" /\ interval = "normal" /\ later = {}
        /\ air = "none" /\ conns = 0 /\ asked = "start" /\ want = "none"
    BY DEF Init
  <2> QED BY <1>2, <1>3, <2>1, <2>2, <2>3 DEF TypeOK, Intervals
<1>5. Answers = {}
  BY <1>2 DEF Answers
<1>6. OneUnderWay /\ AirKnown /\ ConnectionInOrder /\ OneConnection
  BY <1>2, <1>3, <1>5 DEF Init, OneUnderWay, AirKnown, ConnectionInOrder, OneConnection
<1> QED BY <1>4, <1>6 DEF InStep

LEMMA NextInStep == AnswersLateCancel /\ InStep /\ [Next]_vars => InStep'
<1> SUFFICES ASSUME AnswersLateCancel, InStep, [Next]_vars PROVE InStep'
  OBVIOUS
<1>1. CASE HandleStart \/ HandleStop \/ HandleSwitch \/ HandleFailed \/ HandleConnected
  BY <1>1, HandleStartInv, HandleStopInv, HandleSwitchInv, HandleFailedInv, HandleConnectedInv
<1>2. CASE StackStarts \/ StackRefuses \/ StackCancels
  BY <1>2, StackStartsInv, StackRefusesInv, StackCancelsInv
<1>3. CASE Connection \/ Disconnection
  BY <1>3, ConnectionInv, DisconnectionInv
<1>4. CASE \E t \in Threads : AskStop(t) \/ AskFast(t) \/ AskStart(t) \/ Post(t)
  BY <1>4, AskStopInv, AskFastInv, AskStartInv, PostInv
<1>5. CASE \E timer \in {"fast", "resume"} : TimerFires(timer)
  BY <1>5, TimerFiresInv
<1>6. CASE ProfilesConnect \/ ProfilesDone \/ ScoConnects \/ PlayerStarts \/ ScoDisconnects \/ PowersOff
  BY <1>6, ProfilesConnectInv, ProfilesDoneInv, ScoInv, PlayerStartsInv, PowersOffInv
<1>7. CASE UNCHANGED vars
  <2>1. UNCHANGED <<mails, cmds, air, conns, state>>
    BY <1>7 DEF vars, switch, stack
  <2>2. TypeOK'
    BY <1>7 DEF InStep, TypeOK, vars, switch, clients, stack, gates, ghosts
  <2> QED BY <2>1, <2>2, NothingPosted
<1> QED BY <1>1, <1>2, <1>3, <1>4, <1>5, <1>6, <1>7 DEF Next

\* In every behaviour, however many requests, mails, connections and refusals
\* there are, the stack has at most one command of the switch to carry out or
\* answer, and advertises only in the states in which app_ble_mode_switch.c
\* takes it to, if it answers a cancel that a connection has forestalled.
THEOREM KeepsInStep == AnswersLateCancel => (Spec => []InStep)
<1>1. Init => InStep
  BY InitInStep
<1>2. AnswersLateCancel => (InStep /\ [Next]_vars => InStep')
  BY NextInStep
<1>3. CASE AnswersLateCancel
  <2>1. InStep /\ [Next]_vars => InStep'
    BY <1>2, <1>3
  <2> QED BY <1>1, <2>1, PTL DEF Spec
<1> QED BY <1>3

-----------------------------------------------------------------------------
(* What is settled: requests under way                                       *)

\* A request that is posted is under way; the others still are.
LEMMA ComingPosted ==
  ASSUME mails \in Seq(Mails), NEW m \in Mails, mails' = Append(mails, m), calls' = calls, NEW fns
  PROVE  /\ Coming(fns) => Coming(fns)'
         /\ m.fn \in fns => Coming(fns)'
<1>1. /\ Len(mails) \in Nat /\ Len(mails') = Len(mails) + 1
      /\ \A i \in 1..Len(mails) : mails'[i] = mails[i]
      /\ mails'[Len(mails) + 1] = m
  BY AppendMail
<1>2. /\ \A i \in 1..Len(mails) : i \in 1..Len(mails')
      /\ Len(mails) + 1 \in 1..Len(mails')
  BY <1>1
<1> QED
  BY <1>1, <1>2 DEF Coming

\* A mail that is taken was the only one that is no longer under way.
LEMMA ComingTaken ==
  ASSUME mails \in Seq(Mails), Taken, calls' = calls, NEW fns, mails[1].fn \notin fns, Coming(fns)
  PROVE  Coming(fns)'
<1>1. /\ Len(mails) \in Nat \ {0} /\ Len(mails') \in Nat /\ Len(mails') >= Len(mails) - 1
      /\ \A i \in 1..(Len(mails) - 1) : mails'[i] = mails[i + 1]
  BY TakenMails
<1>2. ASSUME NEW i \in 1..Len(mails), mails[i].fn \in fns PROVE Coming(fns)'
  <2>1. i # 1
    BY <1>2
  <2>2. PICK k \in Nat : k = i - 1 /\ k \in 1..(Len(mails) - 1) /\ k \in 1..Len(mails') /\ k + 1 = i
    BY <1>1, <2>1
  <2>3. mails'[k].fn \in fns
    BY <1>1, <1>2, <2>2
  <2> QED
    BY <2>2, <2>3 DEF Coming
<1> QED
  BY <1>2 DEF Coming

\* A call that begins has a request to post.
LEMMA ComingCalled ==
  ASSUME TypeOK, NEW t \in Threads, calls[t] = NoCall, NEW c, calls' = [calls EXCEPT ![t] = c],
         mails' = mails, NEW fns, "none" \notin fns
  PROVE  /\ Coming(fns) => Coming(fns)'
         /\ c.fn \in fns => Coming(fns)'
<1>1. /\ calls'[t] = c /\ \A u \in Threads : u # t => calls'[u] = calls[u]
      /\ calls[t].fn = "none"
  BY DEF TypeOK, NoCall, Other
<1> QED
  BY <1>1 DEF Coming

\* Posting it only moves it.
LEMMA ComingMoved ==
  ASSUME TypeOK, NEW t \in Threads, Post(t), NEW fns, Coming(fns)
  PROVE  Coming(fns)'
<1>1. /\ mails \in Seq(Mails) /\ calls \in [Threads -> Calls]
      /\ calls[t] # NoCall /\ calls' = [calls EXCEPT ![t] = NoCall] /\ mails' = Append(mails, calls[t])
  BY DEF TypeOK, Post
<1>2. calls[t] \in Mails
  BY <1>1, MailKinds
<1>3. /\ Len(mails) \in Nat /\ Len(mails') = Len(mails) + 1
      /\ \A i \in 1..Len(mails) : mails'[i] = mails[i]
      /\ mails'[Len(mails) + 1] = calls[t]
  BY <1>1, <1>2, AppendMail
<1>4. /\ \A i \in 1..Len(mails) : i \in 1..Len(mails')
      /\ Len(mails) + 1 \in 1..Len(mails')
  BY <1>3
<1>5. \A u \in Threads : u # t => calls'[u] = calls[u]
  BY <1>1
<1>6. ASSUME NEW u \in Threads, calls[u].fn \in fns PROVE Coming(fns)'
  <2>1. CASE u = t
    BY <1>3, <1>4, <1>6, <2>1 DEF Coming
  <2>2. CASE u # t
    BY <1>5, <1>6, <2>2 DEF Coming
  <2> QED
    BY <2>1, <2>2
<1>7. ASSUME NEW i \in 1..Len(mails), mails[i].fn \in fns PROVE Coming(fns)'
  BY <1>3, <1>4, <1>7 DEF Coming
<1> QED
  BY <1>6, <1>7 DEF Coming

-----------------------------------------------------------------------------
(* What is settled: the clients                                              *)

\* The part of SwitchInv that is about what requests come to.
ComesTo == RefusalKnown /\ WantInv /\ QuietInv /\ StartInv

\* Mails that are no refusal tell of none.
LEMMA NoRefusalPosted ==
  ASSUME mails \in Seq(Mails), RefusalKnown, failed' = failed,
         mails' = mails \/ \E m \in Mails : m.fn # "failed" /\ mails' = Append(mails, m)
  PROVE  RefusalKnown'
<1>1. CASE mails' = mails
  BY <1>1 DEF RefusalKnown
<1>2. ASSUME NEW m \in Mails, m.fn # "failed", mails' = Append(mails, m)
      PROVE  RefusalKnown'
  <2>1. /\ Len(mails) \in Nat /\ Len(mails') = Len(mails) + 1
        /\ \A i \in 1..Len(mails) : mails'[i] = mails[i]
        /\ mails'[Len(mails) + 1] = m
    BY <1>2, AppendMail
  <2>2. \A i \in 1..Len(mails') : i \in 1..Len(mails) \/ i = Len(mails) + 1
    BY <2>1
  <2> QED
    BY <1>2, <2>1, <2>2 DEF RefusalKnown
<1> QED
  BY <1>1, <1>2

LEMMA RefusalTaken ==
  ASSUME mails \in Seq(Mails), RefusalKnown, failed' = failed, Taken
  PROVE  RefusalKnown'
<1>1. /\ Len(mails) \in Nat \ {0} /\ Len(mails') \in Nat
      /\ \A i \in 1..(Len(mails) - 1) : mails'[i] = mails[i + 1]
      /\ \A i \in Len(mails)..Len(mails') : mails'[i].fn \in {"start", "stop"}
  BY TakenMails
<1> SUFFICES ASSUME NEW i \in 1..Len(mails'), mails'[i].fn = "failed" PROVE failed
  BY DEF RefusalKnown
<1>2. i \notin Len(mails)..Len(mails')
  BY <1>1
<1>3. i \in 1..(Len(mails) - 1) /\ i + 1 \in 1..Len(mails)
  BY <1>1, <1>2
<1> QED
  BY <1>1, <1>3 DEF RefusalKnown

\* A client, a timer or a call may do what it likes, as long as it stops the
\* advertising before profiles connect, or a call's player starts, and leaves
\* something behind that asks for it again.
LEMMA ClientKeeps ==
  ASSUME TypeOK, ComesTo,
         UNCHANGED <<state, pending, interval, cmds, air, asked, want, failed>>,
         mails' = mails \/ \E m \in Requests : mails' = Append(mails, m),
         profiles' => profiles \/ Coming({"stop"})',
         "player" \in later => "player" \in later' \/ Coming({"stop"})',
         sco' => sco \/ "player" \in later',
         Coming({"stop"}) => Coming({"stop"})',
         WillAsk => WillAsk', powerOff => powerOff'
  PROVE  ComesTo'
<1>1. RefusalKnown'
  <2>1. mails' = mails \/ \E m \in Mails : m.fn # "failed" /\ mails' = Append(mails, m)
    BY MailKinds
  <2> QED
    BY <2>1, NoRefusalPosted DEF ComesTo, TypeOK
<1>2. WantInv'
  BY DEF ComesTo, WantInv
<1>3. QuietInv'
  BY DEF ComesTo, QuietInv
<1>4. StartInv'
  BY DEF ComesTo, StartInv, WillAdvertise
<1> QED
  BY <1>1, <1>2, <1>3, <1>4 DEF ComesTo

\* The same for a call that begins.
LEMMA CallBegins ==
  ASSUME TypeOK, ComesTo, NEW t \in Threads, calls[t] = NoCall,
         UNCHANGED <<state, pending, interval, cmds, air, conns, asked, want, failed, mails, sco, powerOff>>,
         NEW c \in Requests, calls' = [calls EXCEPT ![t] = c],
         profiles' => profiles \/ c.fn = "stop",
         "player" \in later => "player" \in later' \/ c.fn = "stop"
  PROVE  ComesTo'
<1>1. c.fn \in {"start", "stop"}
  BY MailKinds
<1>2. Coming({"start", "stop", "connected"})'
  BY <1>1, ComingCalled
<1>3. /\ Coming({"stop"}) => Coming({"stop"})'
      /\ c.fn = "stop" => Coming({"stop"})'
  BY ComingCalled
<1>4. WillAsk'
  BY <1>2 DEF WillAsk
<1> QED
  BY <1>3, <1>4, ClientKeeps

LEMMA AskComes ==
  ASSUME TypeOK, ComesTo, NEW t \in Threads, AskStop(t) \/ AskFast(t) \/ AskStart(t)
  PROVE  ComesTo'
<1>1. /\ calls[t] = NoCall
      /\ UNCHANGED <<state, pending, interval, cmds, air, conns, asked, want, failed, mails,
                     sco, profiles, powerOff>>
  BY ClientStep DEF AskStop, AskFast, AskStart, Client, gates
<1>2. CASE AskStop(t)
  <2>1. Other("stop") \in Requests /\ Other("stop").fn = "stop"
    BY MailKinds DEF Requests
  <2>2. calls' = [calls EXCEPT ![t] = Other("stop")]
    BY <1>2 DEF AskStop, Stopping
  <2> QED
    BY <1>1, <2>1, <2>2, CallBegins
<1>3. CASE AskFast(t)
  <2>1. Starting("fast") \in Requests
    BY DEF Requests, Intervals
  <2>2. calls' = [calls EXCEPT ![t] = Starting("fast")] /\ later \subseteq later'
    BY <1>3 DEF AskFast, StartingFast
  <2> QED
    BY <1>1, <2>1, <2>2, CallBegins
<1>4. CASE AskStart(t)
  <2>1. PICK i \in Intervals : calls' = [calls EXCEPT ![t] = Starting(i)]
    BY <1>4 DEF AskStart
  <2>2. later' = later /\ Starting(i) \in Requests
    BY <1>4 DEF AskStart, Requests
  <2> QED
    BY <1>1, <2>1, <2>2, CallBegins
<1> QED
  BY <1>2, <1>3, <1>4

LEMMA PostComes ==
  ASSUME TypeOK, ComesTo, NEW t \in Threads, Post(t)
  PROVE  ComesTo'
<1>1. /\ calls[t] # NoCall /\ mails' = Append(mails, calls[t])
      /\ UNCHANGED <<state, pending, interval, later, cmds, air, conns, sco, profiles, powerOff,
                     asked, want, failed>>
  BY DEF Post, switch, stack, gates, ghosts
<1>2. calls[t] \in Requests
  BY <1>1, MailKinds DEF TypeOK
<1>3. Coming({"stop"}) => Coming({"stop"})'
  BY ComingMoved
<1>4. Coming({"start", "stop", "connected"}) => Coming({"start", "stop", "connected"})'
  BY ComingMoved
<1>5. WillAsk => WillAsk'
  BY <1>1, <1>4 DEF WillAsk
<1> QED
  BY <1>1, <1>2, <1>3, <1>5, ClientKeeps

LEMMA TimerComes ==
  ASSUME TypeOK, ComesTo, NEW timer \in {"fast", "resume"}, TimerFires(timer)
  PROVE  ComesTo'
<1>1. /\ later' = later \ {timer} /\ mails' = Append(mails, Starting("normal"))
      /\ UNCHANGED <<state, pending, interval, calls, cmds, air, conns, sco, profiles, powerOff,
                     asked, want, failed>>
  BY DEF TimerFires, switch, stack, gates, ghosts
<1>2. /\ Starting("normal") \in Requests /\ Starting("normal") \in Mails /\ Starting("normal").fn = "start"
      /\ mails \in Seq(Mails)
  BY MailKinds DEF Requests, Intervals, TypeOK
<1>3. Coming({"stop"}) => Coming({"stop"})'
  BY <1>1, <1>2, ComingPosted
<1>4. Coming({"start", "stop", "connected"})'
  BY <1>1, <1>2, ComingPosted
<1>5. WillAsk'
  BY <1>4 DEF WillAsk
<1>6. "player" \in later => "player" \in later'
  BY <1>1
<1> QED
  BY <1>1, <1>2, <1>3, <1>5, <1>6, ClientKeeps

LEMMA ProfilesCome ==
  ASSUME TypeOK, ComesTo, ProfilesConnect \/ ProfilesDone
  PROVE  ComesTo'
<1>1. /\ "bt" \in Threads /\ calls["bt"] = NoCall
      /\ UNCHANGED <<state, pending, interval, cmds, air, conns, asked, want, failed, mails, sco, powerOff>>
  BY DEF ProfilesConnect, ProfilesDone, Client, Threads, switch, stack, ghosts
<1>2. CASE ProfilesConnect
  <2>1. Other("stop") \in Requests /\ Other("stop").fn = "stop"
    BY MailKinds DEF Requests
  <2>2. calls' = [calls EXCEPT !["bt"] = Other("stop")]
    BY <1>2 DEF ProfilesConnect, Stopping
  <2> QED
    BY <1>1, <2>1, <2>2, CallBegins
<1>3. CASE ProfilesDone
  <2>1. Starting("fast") \in Requests
    BY DEF Requests, Intervals
  <2>2. calls' = [calls EXCEPT !["bt"] = Starting("fast")] /\ later \subseteq later' /\ profiles' = FALSE
    BY <1>3 DEF ProfilesDone, StartingFast
  <2> QED
    BY <1>1, <2>1, <2>2, CallBegins
<1> QED
  BY <1>2, <1>3

LEMMA ScoComes ==
  ASSUME TypeOK, ComesTo, ScoConnects \/ ScoDisconnects
  PROVE  ComesTo'
<1>1. /\ UNCHANGED <<state, pending, interval, cmds, air, conns, asked, want, failed, mails,
                     calls, profiles, powerOff>>
      /\ later \subseteq later'
      /\ \/ sco' = TRUE /\ "player" \in later'
         \/ sco' = FALSE /\ "resume" \in later'
  BY DEF ScoConnects, ScoDisconnects, Client, switch, stack, ghosts
<1>2. Coming({"stop"}) => Coming({"stop"})'
  BY <1>1 DEF Coming
<1>3. WillAsk'
  BY <1>1 DEF WillAsk
<1> QED
  BY <1>1, <1>2, <1>3, ClientKeeps

LEMMA PlayerComes ==
  ASSUME TypeOK, ComesTo, PlayerStarts
  PROVE  ComesTo'
<1>1. /\ "app" \in Threads /\ calls["app"] = NoCall /\ calls' = [calls EXCEPT !["app"] = Other("stop")]
      /\ UNCHANGED <<state, pending, interval, cmds, air, conns, asked, want, failed, mails,
                     sco, profiles, powerOff>>
  BY DEF PlayerStarts, Threads, switch, stack, gates, ghosts
<1>2. Other("stop") \in Requests /\ Other("stop").fn = "stop"
  BY MailKinds DEF Requests
<1> QED
  BY <1>1, <1>2, CallBegins

LEMMA StaysAsItIs ==
  ASSUME TypeOK, ComesTo,
         UNCHANGED <<state, pending, interval, cmds, air, conns, asked, want, failed, mails, calls,
                     later, sco, profiles>>,
         powerOff => powerOff'
  PROVE  ComesTo'
<1>1. Coming({"stop"}) => Coming({"stop"})'
  BY DEF Coming
<1>2. WillAsk => WillAsk'
  BY DEF WillAsk, Coming
<1> QED
  BY <1>1, <1>2, ClientKeeps

-----------------------------------------------------------------------------
(* What is settled: the handlers                                             *)

\* What app_start_ble_advertising_handler does: nothing, a restart, to remember
\* the request, or a start.
StartOutcome(s, p, i, w) ==
  \/ /\ sco \/ (s \in {"IDLE", "CONNECTED"} /\ Forbidden)
     /\ state' = s /\ pending' = p /\ interval' = interval /\ cmds' = cmds /\ want' = "any"
  \/ /\ ~sco /\ s = "ADVERTISING"
     /\ state' = "STOPPING_ADV" /\ pending' = "START_ADV" /\ interval' = i /\ want' = w
  \/ /\ ~sco /\ s \in {"STARTING_ADV", "STOPPING_ADV"}
     /\ state' = s /\ pending' = "START_ADV" /\ interval' = i /\ cmds' = cmds /\ want' = w
  \/ /\ ~sco /\ s \in {"IDLE", "CONNECTED"} /\ ~Forbidden
     /\ state' = "STARTING_ADV" /\ pending' = p /\ interval' = i /\ want' = w
     /\ cmds' = cmds \o <<Starting(i)>>

LEMMA StartOutcomes ==
  ASSUME TypeOK, NEW s \in States, NEW p, NEW i, NEW w, StartAdv(s, p, i, w)
  PROVE  StartOutcome(s, p, i, w)
<1>1. cmds \o <<>> = cmds /\ sco \in BOOLEAN
  BY DEF TypeOK
<1>2. CASE sco
  BY <1>1, <1>2 DEF StartAdv, Leave, StartOutcome
<1>3. CASE ~sco /\ s = "ADVERTISING"
  BY <1>1, <1>3 DEF StartAdv, Restart, Leave, StartOutcome
<1>4. CASE ~sco /\ s \in {"STARTING_ADV", "STOPPING_ADV"}
  BY <1>1, <1>4 DEF StartAdv, Leave, StartOutcome
<1>5. CASE ~sco /\ s \in {"IDLE", "CONNECTED"}
  <2>1. CASE Forbidden
    BY <1>1, <1>5, <2>1 DEF StartAdv, Leave, StartOutcome
  <2>2. CASE ~Forbidden
    BY <1>1, <1>5, <2>2 DEF StartAdv, Leave, StartOutcome
  <2> QED
    BY <2>1, <2>2
<1> QED
  BY <1>1, <1>2, <1>3, <1>4, <1>5 DEF States

\* What ble_stop_all_activities_handler does.
StopOutcome(s, p, w) ==
  /\ interval' = interval /\ want' = w
  /\ \/ s = "ADVERTISING" /\ state' = "STOPPING_ADV" /\ pending' = p
     \/ s = "STARTING_ADV" /\ state' = s /\ pending' = "STOP_ADV" /\ cmds' = cmds
     \/ s = "STOPPING_ADV" /\ state' = s /\ pending' = "IDLE" /\ cmds' = cmds
     \/ s \in {"IDLE", "CONNECTED"} /\ state' = s /\ pending' = p /\ cmds' = cmds

LEMMA StopOutcomes ==
  ASSUME TypeOK, NEW s \in States, NEW p, NEW w, StopAdv(s, p, w)
  PROVE  StopOutcome(s, p, w)
<1>1. cmds \o <<>> = cmds
  BY DEF TypeOK
<1>2. CASE s = "ADVERTISING"
  BY <1>2 DEF StopAdv, Leave, StopOutcome
<1>3. CASE s = "STARTING_ADV"
  BY <1>1, <1>3 DEF StopAdv, Leave, StopOutcome
<1>4. CASE s = "STOPPING_ADV"
  BY <1>1, <1>4 DEF StopAdv, Leave, StopOutcome
<1>5. CASE s \in {"IDLE", "CONNECTED"}
  BY <1>1, <1>5 DEF StopAdv, Leave, StopOutcome
<1> QED
  BY <1>2, <1>3, <1>4, <1>5 DEF States

\* Where no command is under way.
LEMMA NothingSent ==
  ASSUME InStep
  PROVE  /\ state \in States /\ pending \in Pendings
         /\ state \in {"IDLE", "CONNECTED", "ADVERTISING"} => cmds = <<>>
         /\ \A c : <<>> \o <<c>> = <<c>> /\ <<c>> # <<>>
BY DEF InStep, TypeOK, OneUnderWay, States, Pendings

\* What every handler leaves as it is: what clients, stack and circumstances
\* make of requests, but for the mail it took.
LEMMA HandlerLeaves ==
  ASSUME TypeOK, NEW fn, Take(fn), Taken
  PROVE  /\ mails[1].fn = fn /\ mails \in Seq(Mails) /\ calls' = calls
         /\ UNCHANGED <<later, air, conns, sco, profiles, powerOff>>
         /\ fn # "stop" => (Coming({"stop"}) => Coming({"stop"})')
         /\ fn \in {"switch", "failed"} => (WillAsk => WillAsk')
<1>1. /\ mails[1].fn = fn /\ mails \in Seq(Mails)
      /\ UNCHANGED <<calls, later, air, conns, sco, profiles, powerOff>>
  BY TakeFirst DEF TypeOK, clients, stack, gates
<1>2. fn # "stop" => (Coming({"stop"}) => Coming({"stop"})')
  BY <1>1, ComingTaken
<1>3. fn \in {"switch", "failed"} =>
        (Coming({"start", "stop", "connected"}) => Coming({"start", "stop", "connected"})')
  BY <1>1, ComingTaken
<1>4. fn \in {"switch", "failed"} => (WillAsk => WillAsk')
  BY <1>1, <1>3 DEF WillAsk
<1> QED
  BY <1>1, <1>2, <1>4

LEMMA HandleStartComes ==
  ASSUME InStep, ComesTo, HandleStart
  PROVE  ComesTo'
<1>1. /\ TypeOK /\ Take("start") /\ Taken /\ failed' = failed /\ asked' = "start"
      /\ StartAdv(state, pending, mails[1].interval, mails[1].interval)
  BY TakeFirst DEF InStep, HandleStart, Taken
<1>2. PICK i \in Intervals : i = mails[1].interval
  BY <1>1, TakeFirst, MailKinds
<1>3. state \in States /\ pending \in Pendings
  BY NothingSent
<1>4. StartOutcome(state, pending, i, i)
  BY <1>1, <1>2, <1>3, StartOutcomes
<1>5. /\ mails[1].fn = "start" /\ mails \in Seq(Mails)
      /\ UNCHANGED <<later, air, conns, sco, profiles>>
      /\ Coming({"stop"}) => Coming({"stop"})'
  BY <1>1, HandlerLeaves
<1>6. RefusalKnown'
  BY <1>1, <1>5, RefusalTaken DEF ComesTo
<1>7. RefusalKnown /\ WantInv /\ QuietInv /\ StartInv
  BY DEF ComesTo
<1>8. CASE /\ sco \/ (state \in {"IDLE", "CONNECTED"} /\ Forbidden)
           /\ UNCHANGED <<state, pending, interval, cmds>> /\ want' = "any"
  <2>1. WantInv'
    BY <1>1, <1>7, <1>8 DEF WantInv
  <2>2. QuietInv'
    BY <1>5, <1>7, <1>8 DEF QuietInv
  <2>3. sco \/ profiles \/ conns > 0
    BY <1>1, <1>8 DEF Forbidden, TypeOK
  <2>4. StartInv'
    BY <1>5, <2>3 DEF StartInv, WillAsk
  <2> QED
    BY <1>6, <2>1, <2>2, <2>4 DEF ComesTo
<1>9. CASE /\ ~sco /\ pending' = "START_ADV" /\ interval' = i /\ want' = i
           /\ state' \in {"STARTING_ADV", "STOPPING_ADV"}
  <2>1. WantInv' /\ QuietInv' /\ StartInv'
    BY <1>5, <1>9 DEF WantInv, QuietInv, StartInv, WillAdvertise
  <2> QED
    BY <1>6, <2>1 DEF ComesTo
<1>10. CASE /\ state \in {"IDLE", "CONNECTED"} /\ ~Forbidden
            /\ state' = "STARTING_ADV" /\ pending' = pending /\ want' = i
            /\ cmds' = cmds \o <<Starting(i)>>
  <2>1. cmds' = <<Starting(i)>> /\ cmds' # <<>>
    BY <1>10, NothingSent
  <2>2. ~failed => pending = "IDLE"
    BY <1>3, <1>7, <1>10 DEF WantInv, Pendings
  <2>3. WantInv'
    BY <1>1, <1>10, <2>1, <2>2 DEF WantInv
  <2>4. QuietInv'
    BY <1>5, <1>10 DEF QuietInv, Forbidden
  <2>5. StartInv'
    BY <1>1, <1>10, <2>1, <2>2 DEF StartInv, WillAdvertise
  <2> QED
    BY <1>6, <2>3, <2>4, <2>5 DEF ComesTo
<1> QED
  BY <1>4, <1>8, <1>9, <1>10 DEF StartOutcome

LEMMA HandleStopComes ==
  ASSUME InStep, ComesTo, HandleStop
  PROVE  ComesTo'
<1>1. /\ TypeOK /\ Take("stop") /\ Taken /\ failed' = failed /\ asked' = "stop"
      /\ StopAdv(state, pending, "none")
  BY DEF InStep, HandleStop, Taken, Take
<1>2. state \in States /\ pending \in Pendings
  BY NothingSent
<1>3. StopOutcome(state, pending, "none")
  BY <1>1, <1>2, StopOutcomes
<1>4. mails[1].fn = "stop" /\ mails \in Seq(Mails)
  BY <1>1, HandlerLeaves
<1>5. RefusalKnown'
  BY <1>1, <1>4, RefusalTaken DEF ComesTo
<1>6. ~failed /\ state # "STARTING_ADV" => pending = "IDLE" \/ state = "STOPPING_ADV"
  BY <1>2 DEF ComesTo, WantInv, Pendings
<1>7. WantInv'
  BY <1>1, <1>3, <1>6 DEF StopOutcome, WantInv
<1>8. QuietInv'
  BY <1>3 DEF StopOutcome, QuietInv
<1>9. StartInv'
  BY <1>1 DEF StartInv
<1> QED
  BY <1>5, <1>7, <1>8, <1>9 DEF ComesTo

\* The stack has answered: what was put off is carried out.
LEMMA HandleSwitchComes ==
  ASSUME InStep, ComesTo, HandleSwitch
  PROVE  ComesTo'
<1>1. /\ TypeOK /\ Take("switch") /\ Taken /\ mails' = Tail(mails) /\ mails # <<>>
      /\ UNCHANGED <<asked, failed>> /\ SwitchActivities
  BY DEF InStep, HandleSwitch, Taken, Take
<1>2. /\ mails[1].fn = "switch" /\ mails \in Seq(Mails)
      /\ UNCHANGED <<later, air, conns, sco, profiles, powerOff>>
      /\ Coming({"stop"}) => Coming({"stop"})'
      /\ WillAsk => WillAsk'
  BY <1>1, HandlerLeaves
<1>3. state \in {"STARTING_ADV", "STOPPING_ADV"} /\ cmds = <<>>
  BY <1>1, <1>2, AnswerFirst DEF IsAnswer
<1>4. /\ state \in States /\ pending \in Pendings /\ interval \in Intervals
      /\ "ADVERTISING" \in States /\ "IDLE" \in States /\ cmds \o <<>> = cmds
      /\ conns > 0 \/ conns = 0
  BY <1>1, NothingSent DEF TypeOK, States
<1>5. RefusalKnown'
  BY <1>1, <1>2, RefusalTaken DEF ComesTo
<1>6. RefusalKnown /\ WantInv /\ QuietInv /\ StartInv
  BY DEF ComesTo
<1>7. ASSUME sco \/ Forbidden, state' = "IDLE" \/ (state' = "ADVERTISING" /\ state = "STARTING_ADV" /\ sco),
             pending = "START_ADV", pending' = "IDLE", want' = "any"
      PROVE  ComesTo'
  <2>1. WantInv'
    BY <1>7 DEF WantInv
  <2>2. QuietInv'
    BY <1>2, <1>3, <1>6, <1>7 DEF QuietInv
  <2>3. sco \/ profiles \/ conns > 0
    BY <1>4, <1>7 DEF Forbidden
  <2>4. StartInv'
    BY <1>2, <2>3 DEF StartInv, WillAsk
  <2> QED
    BY <1>5, <2>1, <2>2, <2>4 DEF ComesTo
<1>8. pending = "START_ADV" /\ ~failed => want \in {"any", interval}
  BY <1>6 DEF WantInv
<1>9. CASE state = "STARTING_ADV"
  <2>1. RunPending("ADVERTISING")
    BY <1>1, <1>9 DEF SwitchActivities
  <2>2. CASE pending = "START_ADV"
    <3>1. StartOutcome("ADVERTISING", "IDLE", interval, want)
      BY <1>1, <1>4, <2>1, <2>2, StartOutcomes DEF RunPending
    <3>2. CASE sco /\ state' = "ADVERTISING" /\ pending' = "IDLE" /\ want' = "any"
      BY <1>7, <1>9, <2>2, <3>2
    <3>3. CASE /\ ~sco /\ state' = "STOPPING_ADV" /\ pending' = "START_ADV"
               /\ interval' = interval /\ want' = want
      <4>1. WantInv' /\ QuietInv' /\ StartInv'
        BY <1>1, <1>8, <2>2, <3>3 DEF WantInv, QuietInv, StartInv, WillAdvertise
      <4> QED
        BY <1>5, <4>1 DEF ComesTo
    <3> QED
      BY <3>1, <3>2, <3>3 DEF StartOutcome
  <2>3. CASE pending = "STOP_ADV"
    <3>1. StopOutcome("ADVERTISING", "IDLE", want)
      BY <1>1, <1>4, <2>1, <2>3, StopOutcomes DEF RunPending
    <3>2. state' = "STOPPING_ADV" /\ pending' = "IDLE" /\ want' = want
      BY <3>1 DEF StopOutcome
    <3>3. WantInv' /\ QuietInv'
      BY <1>1, <1>6, <2>3, <3>2 DEF WantInv, QuietInv
    <3>4. StartInv'
      BY <1>1, <1>2, <1>6, <1>9, <2>3 DEF StartInv, WillAdvertise
    <3> QED
      BY <1>5, <3>3, <3>4 DEF ComesTo
  <2>4. CASE pending = "IDLE"
    <3>1. state' = "ADVERTISING" /\ pending' = "IDLE" /\ want' = want /\ cmds' = <<>>
      BY <1>3, <1>4, <2>1, <2>4 DEF RunPending, Leave
    <3>2. WantInv'
      BY <1>1, <1>2, <1>3, <1>6, <1>9, <2>4, <3>1 DEF WantInv
    <3>3. QuietInv'
      BY <1>2, <1>6, <1>9, <2>4 DEF QuietInv
    <3>4. StartInv'
      BY <1>1, <1>2, <1>3, <1>6, <1>9, <2>4, <3>1 DEF StartInv, WillAdvertise
    <3> QED
      BY <1>5, <3>2, <3>3, <3>4 DEF ComesTo
  <2> QED
    BY <1>4, <2>2, <2>3, <2>4 DEF Pendings
<1>10. CASE state = "STOPPING_ADV"
  <2>1. RunPending("IDLE")
    BY <1>1, <1>10 DEF SwitchActivities
  <2>2. CASE pending = "START_ADV"
    <3>1. StartOutcome("IDLE", "IDLE", interval, want)
      BY <1>1, <1>4, <2>1, <2>2, StartOutcomes DEF RunPending
    <3>2. CASE (sco \/ Forbidden) /\ state' = "IDLE" /\ pending' = "IDLE" /\ want' = "any"
      BY <1>7, <2>2, <3>2
    <3>3. CASE /\ ~Forbidden /\ state' = "STARTING_ADV" /\ pending' = "IDLE"
               /\ want' = want /\ cmds' = cmds \o <<Starting(interval)>>
      <4>1. cmds' = <<Starting(interval)>> /\ cmds' # <<>>
        BY <1>3, <3>3, NothingSent
      <4>2. WantInv'
        BY <1>1, <1>4, <1>8, <2>2, <3>3, <4>1 DEF WantInv
      <4>3. QuietInv' /\ StartInv'
        BY <1>2, <3>3, <4>1 DEF QuietInv, StartInv, WillAdvertise, Forbidden
      <4> QED
        BY <1>5, <4>2, <4>3 DEF ComesTo
    <3> QED
      BY <3>1, <3>2, <3>3 DEF StartOutcome
  <2>3. CASE pending \in {"STOP_ADV", "IDLE"}
    <3>1. state' = "IDLE" /\ pending' = "IDLE" /\ want' = want
      <4>1. CASE pending = "STOP_ADV"
        BY <2>1, <4>1 DEF RunPending, StopAdv, Leave
      <4>2. CASE pending = "IDLE"
        BY <2>1, <4>2 DEF RunPending, Leave
      <4> QED
        BY <2>3, <4>1, <4>2
    <3>2. WantInv' /\ QuietInv'
      BY <1>1, <1>6, <1>10, <2>3, <3>1 DEF WantInv, QuietInv
    <3>3. StartInv'
      BY <1>1, <1>2, <1>6, <1>10, <2>3 DEF StartInv, WillAdvertise
    <3> QED
      BY <1>5, <3>2, <3>3 DEF ComesTo
  <2> QED
    BY <1>4, <2>2, <2>3 DEF Pendings
<1> QED
  BY <1>3, <1>9, <1>10

LEMMA HandleFailedComes ==
  ASSUME InStep, ComesTo, HandleFailed
  PROVE  ComesTo'
<1>1. /\ TypeOK /\ Take("failed") /\ Taken /\ failed' = failed
      /\ state' = IF state = "STARTING_ADV" THEN "IDLE" ELSE state
  BY DEF InStep, HandleFailed, Taken, Take, Leave
<1>2. /\ mails[1].fn = "failed" /\ mails \in Seq(Mails) /\ 1 \in 1..Len(mails)
  BY <1>1, HandlerLeaves, TakeFirst
<1>3. failed
  BY <1>2 DEF ComesTo, RefusalKnown
<1>4. state = "STARTING_ADV"
  BY <1>2 DEF InStep, AirKnown
<1>5. RefusalKnown'
  BY <1>1, <1>2, RefusalTaken DEF ComesTo
<1> QED
  BY <1>1, <1>3, <1>4, <1>5 DEF ComesTo, WantInv, QuietInv, StartInv

\* The start that follows a connection, or its end, is under way.
LEMMA StartComing ==
  ASSUME NEW rest \in Seq(Mails), PostStart(rest), ~powerOff
  PROVE  Coming({"start", "stop", "connected"})'
<1>1. /\ mails' = Append(rest, Starting("normal")) /\ Len(rest) \in Nat
      /\ Starting("normal").fn = "start"
  BY DEF PostStart, Starting
<1>2. /\ Len(rest) + 1 \in 1..Len(mails') /\ mails'[Len(rest) + 1] = Starting("normal")
  BY <1>1
<1> QED
  BY <1>1, <1>2 DEF Coming

LEMMA HandleConnectedComes ==
  ASSUME InStep, ComesTo, HandleConnected
  PROVE  ComesTo'
<1>1. /\ TypeOK /\ Take("connected") /\ PostStart(Tail(mails)) /\ UNCHANGED <<asked, failed>>
      /\ mails # <<>>
      /\ state' = IF state = "ADVERTISING" THEN "CONNECTED" ELSE state
      /\ pending' = pending /\ interval' = interval /\ cmds' = cmds \o <<>> /\ want' = want
  BY DEF InStep, HandleConnected, Take, Leave
<1>2. Taken
  <2>1. Starting("normal") \in Requests
    BY DEF Requests, Intervals
  <2>2. mails' = Tail(mails) \/ mails' = Append(Tail(mails), Starting("normal"))
    BY <1>1 DEF PostStart
  <2> QED
    BY <1>1, <2>1, <2>2 DEF Taken
<1>3. /\ mails[1].fn = "connected" /\ mails \in Seq(Mails) /\ 1 \in 1..Len(mails)
      /\ Tail(mails) \in Seq(Mails) /\ powerOff' = powerOff
  BY <1>1, <1>2, HandlerLeaves, TakeFirst, TakeMail
<1>4. air = "none" /\ state \in {"ADVERTISING", "STOPPING_ADV"}
  BY <1>3 DEF InStep, ConnectionInOrder
<1>5. RefusalKnown'
  BY <1>1, <1>2, <1>3, RefusalTaken DEF ComesTo
<1>6. WantInv'
  <2>1. CASE state = "ADVERTISING"
    <3>1. ~failed => want = "any" /\ pending \notin {"STOP_ADV", "START_ADV"}
      BY <1>4, <2>1 DEF ComesTo, WantInv, Intervals
    <3> QED
      BY <1>1, <3>1 DEF WantInv
  <2>2. CASE state = "STOPPING_ADV"
    BY <1>1, <2>2 DEF ComesTo, WantInv
  <2> QED
    BY <1>4, <2>1, <2>2
<1>7. QuietInv'
  BY <1>1, <1>4 DEF QuietInv
<1>8. StartInv'
  BY <1>1, <1>3, StartComing DEF StartInv, WillAsk
<1> QED
  BY <1>5, <1>6, <1>7, <1>8 DEF ComesTo

-----------------------------------------------------------------------------
(* What is settled: the stack and its peers                                  *)

\* What an answer, or news of a connection, leaves as it was.
LEMMA NewsLeaves ==
  ASSUME TypeOK, NEW f \in {"switch", "failed", "connected"}, mails' = Append(mails, Other(f)),
         UNCHANGED <<calls, conns, sco, profiles>>, later' = later
  PROVE  /\ Coming({"stop"}) => Coming({"stop"})'
         /\ WillAsk => WillAsk'
<1>1. mails \in Seq(Mails) /\ Other(f) \in Mails
  BY MailKinds DEF TypeOK
<1>2. /\ Coming({"stop"}) => Coming({"stop"})'
      /\ Coming({"start", "stop", "connected"}) => Coming({"start", "stop", "connected"})'
  BY <1>1, ComingPosted
<1> QED
  BY <1>2 DEF WillAsk

LEMMA StackStartsComes ==
  ASSUME InStep, ComesTo, StackStarts
  PROVE  ComesTo'
<1>1. /\ TypeOK /\ StackStep("start") /\ mails' = Append(mails, Other("switch"))
      /\ air' = Head(cmds).interval /\ UNCHANGED <<asked, want, failed>>
  BY DEF InStep, StackStarts, Answer, ghosts
<1>2. /\ UNCHANGED <<state, pending, interval, calls, later, conns, sco, profiles, powerOff>>
      /\ cmds \in Seq(Cmds) /\ cmds' = Tail(cmds)
  BY <1>1 DEF StackStep, switch, clients, gates, TypeOK
<1>3. Len(cmds) = 1 /\ state = "STARTING_ADV" /\ Head(cmds).interval \in Intervals
  BY <1>1, StackCommand
<1>4. cmds # <<>> /\ cmds' = <<>>
  BY <1>2, <1>3
<1>5. air' # "none"
  BY <1>1, <1>3 DEF Intervals
<1>6. \A i \in Intervals : cmds = <<Starting(i)>> => air' = i
  BY <1>1, MailKinds
<1>7. /\ Coming({"stop"}) => Coming({"stop"})'
      /\ WillAsk => WillAsk'
  BY <1>1, <1>2, NewsLeaves
<1>8. RefusalKnown'
  <2>1. Other("switch") \in Mails /\ Other("switch").fn # "failed" /\ mails \in Seq(Mails)
    BY <1>1, MailKinds DEF TypeOK
  <2> QED
    BY <1>1, <2>1, NoRefusalPosted DEF ComesTo
<1>9. WantInv'
  BY <1>1, <1>2, <1>4, <1>6 DEF ComesTo, WantInv
<1>10. QuietInv'
  BY <1>2, <1>7 DEF ComesTo, QuietInv
<1>11. StartInv'
  BY <1>1, <1>2, <1>5, <1>7 DEF ComesTo, StartInv, WillAdvertise
<1> QED
  BY <1>8, <1>9, <1>10, <1>11 DEF ComesTo

LEMMA StackRefusesComes ==
  ASSUME InStep, ComesTo, StackRefuses
  PROVE  ComesTo'
<1>1. /\ TypeOK /\ failed' = TRUE /\ mails' = Append(mails, Other("failed"))
      /\ UNCHANGED <<state, pending, interval, calls, later, conns, sco, profiles, powerOff>>
  BY DEF InStep, StackRefuses, StackStep, Answer, switch, clients, gates
<1>2. Coming({"stop"}) => Coming({"stop"})'
  BY <1>1, NewsLeaves
<1>3. QuietInv'
  BY <1>1, <1>2 DEF ComesTo, QuietInv
<1> QED
  BY <1>1, <1>3 DEF ComesTo, RefusalKnown, WantInv, StartInv

LEMMA StackCancelsComes ==
  ASSUME AnswersLateCancel, InStep, ComesTo, StackCancels
  PROVE  ComesTo'
<1>1. /\ TypeOK /\ StackStep("stop") /\ mails' = Append(mails, Other("switch"))
      /\ UNCHANGED <<asked, want, failed>>
  BY DEF InStep, StackCancels, Answer, ghosts
<1>2. UNCHANGED <<state, pending, interval, calls, later, conns, sco, profiles, powerOff>>
  BY <1>1 DEF StackStep, switch, clients, gates
<1>3. state = "STOPPING_ADV"
  BY <1>1, StackCommand
<1>4. WillAsk => WillAsk'
  BY <1>1, <1>2, NewsLeaves
<1>5. RefusalKnown'
  <2>1. Other("switch") \in Mails /\ Other("switch").fn # "failed" /\ mails \in Seq(Mails)
    BY <1>1, MailKinds DEF TypeOK
  <2> QED
    BY <1>1, <2>1, NoRefusalPosted DEF ComesTo
<1>6. WantInv' /\ QuietInv'
  BY <1>1, <1>2, <1>3 DEF ComesTo, WantInv, QuietInv
<1>7. StartInv'
  BY <1>1, <1>2, <1>3, <1>4 DEF ComesTo, StartInv, WillAdvertise
<1> QED
  BY <1>5, <1>6, <1>7 DEF ComesTo

LEMMA ConnectionComes ==
  ASSUME InStep, ComesTo, Connection
  PROVE  ComesTo'
<1>1. /\ TypeOK /\ conns' = conns + 1 /\ later' = later \ {"fast"} /\ want' = "any"
      /\ mails' = Append(mails, Other("connected"))
      /\ UNCHANGED <<state, pending, interval, calls, sco, profiles, powerOff, asked, failed>>
  BY DEF InStep, Connection, switch, gates
<1>2. mails \in Seq(Mails) /\ Other("connected") \in Mails /\ Other("connected").fn # "failed"
  BY <1>1, MailKinds DEF TypeOK
<1>3. RefusalKnown'
  BY <1>1, <1>2, NoRefusalPosted DEF ComesTo
<1>4. Coming({"stop"}) => Coming({"stop"})'
  BY <1>1, <1>2, ComingPosted
<1>5. conns' > 0
  BY <1>1 DEF TypeOK
<1>6. WantInv'
  BY <1>1 DEF ComesTo, WantInv
<1>7. QuietInv'
  BY <1>1, <1>4 DEF ComesTo, QuietInv
<1>8. StartInv'
  BY <1>5 DEF StartInv, WillAsk
<1> QED
  BY <1>3, <1>6, <1>7, <1>8 DEF ComesTo

LEMMA DisconnectionComes ==
  ASSUME InStep, ComesTo, Disconnection
  PROVE  ComesTo'
<1>1. /\ TypeOK /\ mails \in Seq(Mails) /\ PostStart(mails)
      /\ state' = IF state = "CONNECTED" THEN "IDLE" ELSE state
      /\ UNCHANGED <<pending, interval, calls, later, cmds, air, sco, profiles, powerOff, asked, want, failed>>
  BY DEF InStep, TypeOK, Disconnection, clients, gates, ghosts
<1>2. /\ Starting("normal") \in Mails /\ Starting("normal").fn # "failed"
  BY MailKinds DEF Intervals
<1>3. mails' = mails \/ mails' = Append(mails, Starting("normal"))
  BY <1>1 DEF PostStart
<1>4. RefusalKnown'
  BY <1>1, <1>2, <1>3, NoRefusalPosted DEF ComesTo
<1>5. Coming({"stop"}) => Coming({"stop"})'
  <2>1. CASE mails' = mails
    BY <1>1, <2>1 DEF Coming
  <2>2. CASE mails' = Append(mails, Starting("normal"))
    BY <1>1, <1>2, <2>2, ComingPosted
  <2> QED
    BY <1>3, <2>1, <2>2
<1>6. WantInv'
  <2>1. CASE state = "CONNECTED"
    BY <1>1, <2>1 DEF ComesTo, WantInv
  <2>2. CASE state # "CONNECTED"
    BY <1>1, <2>2 DEF ComesTo, WantInv
  <2> QED
    BY <2>1, <2>2
<1>7. QuietInv'
  BY <1>1, <1>5 DEF ComesTo, QuietInv
<1>8. StartInv'
  BY <1>1, StartComing DEF StartInv, WillAsk
<1> QED
  BY <1>4, <1>6, <1>7, <1>8 DEF ComesTo

LEMMA PowersOffComes ==
  ASSUME TypeOK, ComesTo, PowersOff
  PROVE  ComesTo'
<1>1. /\ UNCHANGED <<state, pending, interval, cmds, air, conns, asked, want, failed, mails, calls,
                     later, sco, profiles>>
      /\ powerOff' = TRUE
  BY DEF PowersOff, Client, switch, stack, clients, ghosts
<1> QED
  BY <1>1, StaysAsItIs

-----------------------------------------------------------------------------
LEMMA InitComes == Init => ComesTo
<1> SUFFICES ASSUME Init PROVE ComesTo
  OBVIOUS
<1>1. mails = <<Starting("normal")>> /\ Starting("normal").fn = "start"
  BY DEF Init, Starting
<1>2. Len(mails) = 1 /\ mails[1].fn = "start" /\ 1 \in 1..Len(mails)
      /\ \A i \in 1..Len(mails) : i = 1
  BY <1>1
<1>3. RefusalKnown
  BY <1>2 DEF RefusalKnown
<1>4. WantInv /\ QuietInv
  BY DEF Init, WantInv, QuietInv
<1>5. StartInv
  BY <1>2 DEF StartInv, WillAsk, Coming
<1> QED
  BY <1>3, <1>4, <1>5 DEF ComesTo

LEMMA NextComes ==
  ASSUME AnswersLateCancel, InStep, ComesTo, [Next]_vars
  PROVE  ComesTo'
<1>1. TypeOK
  BY DEF InStep
<1>2. CASE HandleStart \/ HandleStop \/ HandleSwitch \/ HandleFailed \/ HandleConnected
  BY <1>2, HandleStartComes, HandleStopComes, HandleSwitchComes, HandleFailedComes, HandleConnectedComes
<1>3. CASE StackStarts \/ StackRefuses \/ StackCancels
  BY <1>3, StackStartsComes, StackRefusesComes, StackCancelsComes
<1>4. CASE Connection \/ Disconnection
  BY <1>4, ConnectionComes, DisconnectionComes
<1>5. CASE \E t \in Threads : AskStop(t) \/ AskFast(t) \/ AskStart(t) \/ Post(t)
  BY <1>1, <1>5, AskComes, PostComes
<1>6. CASE \E timer \in {"fast", "resume"} : TimerFires(timer)
  BY <1>1, <1>6, TimerComes
<1>7. CASE ProfilesConnect \/ ProfilesDone \/ ScoConnects \/ PlayerStarts \/ ScoDisconnects \/ PowersOff
  BY <1>1, <1>7, ProfilesCome, ScoComes, PlayerComes, PowersOffComes
<1>8. CASE UNCHANGED vars
  <2>1. UNCHANGED <<state, pending, interval, cmds, air, conns, asked, want, failed, mails, calls,
                    later, sco, profiles, powerOff>>
    BY <1>8 DEF vars, switch, clients, stack, gates, ghosts
  <2> QED
    BY <1>1, <2>1, StaysAsItIs
<1> QED
  BY <1>2, <1>3, <1>4, <1>5, <1>6, <1>7, <1>8 DEF Next

\* In every behaviour what was last asked of app_ble_mode_switch.c, the state
\* and the pending operation agree on what the switch will come to.
THEOREM SwitchInvariant == AnswersLateCancel => (Spec => []SwitchInv)
<1>1. Init => SwitchInv
  BY InitInStep, InitComes DEF SwitchInv, ComesTo
<1>2. CASE AnswersLateCancel
  <2>1. SwitchInv /\ [Next]_vars => SwitchInv'
    <3> SUFFICES ASSUME SwitchInv, [Next]_vars PROVE SwitchInv'
      OBVIOUS
    <3>1. InStep /\ ComesTo
      BY DEF SwitchInv, ComesTo
    <3>2. InStep'
      BY <1>2, <3>1, NextInStep
    <3>3. ComesTo'
      BY <1>2, <3>1, NextComes
    <3> QED
      BY <3>2, <3>3 DEF SwitchInv, ComesTo
  <2> QED
    BY <1>1, <2>1, PTL DEF Spec
<1> QED
  BY <1>2

\* When everything is done, nothing is under way and no request comes.
LEMMA NothingComes ==
  ASSUME SwitchInv, Settled
  PROVE  /\ state \in {"IDLE", "ADVERTISING", "CONNECTED"}
         /\ ~failed => pending = "IDLE"
         /\ air # "none" => state = "ADVERTISING"
         /\ \A fns : "none" \notin fns => ~Coming(fns)
<1>1. TypeOK /\ OneUnderWay /\ AirKnown /\ WantInv
  BY DEF SwitchInv, InStep
<1>2. /\ cmds = <<>> /\ \A i \in 1..Len(mails) : FALSE
      /\ \A t \in Threads : calls[t].fn = "none"
  BY DEF Settled, NoCall, Other
<1>3. \A c : <<>> # <<c>>
  OBVIOUS
<1>4. ~UnderWay
  BY <1>2, <1>3 DEF UnderWay
<1>5. state \in {"IDLE", "ADVERTISING", "CONNECTED"}
  BY <1>1, <1>4 DEF OneUnderWay, TypeOK
<1>6. ~failed => pending = "IDLE"
  BY <1>1, <1>5 DEF WantInv, TypeOK
<1>7. air # "none" => state = "ADVERTISING"
  BY <1>1, <1>5 DEF AirKnown
<1>8. \A fns : "none" \notin fns => ~Coming(fns)
  BY <1>2 DEF Coming
<1> QED
  BY <1>5, <1>6, <1>7, <1>8

\* In every behaviour, when all requests are dealt with the stack does what the
\* last of them said, though it came while an earlier one was being carried out
\* and took a third's place in pendingBLEOperation; unless the stack refused.
THEOREM LastRequestIsMet == AnswersLateCancel => (Spec => []LastRequestWins)
<1>1. SwitchInv => LastRequestWins
  <2> SUFFICES ASSUME SwitchInv, Settled, ~failed, want # "any" PROVE air = want
    BY DEF LastRequestWins
  <2>1. /\ state \in {"IDLE", "ADVERTISING", "CONNECTED"} /\ pending = "IDLE"
        /\ air # "none" => state = "ADVERTISING"
    BY NothingComes
  <2>2. cmds = <<>> /\ \A c : <<>> # <<c>>
    BY DEF Settled
  <2>3. CASE state \in {"IDLE", "CONNECTED", "STOPPING_ADV"} /\ want = "none"
    BY <2>1, <2>3
  <2>4. CASE state \in {"STARTING_ADV", "ADVERTISING"} /\ cmds = <<>> /\ air = want
    BY <2>4
  <2> QED
    BY <2>1, <2>2, <2>3, <2>4 DEF SwitchInv, WantInv
<1>2. CASE AnswersLateCancel
  <2>1. Spec => []SwitchInv
    BY <1>2, SwitchInvariant
  <2> QED
    BY <1>1, <2>1, PTL
<1> QED
  BY <1>2

\* In every behaviour, while app_bt.c connects profiles and every request is
\* dealt with, the stack does not advertise.
THEOREM ProfilesHaveTheAir == AnswersLateCancel => (Spec => []QuietForProfiles)
<1>1. SwitchInv => QuietForProfiles
  <2> SUFFICES ASSUME SwitchInv, Settled, profiles, "player" \notin later PROVE air = "none"
    BY DEF QuietForProfiles
  <2>1. /\ state \in {"IDLE", "ADVERTISING", "CONNECTED"}
        /\ air # "none" => state = "ADVERTISING"
        /\ ~Coming({"stop"})
    BY NothingComes
  <2> QED
    BY <2>1 DEF SwitchInv, QuietInv
<1>2. CASE AnswersLateCancel
  <2>1. Spec => []SwitchInv
    BY <1>2, SwitchInvariant
  <2> QED
    BY <1>1, <2>1, PTL
<1> QED
  BY <1>2

\* In every behaviour a device that is not to be silent is on the air when no
\* call, profile or connection keeps it from it and no request is left.
THEOREM StaysDiscoverable == AnswersLateCancel => (Spec => []Discoverable)
<1>1. SwitchInv => Discoverable
  <2> SUFFICES ASSUME SwitchInv, Settled, asked = "start", later = {}, conns = 0,
                      ~sco, ~profiles, ~powerOff, ~failed
               PROVE  air # "none"
    BY DEF Discoverable
  <2>1. /\ state \in {"IDLE", "ADVERTISING", "CONNECTED"}
        /\ ~Coming({"start", "stop", "connected"})
    BY NothingComes
  <2>2. ~WillAsk
    BY <2>1 DEF WillAsk
  <2> QED
    BY <2>1, <2>2 DEF SwitchInv, StartInv, WillAdvertise
<1>2. CASE AnswersLateCancel
  <2>1. Spec => []SwitchInv
    BY <1>2, SwitchInvariant
  <2> QED
    BY <1>1, <2>1, PTL
<1> QED
  BY <1>2
=============================================================================
