---------------------------- MODULE BleModeSwitch ----------------------------
(***************************************************************************)
(* services/ble_app/app_main/app_ble_mode_switch.c: BLE advertising, asked  *)
(* for by several threads, switched on and off by the Bluetooth thread, one *)
(* mail at a time, and carried out by the BLE stack, which answers later.   *)
(* The stack is a binary: it is modelled by how app.c and app_task.c use    *)
(* it.  Scanning and connecting have no callers in this build.              *)
(* An operator whose name begins with Bug is a wrong variant of the one     *)
(* that follows it; only the sensitivity runs use it.                       *)
(***************************************************************************)
EXTENDS Integers, Sequences

CONSTANTS
  AnswersLateCancel,  \* the stack answers a cancel that a connection forestalled
  MaxEvents,          \* bound on what clients, peers and calls do
  MaxMails            \* bound on the mails that wait when a client asks

ASSUME BoundsAssumption ==
  AnswersLateCancel \in BOOLEAN /\ MaxEvents \in Nat /\ MaxMails \in Nat

Intervals == {"fast", "normal"}   \* BLE_FAST_ADVERTISING_INTERVAL and BLE_ADVERTISING_INTERVAL
Threads == {"bt", "app"}

Starting(i) == [fn |-> "start", interval |-> i]
Other(fn) == [fn |-> fn, interval |-> "normal"]
Mails == {Starting(i) : i \in Intervals}
         \cup {Other(fn) : fn \in {"stop", "switch", "failed", "connected"}}
Calls == {Starting(i) : i \in Intervals} \cup {Other("stop"), Other("none")}
NoCall == Other("none")

Cancel == Other("stop")
Cmds == {Starting(i) : i \in Intervals} \cup {Cancel}

VARIABLES
  state,     \* bleModeEnv.state
  pending,   \* pendingBLEOperation
  interval,  \* bleModeEnv.advIntervalInMs
  mails,     \* app_bt_mailbox
  calls,     \* the mail a call has still to post, after it dealt with the timer
  later,     \* to come: two later, and the player of a call's audio
  cmds,      \* messages on their way to the stack
  air,       \* what the stack advertises
  conns,     \* app_env.conn_cnt
  sco,       \* btapp_hfp_is_sco_active
  profiles,  \* app_bt_is_in_connecting_profiles_state
  powerOff,  \* app_is_power_off_in_progress
  events,
  asked,     \* the last mail of a client the switch has handled
  want,      \* what it asked for, "any" if the circumstances forbade it
  failed     \* the stack has refused to advertise

switch == <<state, pending, interval>>
clients == <<calls, later>>
stack == <<air, conns>>
gates == <<sco, profiles, powerOff>>
ghosts == <<asked, want, failed>>
vars == <<switch, mails, clients, cmds, stack, gates, events, ghosts>>

TypeOK ==
  /\ state \in {"IDLE", "STARTING_ADV", "ADVERTISING", "STOPPING_ADV", "CONNECTED"}
  /\ pending \in {"IDLE", "START_ADV", "STOP_ADV"}
  /\ interval \in Intervals
  /\ mails \in Seq(Mails)
  /\ calls \in [Threads -> Calls]
  /\ later \subseteq {"fast", "resume", "player"}
  /\ cmds \in Seq(Cmds)
  /\ air \in Intervals \cup {"none"}
  /\ conns \in 0..1
  /\ {sco, profiles, powerOff, failed} \subseteq BOOLEAN
  /\ events \in 0..MaxEvents
  /\ asked \in {"start", "stop"}
  /\ want \in Intervals \cup {"none", "any"}

\* app_ble_system_ready: ble_mode_init, and advertising is asked for.
Init ==
  /\ state = "IDLE" /\ pending = "IDLE" /\ interval = "normal"
  /\ mails = <<Starting("normal")>>
  /\ calls = [t \in Threads |-> NoCall] /\ later = {}
  /\ cmds = <<>> /\ air = "none" /\ conns = 0
  /\ sco = FALSE /\ profiles = FALSE /\ powerOff = FALSE
  /\ events = 0
  /\ asked = "start" /\ want = "none" /\ failed = FALSE

-----------------------------------------------------------------------------
(* The handlers.  Each is given the state and the pending operation it finds, *)
(* and what the client wanted.                                                *)

Leave(s, p, i, sent, w) ==
  /\ state' = s
  /\ pending' = p
  /\ interval' = i
  /\ cmds' = cmds \o sent
  /\ want' = w

\* The pending operation is kept while the advertising is cancelled.
BugStopAdv(s, p, w) ==
  CASE s = "ADVERTISING" -> Leave("STOPPING_ADV", p, interval, <<Cancel>>, w)
    [] s = "STARTING_ADV" -> Leave(s, "STOP_ADV", interval, <<>>, w)
    [] OTHER -> Leave(s, p, interval, <<>>, w)

\* ble_stop_all_activities_handler
StopAdv(s, p, w) ==
  CASE s = "ADVERTISING" -> Leave("STOPPING_ADV", p, interval, <<Cancel>>, w)
    [] s = "STARTING_ADV" -> Leave(s, "STOP_ADV", interval, <<>>, w)
    [] s = "STOPPING_ADV" -> Leave(s, "IDLE", interval, <<>>, w)
    [] OTHER -> Leave(s, p, interval, <<>>, w)

\* The profiles are not looked at.
BugForbidden == conns >= 1

\* The conditions under which nothing is started from the quiet states.
Forbidden == conns >= 1 \/ profiles

\* The start does not wait for the answer to the cancel.
BugRestart(p, i, w) == Leave("STARTING_ADV", p, i, <<Cancel, Starting(i)>>, w)

\* app_restart_ble_advertising
Restart(p, i, w) == Leave("STOPPING_ADV", "START_ADV", i, <<Cancel>>, w)

\* app_start_ble_advertising_handler
StartAdv(s, p, i, w) ==
  CASE sco -> Leave(s, p, interval, <<>>, "any")
    [] ~sco /\ s = "ADVERTISING" -> Restart(p, i, w)
    [] ~sco /\ s \in {"STARTING_ADV", "STOPPING_ADV"} -> Leave(s, "START_ADV", i, <<>>, w)
    [] ~sco /\ s \in {"IDLE", "CONNECTED"} ->
         IF Forbidden THEN Leave(s, p, interval, <<>>, "any")
         ELSE Leave("STARTING_ADV", p, i, <<Starting(i)>>, w)

\* The operation is not taken back before it is carried out.
BugRunPending(s) ==
  CASE pending = "START_ADV" -> StartAdv(s, pending, interval, want)
    [] pending = "STOP_ADV" -> StopAdv(s, pending, want)
    [] OTHER -> Leave(s, "IDLE", interval, <<>>, want)

\* ble_pending_operation_handler
RunPending(s) ==
  CASE pending = "START_ADV" -> StartAdv(s, "IDLE", interval, want)
    [] pending = "STOP_ADV" -> StopAdv(s, "IDLE", want)
    [] OTHER -> Leave(s, "IDLE", interval, <<>>, want)

\* app_ble_switch_activities
SwitchActivities ==
  CASE state = "STARTING_ADV" -> RunPending("ADVERTISING")
    [] state = "STOPPING_ADV" -> RunPending("IDLE")
    [] OTHER -> RunPending(state)

\* app_start_ble_advertising, from the Bluetooth thread itself
PostStart(rest) == mails' = IF powerOff THEN rest ELSE Append(rest, Starting("normal"))

\* The Bluetooth thread takes the next mail.
Take(fn) ==
  /\ calls["bt"] = NoCall
  /\ mails # <<>> /\ Head(mails).fn = fn
  /\ UNCHANGED <<clients, stack, gates, events>>

HandleStart ==
  /\ Take("start")
  /\ StartAdv(state, pending, Head(mails).interval, Head(mails).interval)
  /\ asked' = "start"
  /\ mails' = Tail(mails)
  /\ UNCHANGED failed

HandleStop ==
  /\ Take("stop")
  /\ StopAdv(state, pending, "none")
  /\ asked' = "stop"
  /\ mails' = Tail(mails)
  /\ UNCHANGED failed

HandleSwitch ==
  /\ Take("switch")
  /\ SwitchActivities
  /\ mails' = Tail(mails)
  /\ UNCHANGED <<asked, failed>>

\* app_ble_advertising_starting_failed_handler: what is pending stays pending.
HandleFailed ==
  /\ Take("failed")
  /\ Leave(IF state = "STARTING_ADV" THEN "IDLE" ELSE state, pending, interval, <<>>, "any")
  /\ mails' = Tail(mails)
  /\ UNCHANGED <<asked, failed>>

\* app_connected_evt_handler_in_app_thread
HandleConnected ==
  /\ Take("connected")
  /\ Leave(IF state = "ADVERTISING" THEN "CONNECTED" ELSE state, pending, interval, <<>>, want)
  /\ PostStart(Tail(mails))
  /\ UNCHANGED <<asked, failed>>

-----------------------------------------------------------------------------
(* The stack *)

\* gapm_cmp_evt_handler and the call-back it chooses
Answer(fn) == mails' = Append(mails, Other(fn))

StackStep(cmd) ==
  /\ calls["bt"] = NoCall
  /\ cmds # <<>> /\ Head(cmds).fn = cmd
  /\ cmds' = Tail(cmds)
  /\ UNCHANGED <<switch, clients, conns, gates>>

StackStarts ==
  /\ StackStep("start")
  /\ air = "none"
  /\ air' = Head(cmds).interval
  /\ Answer("switch")
  /\ UNCHANGED <<events, ghosts>>

Bounded == events < MaxEvents /\ events' = events + 1

\* GAPM_START_ADVERTISE_CMD completes with an error.
StackRefuses ==
  /\ StackStep("start")
  /\ Bounded
  /\ failed' = TRUE
  /\ Answer("failed")
  /\ UNCHANGED <<air, asked, want>>

StackCancels ==
  /\ StackStep("stop")
  /\ air' = "none"
  /\ IF air # "none" \/ AnswersLateCancel THEN Answer("switch") ELSE UNCHANGED mails
  /\ UNCHANGED <<events, ghosts>>

\* A peer connects, which ends the advertising: gapc_connection_req_ind_handler
\* and app_connected_evt_handler.
Connection ==
  /\ Bounded
  /\ calls["bt"] = NoCall
  /\ air # "none"
  /\ air' = "none"
  /\ conns' = conns + 1
  /\ later' = later \ {"fast"}
  /\ mails' = Append(mails, Other("connected"))
  /\ want' = "any"
  /\ UNCHANGED <<switch, calls, cmds, gates, asked, failed>>

\* The disconnection starts no advertising.
BugDisconnection ==
  /\ Bounded
  /\ calls["bt"] = NoCall
  /\ conns > 0
  /\ conns' = conns - 1
  /\ state' = IF state = "CONNECTED" THEN "IDLE" ELSE state
  /\ UNCHANGED <<pending, interval, mails, clients, cmds, air, gates, ghosts>>

\* gapc_disconnect_ind_handler, which calls app_disconnected_evt_handler at once
Disconnection ==
  /\ Bounded
  /\ calls["bt"] = NoCall
  /\ conns > 0
  /\ conns' = conns - 1
  /\ state' = IF state = "CONNECTED" THEN "IDLE" ELSE state
  /\ PostStart(mails)
  /\ UNCHANGED <<pending, interval, clients, cmds, air, gates, ghosts>>

-----------------------------------------------------------------------------
(* The clients: threads, timers, the profiles and the calls *)

Client(t) ==
  /\ Bounded
  /\ calls[t] = NoCall
  /\ Len(mails) < MaxMails
  /\ UNCHANGED <<switch, cmds, stack, ghosts>>

\* ble_stop_activities: the timer is stopped, then the mail is posted.
Stopping(t) ==
  /\ later' = later \ {"fast"}
  /\ calls' = [calls EXCEPT ![t] = Other("stop")]

\* app_start_fast_connectable_ble_adv: the timer is started, then the mail posted.
StartingFast(t) ==
  /\ later' = later \cup {"fast"}
  /\ calls' = [calls EXCEPT ![t] = Starting("fast")]

AskStop(t) == Client(t) /\ Stopping(t) /\ UNCHANGED <<mails, gates>>

AskFast(t) == Client(t) /\ StartingFast(t) /\ UNCHANGED <<mails, gates>>

\* app_start_connectable_ble_adv and app_start_ble_advertising
AskStart(t) ==
  /\ Client(t)
  /\ \E i \in Intervals : calls' = [calls EXCEPT ![t] = Starting(i)]
  /\ UNCHANGED <<mails, later, gates>>

\* app_bt_start_custom_function_in_bt_thread
Post(t) ==
  /\ calls[t] # NoCall
  /\ calls' = [calls EXCEPT ![t] = NoCall]
  /\ mails' = Append(mails, calls[t])
  /\ UNCHANGED <<switch, later, cmds, stack, gates, events, ghosts>>

\* app_fast_ble_adv_timeout_timehandler, app_hfp_audio_closed_delay_resume_ble_adv_timer_cb
TimerFires(timer) ==
  /\ timer \in later
  /\ later' = later \ {timer}
  /\ mails' = Append(mails, Starting("normal"))
  /\ UNCHANGED <<switch, calls, cmds, stack, gates, events, ghosts>>

\* app_bt_set_connecting_profiles_state
ProfilesConnect ==
  /\ Client("bt")
  /\ ~profiles /\ profiles' = TRUE
  /\ Stopping("bt")
  /\ UNCHANGED <<mails, sco, powerOff>>

\* app_bt_clear_connecting_profiles_state
ProfilesDone ==
  /\ Client("bt")
  /\ profiles /\ profiles' = FALSE
  /\ StartingFast("bt")
  /\ UNCHANGED <<mails, sco, powerOff>>

\* A call's audio link comes, and the player is told to start ...
ScoConnects ==
  /\ Client("bt")
  /\ ~sco /\ sco' = TRUE
  /\ later' = later \cup {"player"}
  /\ UNCHANGED <<mails, calls, profiles, powerOff>>

\* ... which is bt_sco_player, in another thread.
PlayerStarts ==
  /\ "player" \in later
  /\ calls["app"] = NoCall
  /\ later' = later \ {"fast", "player"}
  /\ calls' = [calls EXCEPT !["app"] = Other("stop")]
  /\ UNCHANGED <<switch, mails, cmds, stack, gates, events, ghosts>>

\* It goes, and app_hfp_resume_ble_adv starts its timer.
ScoDisconnects ==
  /\ Client("bt")
  /\ sco /\ sco' = FALSE
  /\ later' = later \cup {"resume"}
  /\ UNCHANGED <<mails, calls, profiles, powerOff>>

\* app_deinit begins.
PowersOff ==
  /\ Client("app")
  /\ ~powerOff /\ powerOff' = TRUE
  /\ UNCHANGED <<mails, clients, sco, profiles>>

-----------------------------------------------------------------------------
Handle == HandleStart \/ HandleStop \/ HandleSwitch \/ HandleFailed \/ HandleConnected
Stack == StackStarts \/ StackRefuses \/ StackCancels

Next ==
  \/ HandleStart \/ HandleStop \/ HandleSwitch \/ HandleFailed \/ HandleConnected
  \/ StackStarts \/ StackRefuses \/ StackCancels
  \/ Connection \/ Disconnection
  \/ \E t \in Threads : AskStop(t) \/ AskFast(t) \/ AskStart(t) \/ Post(t)
  \/ \E timer \in {"fast", "resume"} : TimerFires(timer)
  \/ ProfilesConnect \/ ProfilesDone
  \/ ScoConnects \/ PlayerStarts \/ ScoDisconnects
  \/ PowersOff

\* The Bluetooth thread works off its mails, the stack its commands, and a
\* thread comes to the end of its call.  Timers may run on.
Fairness == WF_vars(Handle) /\ WF_vars(Stack) /\ WF_vars(PlayerStarts)
            /\ \A t \in Threads : WF_vars(Post(t))

Spec == Init /\ [][Next]_vars
FairSpec == Spec /\ Fairness

-----------------------------------------------------------------------------
(* Properties *)

Settled == mails = <<>> /\ cmds = <<>> /\ \A t \in Threads : calls[t] = NoCall

\* Where an answer of the stack waits.
Answers == {i \in 1..Len(mails) : mails[i].fn \in {"switch", "failed"}}

\* In STARTING_ADV and STOPPING_ADV one command or answer is under way ...
UnderWay ==
  \/ cmds = <<>> /\ \E i \in 1..Len(mails) : Answers = {i}
  \/ Answers = {} /\ state = "STARTING_ADV" /\ \E i \in Intervals : cmds = <<Starting(i)>>
  \/ Answers = {} /\ state = "STOPPING_ADV" /\ cmds = <<Cancel>>

\* ... and elsewhere none.
OneUnderWay ==
  IF state \in {"STARTING_ADV", "STOPPING_ADV"} THEN UnderWay ELSE cmds = <<>> /\ Answers = {}

\* The stack never advertises while the switch takes it to be quiet.
AirKnown ==
  /\ air # "none" => \/ state = "ADVERTISING"
                     \/ state = "STARTING_ADV" /\ cmds = <<>>
                     \/ state = "STOPPING_ADV" /\ cmds = <<Cancel>>
  /\ \A i \in 1..Len(mails) : mails[i].fn = "failed" => state = "STARTING_ADV" /\ air = "none"

\* The switch hears of a connection when the stack advertises no more, before
\* it can start again, and after it has heard that it did start.
ConnectionInOrder ==
  \A i \in 1..Len(mails) : mails[i].fn = "connected" =>
    /\ air = "none"
    /\ \A j \in 1..Len(mails) : mails[j].fn = "connected" => i = j
    /\ \/ state = "ADVERTISING"
       \/ state = "STARTING_ADV" /\ cmds = <<>> /\ \E j \in 1..(i - 1) : mails[j].fn = "switch"
       \/ /\ state = "STOPPING_ADV"
          /\ cmds = <<Cancel>> \/ \E j \in (i + 1)..Len(mails) : mails[j].fn = "switch"

\* Nothing is advertised, or about to be, while a peer is connected.
OneConnection == air # "none" \/ (state = "STARTING_ADV" /\ cmds # <<>>) => conns = 0

\* The switch and the stack keep in step, whatever connections come in between.
InStep == TypeOK /\ OneUnderWay /\ AirKnown /\ ConnectionInOrder /\ OneConnection

\* When everything asked for is done the stack does what the last request said,
\* also if it came while an earlier one was being carried out and took the
\* place of a third in pendingBLEOperation.
LastRequestWins ==
  Settled /\ ~failed /\ want # "any" => air = want

\* While profiles are being connected the Bluetooth thread wants the air for
\* them: whatever timers and threads ask for then, it ends up quiet.
QuietForProfiles ==
  Settled /\ profiles /\ "player" \notin later => air = "none"

\* A device nobody asked to stop is on the air again once calls, profiles and
\* connections are over, though nothing was started while they lasted.
Discoverable ==
  Settled /\ asked = "start" /\ later = {} /\ conns = 0
  /\ ~sco /\ ~profiles /\ ~powerOff /\ ~failed
    => air # "none"

\* The restarts that requests and answers set off in turn come to an end.
EventuallySettled == []<>(Settled /\ state \in {"IDLE", "ADVERTISING", "CONNECTED"})

-----------------------------------------------------------------------------
(* The inductive invariant                                                   *)

\* A refusal the switch has not heard of yet.
RefusalKnown == \A i \in 1..Len(mails) : mails[i].fn = "failed" => failed

\* What the state and the pending operation will come to is what was last wanted.
WantInv ==
  ~failed =>
    /\ pending = "STOP_ADV" => state = "STARTING_ADV"
    /\ pending = "START_ADV" => state \in {"STARTING_ADV", "STOPPING_ADV"}
    /\ \/ want = "any"
       \/ pending = "START_ADV" /\ want = interval
       \/ pending = "STOP_ADV" /\ want = "none"
       \/ pending = "IDLE" /\ state \in {"IDLE", "CONNECTED", "STOPPING_ADV"} /\ want = "none"
       \/ /\ pending = "IDLE" /\ want \in Intervals
          /\ \/ state = "STARTING_ADV" /\ cmds = <<Starting(want)>>
             \/ state \in {"STARTING_ADV", "ADVERTISING"} /\ cmds = <<>> /\ air = want

\* Requests that have yet to be handled.
Coming(fns) ==
  \/ \E t \in Threads : calls[t].fn \in fns
  \/ \E i \in 1..Len(mails) : mails[i].fn \in fns

\* While profiles are being connected, either a stop is still to be handled or
\* the switch is on its way to a state in which no start is allowed.
QuietInv ==
  profiles =>
    \/ "player" \in later
    \/ Coming({"stop"})
    \/ state \in {"IDLE", "CONNECTED", "STOPPING_ADV"}
    \/ state = "STARTING_ADV" /\ pending = "STOP_ADV"
    \/ state = "STARTING_ADV" /\ pending = "START_ADV" /\ ~sco

\* Whatever forbids a start ends in one.
WillAsk == later # {} \/ Coming({"start", "stop", "connected"}) \/ conns > 0 \/ sco \/ profiles

\* The switch is about to advertise, or does.
WillAdvertise ==
  \/ state \in {"STARTING_ADV", "STOPPING_ADV"} /\ pending = "START_ADV"
  \/ state = "STARTING_ADV" /\ pending = "IDLE" /\ (cmds # <<>> \/ air # "none")
  \/ state = "ADVERTISING" /\ air # "none"

StartInv == asked = "start" /\ ~powerOff /\ ~failed => WillAsk \/ WillAdvertise

SwitchInv == InStep /\ RefusalKnown /\ WantInv /\ QuietInv /\ StartInv
=============================================================================
