------------------------------- MODULE BtSniff -------------------------------
(***************************************************************************)
(* services/bt_app/app_bt_func.cpp: taking remote devices out of sniff      *)
(* mode.  Threads post the request to the Bluetooth thread, which asks the  *)
(* stack; a device that has another operation in progress is put into one   *)
(* of a few slots, which every round of the Bluetooth thread looks through. *)
(* The stack is a library, modelled by how this file uses it.               *)
(***************************************************************************)
EXTENDS Integers, Sequences

CONSTANTS
  Devices,
  NumSlots,   \* COUNT_OF_PENDING_REMOTE_DEV_TO_EXIT_SNIFF_MODE
  NoDevice,
  MaxMails,   \* bound on the requests that wait
  MaxRefused  \* bound on the requests the stack refuses

Slots == 0..(NumSlots - 1)

VARIABLES
  slot,     \* pendingRemoteDevToExitSniffMode
  mask,     \* the bits of maskOfRemoteDevPendingForExitingSniffMode
  mails,    \* ME_StopSniff_req in app_bt_mailbox
  mode,     \* of a device, as the stack has it: down, active or sniff
  busy,     \* devices with an operation in progress
  polled,   \* the mails of this round have been dealt with
  asked,    \* devices whose request is still to be carried out
  refused   \* how many requests the stack has refused

vars == <<slot, mask, mails, mode, busy, polled, asked, refused>>

Init ==
  /\ slot = [i \in Slots |-> NoDevice] /\ mask = {}
  /\ mails = <<>>
  /\ mode = [d \in Devices |-> "down"] /\ busy = {}
  /\ polled = FALSE /\ asked = {} /\ refused = 0

-----------------------------------------------------------------------------
\* app_bt_stop_sniff, and the hands-free code, for a device in sniff mode
AskStop(d) ==
  /\ mode[d] = "sniff"
  /\ Len(mails) < MaxMails
  /\ mails' = Append(mails, d)
  /\ UNCHANGED <<slot, mask, mode, busy, polled, asked, refused>>

Pending == {slot[i] : i \in mask}

\* app_add_pending_stop_sniff_op: the loop goes on behind the first free slot.
AddPending(d) ==
  IF d \in Pending THEN UNCHANGED <<slot, mask>>
  ELSE /\ slot' = [i \in Slots |-> IF i \in mask THEN slot[i] ELSE d]
       /\ mask' = Slots

\* The stack begins to take the device out of sniff mode.
Begin(d) == busy' = busy \cup {d} /\ asked' = asked \ {d}

\* app_bt_mail_process, ME_StopSniff_req
HandleStop ==
  /\ ~polled /\ mails # <<>>
  /\ mails' = Tail(mails)
  /\ LET d == Head(mails) IN
       \/ /\ mode[d] = "down"
          /\ UNCHANGED <<slot, mask, busy, asked, refused>>
       \/ /\ mode[d] # "down" /\ d \in busy
          /\ refused < MaxRefused /\ refused' = refused + 1
          /\ AddPending(d)
          /\ asked' = asked \cup {d}
          /\ UNCHANGED busy
       \/ /\ mode[d] = "sniff" /\ d \notin busy
          /\ Begin(d)
          /\ UNCHANGED <<slot, mask, refused>>
       \/ /\ mode[d] = "active" /\ d \notin busy
          /\ asked' = asked \ {d}
          /\ UNCHANGED <<slot, mask, busy, refused>>
  /\ UNCHANGED <<mode, polled>>

\* app_bt_mail_poll finds the mailbox empty.
PollEnds ==
  /\ ~polled /\ mails = <<>>
  /\ polled' = TRUE
  /\ UNCHANGED <<slot, mask, mails, mode, busy, asked, refused>>

Ready(i) == slot[i] \notin busy /\ mode[slot[i]] = "sniff"

\* app_check_pending_stop_sniff_op: the first slot that can be served is.
CheckPending ==
  /\ polled /\ polled' = FALSE
  /\ \/ /\ \A i \in mask : ~Ready(i)
        /\ UNCHANGED <<mask, busy, asked>>
     \/ \E i \in mask :
          /\ Ready(i) /\ \A j \in mask : j < i => ~Ready(j)
          /\ mask' = mask \ {i}
          /\ Begin(slot[i])
  /\ UNCHANGED <<slot, mails, mode, refused>>

-----------------------------------------------------------------------------
(* The stack and the peers *)

Connects(d) ==
  /\ mode[d] = "down"
  /\ mode' = [mode EXCEPT ![d] = "active"]
  /\ UNCHANGED <<slot, mask, mails, busy, polled, asked, refused>>

Disconnects(d) ==
  /\ mode[d] # "down"
  /\ mode' = [mode EXCEPT ![d] = "down"]
  /\ busy' = busy \ {d}
  /\ asked' = asked \ {d}
  /\ UNCHANGED <<slot, mask, mails, polled, refused>>

\* The stack begins another operation: a role, a policy, a mode.
OtherOperation(d) ==
  /\ mode[d] # "down" /\ d \notin busy
  /\ busy' = busy \cup {d}
  /\ UNCHANGED <<slot, mask, mails, mode, polled, asked, refused>>

\* It ends, and leaves the device in one mode or the other.
OperationEnds(d) ==
  /\ d \in busy
  /\ busy' = busy \ {d}
  /\ \E m \in {"active", "sniff"} :
       /\ mode' = [mode EXCEPT ![d] = m]
       /\ asked' = IF m = "active" THEN asked \ {d} ELSE asked
  /\ UNCHANGED <<slot, mask, mails, polled, refused>>

-----------------------------------------------------------------------------
Next ==
  \/ HandleStop \/ PollEnds \/ CheckPending
  \/ \E d \in Devices : \/ AskStop(d) \/ Connects(d) \/ Disconnects(d)
                        \/ OtherOperation(d) \/ OperationEnds(d)

Spec == Init /\ [][Next]_vars

\* With eight slots, one for a device (app_bt_func.cpp:165 and 208), a device
\* that could not be taken out of sniff mode at once is remembered until it is.
RequestsKept == asked \subseteq Pending
=============================================================================
