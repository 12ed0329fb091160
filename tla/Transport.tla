------------------------------- MODULE Transport -------------------------------
(***************************************************************************)
(* The transport layer below the sessions of CAM: en50221.c asks, a module *)
(* answers. Every request is a TPDU, and the next thing that can be read   *)
(* from the device is taken for its answer. A module that takes more than  *)
(* CAM_READ_TIMEOUT leaves its answer to a later read, and the slots share *)
(* one device. All requests are made by the input thread; a module speaks, *)
(* comes and goes at any time.                                             *)
(***************************************************************************)
EXTENDS Integers, Sequences

CONSTANTS Slots,        \* i_nb_slots
          Retries,      \* MAX_TC_RETRIES
          MaxSaid,      \* bound: messages of a module between two resets
          MaxLate,      \* bound: answers that are late
          MaxSwaps      \* bound: modules taken out

ASSUME TransportAssumption == {Slots, Retries, MaxSaid} \subseteq Nat \ {0} /\ {MaxLate, MaxSwaps} \subseteq Nat

SlotIds == 1..Slots

VARIABLES
  plugged,    \* CA_CI_MODULE_READY
  connected,  \* modules that have opened their transport connection
  open,       \* pb_active_slot
  hasData,    \* pb_tc_has_data
  arrived,    \* answers that can be read, by slot
  overdue,    \* answers their module has still to give
  wants,      \* messages a module has for the host
  said,       \* how many it gave since its last reset
  handed,     \* those that reached SPDUHandle
  poll,       \* where en50221_Poll is: its slot, step, and tries left
  lates,      \* how many answers were late
  swaps,
  unjust      \* a module was reset though all answers so far came in time

transport == <<plugged, connected, open, hasData, arrived, overdue, wants, said, handed, poll, lates, swaps, unjust>>

AtRest == [slot |-> 0, step |-> "idle", tries |-> 0]
Step(s, step) == [slot |-> s, step |-> step, tries |-> 0]
NextSlot(s) == IF s = Slots THEN AtRest ELSE Step(s + 1, "look")

TransportInit ==
  /\ plugged = {} /\ connected = {} /\ open = {} /\ hasData = {}
  /\ arrived = [s \in SlotIds |-> <<>>] /\ overdue = [s \in SlotIds |-> <<>>]
  /\ wants = [s \in SlotIds |-> 0] /\ said = [s \in SlotIds |-> 0]
  /\ handed = [s \in SlotIds |-> <<>>]
  /\ poll = AtRest /\ lates = 0 /\ swaps = 0 /\ unjust = FALSE
-----------------------------------------------------------------------------
(* Modules. *)

Plug(s) ==
  /\ s \notin plugged /\ plugged' = plugged \cup {s}
  /\ UNCHANGED <<connected, open, hasData, arrived, overdue, wants, said, handed, poll, lates, swaps, unjust>>

\* A module that is taken out answers nothing any more.
Forget(s) ==
  /\ connected' = connected \ {s}
  /\ arrived' = [arrived EXCEPT ![s] = <<>>] /\ overdue' = [overdue EXCEPT ![s] = <<>>]
  /\ wants' = [wants EXCEPT ![s] = 0] /\ said' = [said EXCEPT ![s] = 0]
  /\ handed' = [handed EXCEPT ![s] = <<>>]

Unplug(s) ==
  /\ s \in plugged /\ swaps < MaxSwaps
  /\ plugged' = plugged \ {s} /\ swaps' = swaps + 1
  /\ Forget(s)
  /\ UNCHANGED <<open, hasData, poll, lates, unjust>>

Speak(s) ==
  /\ s \in connected /\ wants[s] + said[s] < MaxSaid
  /\ wants' = [wants EXCEPT ![s] = @ + 1]
  /\ UNCHANGED <<plugged, connected, open, hasData, arrived, overdue, said, handed, poll, lates, swaps, unjust>>

Arrive(s) ==
  /\ overdue[s] # <<>>
  /\ arrived' = [arrived EXCEPT ![s] = Append(@, Head(overdue[s]))]
  /\ overdue' = [overdue EXCEPT ![s] = Tail(@)]
  /\ UNCHANGED <<plugged, connected, open, hasData, wants, said, handed, poll, lates, swaps, unjust>>

Answers(s, tag) == s \in connected \/ (s \in plugged /\ tag = "CREATE_TC")

\* Only a request for data gets data; every answer ends with the state.
AnswerTo(s, tag) ==
  IF tag = "CREATE_TC" THEN [tag |-> "CTC_REPLY", data |-> 0, more |-> FALSE]
  ELSE IF tag = "RCV" /\ wants[s] > 0
       THEN [tag |-> "DATA_LAST", data |-> said[s] + 1, more |-> wants[s] > 1]
       ELSE [tag |-> "SB", data |-> 0, more |-> wants[s] > 0]
NoAnswer == [tag |-> "none", data |-> 0, more |-> FALSE]
-----------------------------------------------------------------------------
(* Requests. *)

\* Mutant: the slot an answer comes from is not looked at.
ReadAny(s, ready) ==
  IF \A t \in SlotIds : ready[t] = <<>> THEN {[got |-> NoAnswer, arrived |-> ready]}
  ELSE {[got |-> Head(ready[t]), arrived |-> [ready EXCEPT ![t] = Tail(@)]] : t \in {t \in SlotIds : ready[t] # <<>>}}

\* What a TPDUSend and the TPDURecv after it may come to. Whatever can be read
\* first is the answer, and none if it is of another slot; a poll that ends
\* without one, or a module that is gone, is no answer either.
Read(s, ready) ==
  IF \A t \in SlotIds : ready[t] = <<>> THEN {[got |-> NoAnswer, arrived |-> ready]}
  ELSE {[got |-> IF t = s THEN Head(ready[t]) ELSE NoAnswer, arrived |-> [ready EXCEPT ![t] = Tail(@)]] :
          t \in {t \in SlotIds : ready[t] # <<>>}}

\* The device and the modules once a request was made, its answer in time or not.
Unasked == [arrived |-> arrived, overdue |-> overdue, wants |-> wants, said |-> said, connected |-> connected,
            lates |-> lates, got |-> NoAnswer]
Asked(s, tag) ==
  IF ~Answers(s, tag) THEN {Unasked}
  ELSE LET answer == AnswerTo(s, tag)
           data == IF answer.tag = "DATA_LAST" THEN 1 ELSE 0
           made == [Unasked EXCEPT !.wants[s] = @ - data, !.said[s] = @ + data, !.connected = @ \cup {s}]
       IN {[made EXCEPT !.arrived[s] = @ \o overdue[s] \o <<answer>>, !.overdue[s] = <<>>]}
          \cup {[made EXCEPT !.overdue[s] = Append(@, answer), !.lates = n] : n \in {lates + 1} \cap 0..MaxLate}

\* How a request, or a mere read, comes out.
Heard(s, d) == {[d EXCEPT !.arrived = r.arrived, !.got = r.got] : r \in Read(s, d.arrived)}
Outcomes(s, asked) == UNION {Heard(s, d) : d \in asked}

TPDURecv(s, o) ==
  /\ arrived' = o.arrived /\ overdue' = o.overdue /\ wants' = o.wants /\ said' = o.said
  /\ connected' = o.connected /\ lates' = o.lates
  /\ hasData' = IF o.got = NoAnswer THEN hasData ELSE IF o.got.more THEN hasData \cup {s} ELSE hasData \ {s}

\* The module and its slot start anew, also what the device had of it.
ResetTransport(s, o) ==
  /\ open' = open \ {s} /\ hasData' = hasData \ {s}
  /\ connected' = o.connected \ {s} /\ lates' = o.lates
  /\ arrived' = [o.arrived EXCEPT ![s] = <<>>] /\ overdue' = [o.overdue EXCEPT ![s] = <<>>]
  /\ wants' = [o.wants EXCEPT ![s] = 0] /\ said' = [o.said EXCEPT ![s] = 0]
  /\ handed' = [handed EXCEPT ![s] = <<>>]
  /\ unjust' = (unjust \/ (o.lates = 0 /\ s \in o.connected))
  /\ poll' = NextSlot(s)
-----------------------------------------------------------------------------
(* en50221_Poll, one exchange at a time, and what is sent between two polls. *)

Begin ==
  /\ poll = AtRest /\ poll' = Step(1, "look")
  /\ UNCHANGED <<plugged, connected, open, hasData, arrived, overdue, wants, said, handed, lates, swaps, unjust>>

Look(s) ==
  /\ poll = Step(s, "look")
  /\ poll' = IF s \notin plugged THEN NextSlot(s)
             ELSE IF s \notin open THEN Step(s, "create")
             ELSE Step(s, IF s \in hasData THEN "fetch" ELSE "ask")
  /\ open' = IF s \in plugged THEN open ELSE open \ {s}
  /\ UNCHANGED <<plugged, connected, hasData, arrived, overdue, wants, said, handed, lates, swaps, unjust>>

\* The reply is waited for several times.
CreateTC(s) ==
  /\ poll.slot = s /\ poll.step = "create"
  /\ \E o \in Outcomes(s, IF poll.tries = 0 THEN Asked(s, "CREATE_TC") ELSE {Unasked}) :
       IF o.got.tag = "CTC_REPLY"
       THEN /\ TPDURecv(s, o) /\ open' = open \cup {s}
            /\ poll' = Step(s, IF o.got.more THEN "fetch" ELSE "ask")
            /\ UNCHANGED <<handed, unjust>>
       ELSE IF poll.tries + 1 = Retries THEN ResetTransport(s, o)
       ELSE TPDURecv(s, o) /\ poll' = [poll EXCEPT !.tries = @ + 1] /\ UNCHANGED <<open, handed, unjust>>
  /\ UNCHANGED <<plugged, swaps>>

Ask(s) ==
  /\ poll = Step(s, "ask")
  /\ \E o \in Outcomes(s, Asked(s, "DATA_LAST")) :
       IF o.got = NoAnswer THEN ResetTransport(s, o)
       ELSE /\ TPDURecv(s, o)
            /\ poll' = IF o.got.more THEN Step(s, "fetch") ELSE NextSlot(s)
            /\ UNCHANGED <<open, handed, unjust>>
  /\ UNCHANGED <<plugged, swaps>>

\* A reply to CREATE_TC is too short to be looked at.
Fetch(s) ==
  /\ poll = Step(s, "fetch")
  /\ \E o \in Outcomes(s, Asked(s, "RCV")) :
       IF o.got.tag \in {"none", "SB"} THEN ResetTransport(s, o)
       ELSE /\ TPDURecv(s, o)
            /\ handed' = IF o.got.tag = "DATA_LAST" THEN [handed EXCEPT ![s] = Append(@, o.got.data)] ELSE handed
            /\ poll' = IF o.got.tag = "DATA_LAST" THEN Step(s, "handle")
                       ELSE IF o.got.more THEN poll ELSE NextSlot(s)
            /\ UNCHANGED <<open, unjust>>
  /\ UNCHANGED <<plugged, swaps>>

\* A handler may answer in its session (bound: once); it does not matter here
\* whether that succeeds.
Handle(s) ==
  /\ poll.slot = s /\ poll.step = "handle"
  /\ \/ /\ poll.tries = 0 /\ poll' = [poll EXCEPT !.tries = 1]
        /\ \E o \in Outcomes(s, Asked(s, "DATA_LAST")) : TPDURecv(s, o)
     \/ /\ poll' = IF s \in hasData THEN Step(s, "fetch") ELSE NextSlot(s)
        /\ UNCHANGED <<connected, hasData, arrived, overdue, wants, said, lates>>
  /\ UNCHANGED <<plugged, open, handed, swaps, unjust>>

\* A CA PMT.
SendCAPMT(s) ==
  /\ poll = AtRest /\ s \in open
  /\ \E o \in Outcomes(s, Asked(s, "DATA_LAST")) : TPDURecv(s, o)
  /\ UNCHANGED <<plugged, open, handed, poll, swaps, unjust>>

TransportNext ==
  \/ \E s \in SlotIds : Plug(s)
  \/ \E s \in SlotIds : Unplug(s)
  \/ \E s \in SlotIds : Speak(s)
  \/ \E s \in SlotIds : Arrive(s)
  \/ Begin
  \/ \E s \in SlotIds : Look(s)
  \/ \E s \in SlotIds : CreateTC(s)
  \/ \E s \in SlotIds : Ask(s)
  \/ \E s \in SlotIds : Fetch(s)
  \/ \E s \in SlotIds : Handle(s)
  \/ \E s \in SlotIds : SendCAPMT(s)
-----------------------------------------------------------------------------
(* Properties. *)

\* Also when answers come late and stay behind the requests, and are read for
\* another slot's, the messages of a module reach the sessions in their order,
\* each once and none missed: where one could be, the slot has been reset. A
\* slot is believed to have data only when it has some. And while no answer
\* was late, no module is reset.
InStep ==
  /\ \A s \in SlotIds :
       /\ handed[s] = [i \in 1..said[s] |-> i]
       /\ s \in hasData \cap open \cap connected => wants[s] > 0
  /\ ~unjust

=============================================================================
