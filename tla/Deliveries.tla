------------------------------ MODULE Deliveries ------------------------------
(***************************************************************************)
(* Where packets go (deliverymethod.c): an instance of a delivery method   *)
(* is made from an MRL and belongs to a service filter (servicefilter.c,   *)
(* cmd_servicefilter.c), to a manual filter (manualfilters.c) or to an     *)
(* output (outputs.c), which other instances refer to. Commands come from  *)
(* several threads; the packet loop delivers with the reader's mutex held. *)
(* All service filters have one name here, and all manual filters one; the *)
(* primary filter is not among them. What an instance does with packets is *)
(* external, unless it refers to an output.                                *)
(***************************************************************************)
EXTENDS Integers, Sequences, FiniteSets

CONSTANTS Commander,    \* threads that execute commands
          OutputName,
          MaxOrders     \* bound: commands that make or change something

ASSUME DeliveriesAssumption ==
  /\ IsFiniteSet(Commander) /\ Commander \cap {"unheld", "packet"} = {}
  /\ OutputName \cap {"null", "far", "bad", "service", "manual", "nothing"} = {}
  /\ MaxOrders \in Nat

VARIABLES
  instance,       \* per instance made the output it refers to, or Outside
  destroyed,      \* how often each was destroyed
  instancesList,  \* how often each is listed
  filter,         \* per filter made its kind and instance, and whether packets reach it
  groups,         \* the filters that are listed, of each kind one
  output,         \* per output made its name, references and instance
  outputsList,    \* those that are listed, of each name one
  order,          \* what a thread is doing
  packet,         \* what the packet loop is doing
  manualFiltersMutex, outputsMutex,
  tangled,        \* two threads changed that list at once, and one change was lost
  crossed,        \* two threads were at one filter or output
  misused,        \* an instance or an output was used that was gone or not there yet
  ended, orders

deliveries == <<instance, destroyed, instancesList, filter, groups, output, outputsList, order, packet,
                manualFiltersMutex, outputsMutex, tangled, crossed, misused, ended, orders>>

Unheld == "unheld"
NoInstance == -1
NullInstance == 0      \* singleInstance, which all share
Outside == 0           \* not to an output
MRL == {"null", "far", "bad"} \cup OutputName
OrderTo(on, at, m, todo) ==
  [todo |-> todo, on |-> on, at |-> at, adds |-> at = 0, mrl |-> m, made |-> NoInstance, prev |-> NoInstance]
Resting == OrderTo("nothing", 0, "null", <<>>)
NoPacket == [at |-> "none", of |-> 0, to |-> NoInstance]

DeliveriesInit ==
  /\ instance = <<>> /\ destroyed = <<>> /\ instancesList = [i \in {NullInstance} |-> 0]
  /\ filter = <<>> /\ groups = {} /\ output = <<>> /\ outputsList = {}
  /\ order = [c \in Commander |-> Resting] /\ packet = NoPacket
  /\ manualFiltersMutex = Unheld /\ outputsMutex = Unheld
  /\ tangled = FALSE /\ crossed = FALSE /\ misused = FALSE /\ ended = FALSE /\ orders = 0

Gone(i) == i = NoInstance \/ (i # NullInstance /\ destroyed[i] > 0)
Listed(kind) == {f \in groups : filter[f].kind = kind}
OutputsCalled(x) == {o \in outputsList : output[o].name = x}
Through(i) == IF i > 0 THEN instance[i] ELSE Outside

\* The next step of c.
Turn(c, step) == order[c].todo # <<>> /\ Head(order[c].todo) = step
\* Output o has lost its instance, and c has the new one.
Replaced(c, o) == Turn(c, "install") /\ order[c].at = o
Advance(c, with) == order' = [order EXCEPT ![c] = [with EXCEPT !.todo = Tail(order[c].todo)]]
Rests(c) == order' = [order EXCEPT ![c] = Resting]
\* Another is at what c is about to use.
Meets(c, on) == \E d \in Commander \ {c} : order[d].on = on

----------------------------------------------------------------------------
(* deliverymethod.c, and what outputs.c does for it *)

\* OutputsDestroy: a reference is dropped, under the outputs' mutex.
MayDestroy(i) == Through(i) # Outside => outputsMutex = Unheld
\* Mutant: the reference is kept.
OutputsDestroyKeeping(i) == output
OutputsDestroy(i) ==
  IF Through(i) = Outside THEN output ELSE [output EXCEPT ![Through(i)].refs = @ - 1]

\* d is about to change InstancesList.
AtInstancesList(d) ==
  \/ Turn(d, "create") /\ (order[d].adds \/ order[d].mrl \in {"null", "far"} \/ OutputsCalled(order[d].mrl) # {})
  \/ Turn(d, "destroy") /\ order[d].prev # NoInstance
  \/ Turn(d, "drop") \/ Turn(d, "replace")

\* ListAdd and ListRemove of InstancesList, which has no mutex: c makes L of it, or its
\* change is lost to that of another thread.
ChangeInstancesList(c, L) ==
  \/ instancesList' = L /\ UNCHANGED tangled
  \/ /\ \E d \in Commander \ {c} : AtInstancesList(d)
     /\ tangled' = TRUE
     /\ instancesList' = [i \in DOMAIN L |-> IF i \in DOMAIN instancesList THEN instancesList[i] ELSE 0]

DeliveryMethodDestroy(c, i) ==
  /\ MayDestroy(i)
  /\ destroyed' = IF i > 0 THEN [destroyed EXCEPT ![i] = @ + 1] ELSE destroyed
  /\ ChangeInstancesList(c, [instancesList EXCEPT ![i] = IF @ = 0 THEN 0 ELSE @ - 1])
  /\ misused' = (misused \/ Gone(i))

\* An instance that refers to output o.
OutputsCreate(o) == [output EXCEPT ![o].refs = @ + 1]

NewInstance(c, to) ==
  LET new == Len(instance) + 1 IN
  /\ instance' = Append(instance, to) /\ destroyed' = Append(destroyed, 0)
  /\ ChangeInstancesList(c, [i \in NullInstance..new |-> IF i = new THEN 1 ELSE instancesList[i]])
  /\ Advance(c, [order[c] EXCEPT !.made = new])
  /\ UNCHANGED manualFiltersMutex

\* DeliveryMethodCreate; where it fails, an order to add falls back to the
\* null instance, any other ends.
DeliveryMethodCreate(c) ==
  LET m == order[c].mrl IN
  /\ Turn(c, "create")
  /\ m \in OutputName => outputsMutex = Unheld
  /\ \/ /\ m = "far" /\ NewInstance(c, Outside) /\ UNCHANGED output
     \/ \E o \in OutputsCalled(m) : NewInstance(c, o) /\ output' = OutputsCreate(o)
     \/ /\ m = "null" \/ (m # "far" /\ OutputsCalled(m) = {} /\ order[c].adds)
        /\ ChangeInstancesList(c, [instancesList EXCEPT ![NullInstance] = @ + 1])
        /\ Advance(c, [order[c] EXCEPT !.made = NullInstance])
        /\ UNCHANGED <<instance, destroyed, output, manualFiltersMutex>>
     \/ /\ m \notin {"null", "far"} /\ OutputsCalled(m) = {} /\ ~order[c].adds
        /\ Rests(c)
        /\ manualFiltersMutex' = IF manualFiltersMutex = c THEN Unheld ELSE manualFiltersMutex
        /\ UNCHANGED <<instance, destroyed, instancesList, tangled, output>>
  /\ UNCHANGED <<filter, groups, outputsList, packet, outputsMutex, crossed, misused, ended, orders>>

----------------------------------------------------------------------------
(* Orders. *)

Order(c, on, at, m, todo) ==
  /\ order[c] = Resting /\ orders < MaxOrders /\ ~ended
  /\ orders' = orders + 1
  /\ order' = [order EXCEPT ![c] = OrderTo(on, at, m, todo)]
  /\ crossed' = (crossed \/ Meets(c, on))
  /\ UNCHANGED <<instance, destroyed, instancesList, tangled, filter, groups, output, outputsList, packet,
                 manualFiltersMutex, outputsMutex, misused, ended>>

CommandAddSF(c, m) ==
  Listed("service") = {} /\ Order(c, "service", 0, m, <<"enter", "create", "read", "set", "destroy">>)
CommandSetSFMRL(c, m) ==
  \E f \in Listed("service") : Order(c, "service", f, m, <<"create", "read", "set", "destroy">>)
CommandRemoveSF(c) ==
  \E f \in Listed("service") : Order(c, "service", f, "null", <<"unlist", "drop">>)

CommandAddMF(c, m) ==
  Listed("manual") = {} /\ Order(c, "manual", 0, m, <<"create", "list">>)
CommandRemoveMF(c) ==
  \E f \in Listed("manual") : Order(c, "manual", f, "null", <<"unlist", "drop">>)
CommandSetOutputMRL(c, m) ==
  \E f \in Listed("manual") : Order(c, "manual", f, m, <<"lock", "create", "relock">>)

\* CommandSetSFService, CommandAddMFPID, CommandRemoveMFPID.
Feed(c, f, fed) ==
  /\ order[c] = Resting /\ ~ended
  /\ f \in groups /\ filter[f].fed # fed /\ (fed \/ filter[f].kind = "manual")
  /\ packet = NoPacket
  /\ filter' = [filter EXCEPT ![f].fed = fed]
  /\ crossed' = (crossed \/ Meets(c, filter[f].kind))
  /\ UNCHANGED <<instance, destroyed, instancesList, tangled, groups, output, outputsList, order, packet,
                 manualFiltersMutex, outputsMutex, misused, ended, orders>>

\* ServiceFilterCreate: it has no instance yet.
ServiceFilterCreate(c) ==
  /\ Turn(c, "enter") /\ packet = NoPacket
  /\ filter' = Append(filter, [kind |-> "service", instance |-> NoInstance, fed |-> FALSE, freed |-> FALSE])
  /\ groups' = groups \cup {Len(filter) + 1}
  /\ Advance(c, [order[c] EXCEPT !.at = Len(filter) + 1])
  /\ UNCHANGED <<instance, destroyed, instancesList, tangled, output, outputsList, packet,
                 manualFiltersMutex, outputsMutex, crossed, misused, ended, orders>>

\* ServiceFilterDeliveryMethodSet, in three steps.
ReadInstance(c) ==
  LET f == order[c].at IN
  /\ Turn(c, "read")
  /\ Advance(c, [order[c] EXCEPT !.prev = filter[f].instance])
  /\ misused' = (misused \/ filter[f].freed)
  /\ UNCHANGED <<instance, destroyed, instancesList, tangled, filter, groups, output, outputsList, packet,
                 manualFiltersMutex, outputsMutex, crossed, ended, orders>>
SetInstance(c) ==
  LET f == order[c].at IN
  /\ Turn(c, "set")
  /\ filter' = [filter EXCEPT ![f].instance = order[c].made]
  /\ Advance(c, order[c])
  /\ misused' = (misused \/ filter[f].freed)
  /\ UNCHANGED <<instance, destroyed, instancesList, tangled, groups, output, outputsList, packet,
                 manualFiltersMutex, outputsMutex, crossed, ended, orders>>
DestroyPrevious(c) ==
  LET f == order[c].at
      prev == order[c].prev IN
  /\ Turn(c, "destroy")
  /\ IF prev = NoInstance THEN UNCHANGED <<destroyed, instancesList, tangled, output, misused>>
     ELSE DeliveryMethodDestroy(c, prev) /\ output' = OutputsDestroy(prev)
  /\ Rests(c)
  /\ crossed' = (crossed \/ (packet.at = "send" /\ packet.of = f))
  /\ UNCHANGED <<instance, filter, groups, outputsList, packet, manualFiltersMutex, outputsMutex, ended, orders>>

\* TSFilterGroupDestroy waits for the packet loop; for a manual filter with
\* that plugin's mutex held.
RemoveGroup(c) ==
  LET f == order[c].at IN
  /\ Turn(c, "unlist") /\ packet = NoPacket
  /\ order[c].on = "manual" => manualFiltersMutex = Unheld
  /\ groups' = groups \ {f}
  /\ filter' = [filter EXCEPT ![f].fed = FALSE]
  /\ misused' = (misused \/ f \notin groups)
  /\ Advance(c, order[c])
  /\ UNCHANGED <<instance, destroyed, instancesList, tangled, output, outputsList, packet,
                 manualFiltersMutex, outputsMutex, crossed, ended, orders>>
DropFilter(c) ==
  LET f == order[c].at IN
  /\ Turn(c, "drop")
  /\ DeliveryMethodDestroy(c, filter[f].instance) /\ output' = OutputsDestroy(filter[f].instance)
  /\ filter' = [filter EXCEPT ![f].freed = TRUE]
  /\ Rests(c)
  /\ UNCHANGED <<instance, groups, outputsList, packet, manualFiltersMutex, outputsMutex, crossed, ended, orders>>

\* The end of CommandAddMF.
ListManualFilter(c) ==
  /\ Turn(c, "list") /\ manualFiltersMutex = Unheld /\ packet = NoPacket
  /\ filter' = Append(filter, [kind |-> "manual", instance |-> order[c].made, fed |-> FALSE, freed |-> FALSE])
  /\ groups' = groups \cup {Len(filter) + 1}
  /\ Rests(c)
  /\ UNCHANGED <<instance, destroyed, instancesList, tangled, output, outputsList, packet,
                 manualFiltersMutex, outputsMutex, crossed, misused, ended, orders>>

\* CommandSetOutputMRL locks the mutex, makes an instance and locks the mutex
\* again: if there is an instance, c stays there for ever.
LockManualFilters(c) ==
  /\ Turn(c, "lock") /\ manualFiltersMutex = Unheld
  /\ manualFiltersMutex' = c
  /\ Advance(c, order[c])
  /\ UNCHANGED <<instance, destroyed, instancesList, tangled, filter, groups, output, outputsList, packet,
                 outputsMutex, crossed, misused, ended, orders>>

----------------------------------------------------------------------------
(* Outputs. *)

CommandAddOutput(c, x) ==
  /\ order[c] = Resting /\ orders < MaxOrders /\ ~ended
  /\ outputsMutex = Unheld /\ OutputsCalled(x) = {}
  /\ output' = Append(output, [name |-> x, refs |-> 0, instance |-> NullInstance, freed |-> FALSE])
  /\ outputsList' = outputsList \cup {Len(output) + 1}
  /\ ChangeInstancesList(c, [instancesList EXCEPT ![NullInstance] = @ + 1])
  /\ orders' = orders + 1
  /\ UNCHANGED <<instance, destroyed, filter, groups, order, packet, manualFiltersMutex, outputsMutex,
                 crossed, misused, ended>>

\* If the output delivers to another, its destructor wants the mutex the
\* thread holds, and c stays there for ever.
OutputDestructor(c, o) ==
  LET i == output[o].instance IN
  \/ Through(i) = Outside /\ DeliveryMethodDestroy(c, i) /\ UNCHANGED <<order, outputsMutex>>
  \/ /\ Through(i) # Outside
     /\ outputsMutex' = c
     /\ order' = [order EXCEPT ![c] = OrderTo(output[o].name, o, "null", <<"relock">>)]
     /\ UNCHANGED <<destroyed, instancesList, tangled, misused>>

\* Only an output nobody refers to.
CommandRemoveOutput(c, x) ==
  /\ order[c] = Resting /\ orders < MaxOrders /\ ~ended
  /\ outputsMutex = Unheld
  /\ \E o \in OutputsCalled(x) :
       /\ output[o].refs = 0
       /\ outputsList' = outputsList \ {o}
       /\ output' = [output EXCEPT ![o].freed = TRUE]
       /\ OutputDestructor(c, o)
  /\ orders' = orders + 1
  /\ crossed' = (crossed \/ Meets(c, x))
  /\ UNCHANGED <<instance, filter, groups, packet, manualFiltersMutex, ended>>

\* OutputPropertyMRLSet does not take the mutex.
OutputPropertyMRLSet(c, x, m) ==
  \E o \in OutputsCalled(x) : Order(c, x, o, m, <<"create", "replace", "install">>)
ReplaceInstance(c) ==
  LET o == order[c].at
      i == output[o].instance IN
  /\ Turn(c, "replace")
  /\ DeliveryMethodDestroy(c, i) /\ output' = OutputsDestroy(i)
  /\ Advance(c, order[c])
  /\ crossed' = (crossed \/ (packet.at = "through" /\ packet.of = o))
  /\ UNCHANGED <<instance, filter, groups, outputsList, packet, manualFiltersMutex, outputsMutex, ended, orders>>
InstallInstance(c) ==
  LET o == order[c].at IN
  /\ Turn(c, "install")
  /\ output' = [output EXCEPT ![o].instance = order[c].made]
  /\ misused' = (misused \/ output[o].freed)
  /\ Rests(c)
  /\ UNCHANGED <<instance, destroyed, instancesList, tangled, filter, groups, outputsList, packet,
                 manualFiltersMutex, outputsMutex, crossed, ended, orders>>

----------------------------------------------------------------------------
(* The packet loop: ServiceFilterProcessPacket, or OutputPacket of manual  *)
(* filters, reads the instance and hands the packet to it.                 *)

ProcessPacket(f) ==
  /\ packet = NoPacket /\ ~ended
  /\ f \in groups /\ filter[f].fed
  /\ packet' = [at |-> "send", of |-> f, to |-> filter[f].instance]
  /\ UNCHANGED <<instance, destroyed, instancesList, tangled, filter, groups, output, outputsList, order,
                 manualFiltersMutex, outputsMutex, crossed, misused, ended, orders>>

\* OutputsSendPacket takes the mutex and reads the output's instance.
DeliveryMethodOutputPacket ==
  LET o == Through(packet.to) IN
  /\ packet.at = "send"
  /\ misused' = (misused \/ Gone(packet.to))
  /\ IF o = Outside THEN packet' = NoPacket /\ UNCHANGED <<outputsMutex, crossed>>
     ELSE /\ outputsMutex = Unheld
          /\ outputsMutex' = "packet"
          /\ packet' = [at |-> "through", of |-> o, to |-> output[o].instance]
          /\ crossed' = (crossed \/ \E c \in Commander : Replaced(c, o))
  /\ UNCHANGED <<instance, destroyed, instancesList, tangled, filter, groups, output, outputsList, order,
                 manualFiltersMutex, ended, orders>>

\* An instance that refers to an output wants the mutex again: there the loop
\* stays for ever.
OutputsSendPacket ==
  /\ packet.at = "through" /\ Through(packet.to) = Outside
  /\ misused' = (misused \/ Gone(packet.to))
  /\ packet' = NoPacket /\ outputsMutex' = Unheld
  /\ UNCHANGED <<instance, destroyed, instancesList, tangled, filter, groups, output, outputsList, order,
                 manualFiltersMutex, crossed, ended, orders>>

----------------------------------------------------------------------------

(* The end of the program: how often each function destroys an instance.   *)

ServiceFilterDestroyAll(i) == Cardinality({f \in Listed("service") : filter[f].instance = i})
DeliveryMethodDestroyAll(i) == IF instancesList[i] > 0 /\ ServiceFilterDestroyAll(i) = 0 THEN 1 ELSE 0
OutputsUninstall(i) == Cardinality({o \in outputsList : output[o].instance = i})

Stop ==
  /\ ~ended /\ packet = NoPacket /\ \A c \in Commander : order[c] = Resting
  /\ ended' = TRUE
  /\ destroyed' = [i \in DOMAIN destroyed |-> destroyed[i] + ServiceFilterDestroyAll(i)
                                              + DeliveryMethodDestroyAll(i) + OutputsUninstall(i)]
  /\ instancesList' = [i \in DOMAIN instancesList |-> 0] /\ groups' = {} /\ filter' = <<>>
  /\ UNCHANGED <<instance, output, outputsList, order, packet, manualFiltersMutex, outputsMutex, tangled, crossed, misused, orders>>

DeliveriesStep ==
  \/ \E c \in Commander :
       \/ \E m \in MRL :
            \/ CommandAddSF(c, m) \/ CommandSetSFMRL(c, m)
            \/ CommandAddMF(c, m) \/ CommandSetOutputMRL(c, m)
            \/ \E x \in OutputName : OutputPropertyMRLSet(c, x, m)
       \/ CommandRemoveSF(c) \/ CommandRemoveMF(c)
       \/ \E x \in OutputName : CommandAddOutput(c, x) \/ CommandRemoveOutput(c, x)
       \/ DeliveryMethodCreate(c)
       \/ ServiceFilterCreate(c) \/ ReadInstance(c) \/ SetInstance(c) \/ DestroyPrevious(c)
       \/ RemoveGroup(c) \/ DropFilter(c)
       \/ ListManualFilter(c) \/ LockManualFilters(c)
       \/ ReplaceInstance(c) \/ InstallInstance(c)
  \/ \E c \in Commander, f \in DOMAIN filter, fed \in BOOLEAN : Feed(c, f, fed)
  \/ \E f \in DOMAIN filter : ProcessPacket(f)
  \/ DeliveryMethodOutputPacket
  \/ OutputsSendPacket
  \/ Stop

\* (bound: a behaviour ends when two threads have crossed, or changed the list at once:
\* what is left of it may lead to entries that are freed)
DeliveriesNext == ~crossed /\ ~tangled /\ DeliveriesStep

DeliveriesSpec == DeliveriesInit /\ [][DeliveriesNext]_deliveries

----------------------------------------------------------------------------
(* Properties. *)

\* Who has an instance: the filters that are not freed; the outputs that are
\* not, or whose destructor waits for ever, unless it was replaced and the new
\* one is not yet installed; and the threads that have made one, or are about
\* to destroy one.
FiltersOf(i) == {f \in DOMAIN filter : ~filter[f].freed /\ filter[f].instance = i}
Waits(c, o) == Turn(c, "relock") /\ order[c].on # "manual" /\ order[c].at = o
OutputsOf(i) ==
  {o \in DOMAIN output :
     /\ output[o].instance = i
     /\ output[o].freed => \E c \in Commander : Waits(c, o)
     /\ \A c \in Commander : ~Replaced(c, o)}
Carried(c) == IF Turn(c, "destroy") THEN order[c].prev ELSE order[c].made
CarriersOf(i) == {c \in Commander : Carried(c) = i}
Held(i) == Cardinality(FiltersOf(i)) + Cardinality(OutputsOf(i)) + Cardinality(CarriersOf(i))

\* The instances there are that refer to output o.
ReferringTo(o) == {i \in DOMAIN instance : instance[i] = o /\ destroyed[i] = 0}

\* Unless two threads are at one filter or output, or the packet loop at one
\* that is being changed: every instance has one owner until it is destroyed,
\* once; none is used after that; the list has just those there are, unless two
\* threads have changed it at once, whatever they were at (deliverymethod.c:125,
\* 138, without a mutex); and an output counts the instances that refer to it, and
\* is not removed before they are gone. At the end all are gone; those of outputs
\* are then destroyed a second time.
DeliveriesOwned ==
  crossed \/
    /\ ~misused
    /\ ~ended =>
         /\ \A i \in DOMAIN instance : destroyed[i] + Held(i) = 1
         /\ ~tangled => \A i \in NullInstance..Len(instance) : instancesList[i] = Held(i)
         /\ \A o \in DOMAIN output :
              /\ output[o].refs = Cardinality(ReferringTo(o))
              /\ output[o].freed => ReferringTo(o) = {}
    /\ ended => \A i \in DOMAIN instance : destroyed[i] = 1 + OutputsUninstall(i)

=============================================================================
