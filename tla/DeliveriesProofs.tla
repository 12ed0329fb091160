--------------------------- MODULE DeliveriesProofs ---------------------------
(***************************************************************************)
(* Every instance of a delivery method has one owner until it is           *)
(* destroyed, for any numbers of threads, outputs and commands: the proof  *)
(* of DeliveriesOwned of Deliveries.                                       *)
(*                                                                         *)
(* The inductive invariant says what a thread has in hand at each point of *)
(* what it does, that no two threads are at one filter or output, that an  *)
(* instance has as many holders as entries in the list (but for the null   *)
(* instance one until it is destroyed, none after that), that an output    *)
(* counts just the instances that refer to it, and what the packet loop    *)
(* has read.  Then there is a lemma for each action; most of it follows    *)
(* what the action does to the holders of each instance.                   *)
(***************************************************************************)
EXTENDS Deliveries, TLAPS, FiniteSetTheorems, SequenceTheorems

-----------------------------------------------------------------------------
(* The inductive invariant.                                                *)

Instances == NullInstance..Len(instance)

\* What is left of an order.
Enters == <<"enter", "create", "read", "set", "destroy">>
Creates == <<"create", "read", "set", "destroy">>
Reads == <<"read", "set", "destroy">>
Sets == <<"set", "destroy">>
Destroys == <<"destroy">>
Unlists == <<"unlist", "drop">>
Drops == <<"drop">>
CreatesManual == <<"create", "list">>
Lists == <<"list">>
Locks == <<"lock", "create", "relock">>
CreatesLocked == <<"create", "relock">>
LocksAgain == <<"relock">>
CreatesOutput == <<"create", "replace", "install">>
Replaces == <<"replace", "install">>
Installs == <<"install">>
Plans == {<<>>, Enters, Creates, Reads, Sets, Destroys, Unlists, Drops, CreatesManual, Lists,
          Locks, CreatesLocked, LocksAgain, CreatesOutput, Replaces, Installs}

Kinds == {"service", "manual"}
Orders == [todo : Plans, on : {"nothing"} \cup Kinds \cup OutputName, at : Nat, adds : BOOLEAN,
           mrl : MRL, made : Int, prev : Int]
Filters == [kind : Kinds, instance : Int, fed : BOOLEAN, freed : BOOLEAN]
Outputs == [name : OutputName, refs : Int, instance : Int, freed : BOOLEAN]

InstancesTyped ==
  /\ instance \in Seq(Nat) /\ \A i \in DOMAIN instance : instance[i] # Outside => instance[i] \in DOMAIN output
  /\ destroyed \in Seq(Nat) /\ Len(destroyed) = Len(instance)
  /\ instancesList \in [Instances -> Nat]
FiltersTyped ==
  /\ filter \in Seq(Filters)
  /\ \A f \in DOMAIN filter : filter[f].instance \in Instances \cup {NoInstance}
  /\ groups \subseteq DOMAIN filter
OutputsTyped ==
  /\ output \in Seq(Outputs)
  /\ \A o \in DOMAIN output : output[o].instance \in Instances
  /\ outputsList \subseteq DOMAIN output
OrdersTyped == order \in [Commander -> Orders]

\* What goes with it: the filter or the output, and the instance made.
AtFilter(c) ==
  order[c].on \in Kinds /\ order[c].at \in groups /\ filter[order[c].at].kind = order[c].on
AtService(c) == order[c].on = "service" /\ AtFilter(c)
AtOutput(c) ==
  order[c].on \in OutputName /\ order[c].at \in outputsList /\ output[order[c].at].name = order[c].on
Made(c) == order[c].made \in Instances
MadeNone(c) == order[c].made = NoInstance
Has(f) == filter[f].instance # NoInstance

Entering(c) == order[c].todo = Enters /\ order[c].on = "service" /\ order[c].adds /\ MadeNone(c)
Creating(c) ==
  /\ MadeNone(c)
  /\ \/ order[c].todo = Creates /\ AtService(c) /\ (~Has(order[c].at) => order[c].adds)
     \/ order[c].todo = CreatesManual /\ order[c].on = "manual" /\ order[c].adds
     \/ order[c].todo = CreatesLocked /\ order[c].on = "manual"
     \/ order[c].todo = CreatesOutput /\ AtOutput(c)
Reading(c) == order[c].todo = Reads /\ AtService(c) /\ Made(c)
Setting(c) ==
  order[c].todo = Sets /\ AtService(c) /\ Made(c) /\ order[c].prev = filter[order[c].at].instance
Destroying(c) == order[c].todo = Destroys /\ AtService(c) /\ order[c].prev \in Instances \cup {NoInstance}
Unlisting(c) == order[c].todo = Unlists /\ AtFilter(c) /\ Has(order[c].at) /\ MadeNone(c)
Dropping(c) ==
  /\ order[c].todo = Drops /\ MadeNone(c)
  /\ order[c].on \in Kinds /\ order[c].at \in DOMAIN filter \ groups
  /\ filter[order[c].at].kind = order[c].on /\ Has(order[c].at) /\ ~filter[order[c].at].freed
Listing(c) == order[c].todo = Lists /\ order[c].on = "manual" /\ Made(c)
Locking(c) == order[c].todo = Locks /\ order[c].on = "manual" /\ MadeNone(c)
Stuck(c) ==
  /\ order[c].todo = LocksAgain
  /\ \/ order[c].on = "manual" /\ Made(c)
     \/ order[c].on \in OutputName /\ MadeNone(c) /\ order[c].at \in DOMAIN output \ outputsList
Replacing(c) == order[c].todo = Replaces /\ AtOutput(c) /\ Made(c)
Installing(c) == order[c].todo = Installs /\ AtOutput(c) /\ Made(c)

Fits(c) ==
  \/ order[c] = Resting
  \/ Entering(c) \/ Creating(c) \/ Reading(c) \/ Setting(c) \/ Destroying(c)
  \/ Unlisting(c) \/ Dropping(c) \/ Listing(c) \/ Locking(c) \/ Stuck(c)
  \/ Replacing(c) \/ Installing(c)

\* No two threads are at the same filter or output.
Alone == \A c, d \in Commander : c # d /\ order[c].on = order[d].on => order[c].on = "nothing"

\* c is to give filter f its first instance.
GivesFirst(c, f) ==
  /\ order[c].on = "service" /\ order[c].at = f /\ order[c].adds
  /\ Turn(c, "create") \/ Turn(c, "read") \/ Turn(c, "set")
FiltersKnown ==
  \A f \in DOMAIN filter :
     /\ f \in groups => ~filter[f].freed
     /\ filter[f].fed => f \in groups /\ Has(f)
     /\ ~Has(f) => \E c \in Commander : GivesFirst(c, f)
OutputsKnown == \A o \in DOMAIN output : o \in outputsList <=> ~output[o].freed

Counted ==
  /\ \A i \in DOMAIN instance : destroyed[i] + Held(i) = 1
  /\ tangled \/ \A i \in Instances : instancesList[i] = Held(i)
Referred ==
  \A o \in DOMAIN output :
     /\ output[o].refs = Cardinality(ReferringTo(o))
     /\ output[o].freed => ReferringTo(o) = {}

\* The packet loop has read the instance of a filter, or of an output.
Sent ==
  /\ packet.of \in groups /\ packet.to # NoInstance
  /\ \/ packet.to = filter[packet.of].instance
     \/ \E c \in Commander : Turn(c, "destroy") /\ order[c].at = packet.of /\ packet.to = order[c].prev
PassedOn ==
  /\ outputsMutex = "packet" /\ packet.of \in outputsList
  /\ packet.to = output[packet.of].instance
  /\ \A c \in Commander : ~Replaced(c, packet.of)
PacketKnown ==
  \/ packet = NoPacket
  \/ packet.at = "send" /\ Sent
  \/ packet.at = "through" /\ PassedOn

Running ==
  /\ InstancesTyped /\ FiltersTyped /\ OutputsTyped /\ OrdersTyped
  /\ \A c \in Commander : Fits(c)
  /\ Alone /\ FiltersKnown /\ OutputsKnown /\ Counted /\ Referred /\ PacketKnown
Over ==
  /\ packet = NoPacket /\ \A c \in Commander : order[c] = Resting
  /\ \A i \in DOMAIN instance : destroyed[i] = 1 + OutputsUninstall(i)
DeliveriesInv == crossed \/ (~misused /\ IF ended THEN Over ELSE Running)

-----------------------------------------------------------------------------
(* Plans, sequences and finite sets.                                       *)

\* The rest of each plan.
LEMMA PlansGoOn ==
  /\ Enters # <<>> /\ Head(Enters) = "enter" /\ Tail(Enters) = Creates
  /\ Creates # <<>> /\ Head(Creates) = "create" /\ Tail(Creates) = Reads
  /\ Reads # <<>> /\ Head(Reads) = "read" /\ Tail(Reads) = Sets
  /\ Sets # <<>> /\ Head(Sets) = "set" /\ Tail(Sets) = Destroys
  /\ Destroys # <<>> /\ Head(Destroys) = "destroy"
  /\ Unlists # <<>> /\ Head(Unlists) = "unlist" /\ Tail(Unlists) = Drops
  /\ Drops # <<>> /\ Head(Drops) = "drop"
  /\ CreatesManual # <<>> /\ Head(CreatesManual) = "create" /\ Tail(CreatesManual) = Lists
  /\ Lists # <<>> /\ Head(Lists) = "list"
  /\ Locks # <<>> /\ Head(Locks) = "lock" /\ Tail(Locks) = CreatesLocked
  /\ CreatesLocked # <<>> /\ Head(CreatesLocked) = "create" /\ Tail(CreatesLocked) = LocksAgain
  /\ LocksAgain # <<>> /\ Head(LocksAgain) = "relock"
  /\ CreatesOutput # <<>> /\ Head(CreatesOutput) = "create" /\ Tail(CreatesOutput) = Replaces
  /\ Replaces # <<>> /\ Head(Replaces) = "replace" /\ Tail(Replaces) = Installs
  /\ Installs # <<>> /\ Head(Installs) = "install"
<1>1. Enters # <<>> /\ Head(Enters) = "enter" /\ Tail(Enters) = Creates
  BY DEF Enters, Creates
<1>2. Creates # <<>> /\ Head(Creates) = "create" /\ Tail(Creates) = Reads
  BY DEF Creates, Reads
<1>3. Reads # <<>> /\ Head(Reads) = "read" /\ Tail(Reads) = Sets
  BY DEF Reads, Sets
<1>4. Sets # <<>> /\ Head(Sets) = "set" /\ Tail(Sets) = Destroys
  BY DEF Sets, Destroys
<1>5. Destroys # <<>> /\ Head(Destroys) = "destroy"
  BY DEF Destroys
<1>6. Unlists # <<>> /\ Head(Unlists) = "unlist" /\ Tail(Unlists) = Drops
  BY DEF Unlists, Drops
<1>7. Drops # <<>> /\ Head(Drops) = "drop"
  BY DEF Drops
<1>8. CreatesManual # <<>> /\ Head(CreatesManual) = "create" /\ Tail(CreatesManual) = Lists
  BY DEF CreatesManual, Lists
<1>9. Lists # <<>> /\ Head(Lists) = "list"
  BY DEF Lists
<1>10. Locks # <<>> /\ Head(Locks) = "lock" /\ Tail(Locks) = CreatesLocked
  BY DEF Locks, CreatesLocked
<1>11. CreatesLocked # <<>> /\ Head(CreatesLocked) = "create" /\ Tail(CreatesLocked) = LocksAgain
  BY DEF CreatesLocked, LocksAgain
<1>12. LocksAgain # <<>> /\ Head(LocksAgain) = "relock"
  BY DEF LocksAgain
<1>13. CreatesOutput # <<>> /\ Head(CreatesOutput) = "create" /\ Tail(CreatesOutput) = Replaces
  BY DEF CreatesOutput, Replaces
<1>14. Replaces # <<>> /\ Head(Replaces) = "replace" /\ Tail(Replaces) = Installs
  BY DEF Replaces, Installs
<1>15. Installs # <<>> /\ Head(Installs) = "install"
  BY DEF Installs
<1> QED
  BY <1>1, <1>2, <1>3, <1>4, <1>5, <1>6, <1>7, <1>8, <1>9, <1>10, <1>11, <1>12, <1>13, <1>14, <1>15

\* A thread's turn says what it is doing.
LEMMA TurnsTold ==
  ASSUME NEW c \in Commander, Fits(c)
  PROVE  /\ Turn(c, "enter") => Entering(c)
         /\ Turn(c, "create") => Creating(c)
         /\ Turn(c, "read") => Reading(c)
         /\ Turn(c, "set") => Setting(c)
         /\ Turn(c, "destroy") => Destroying(c)
         /\ Turn(c, "unlist") => Unlisting(c)
         /\ Turn(c, "drop") => Dropping(c)
         /\ Turn(c, "list") => Listing(c)
         /\ Turn(c, "lock") => Locking(c)
         /\ Turn(c, "relock") => Stuck(c)
         /\ Turn(c, "replace") => Replacing(c)
         /\ Turn(c, "install") => Installing(c)
<1> USE DEF Turn
<1>1. CASE order[c] = Resting
  BY <1>1 DEF Resting, OrderTo
<1>2. CASE Entering(c)
  BY <1>2, PlansGoOn DEF Entering
<1>3. CASE Creating(c)
  BY <1>3, PlansGoOn DEF Creating
<1>4. CASE Reading(c)
  BY <1>4, PlansGoOn DEF Reading
<1>5. CASE Setting(c)
  BY <1>5, PlansGoOn DEF Setting
<1>6. CASE Destroying(c)
  BY <1>6, PlansGoOn DEF Destroying
<1>7. CASE Unlisting(c)
  BY <1>7, PlansGoOn DEF Unlisting
<1>8. CASE Dropping(c)
  BY <1>8, PlansGoOn DEF Dropping
<1>9. CASE Listing(c)
  BY <1>9, PlansGoOn DEF Listing
<1>10. CASE Locking(c)
  BY <1>10, PlansGoOn DEF Locking
<1>11. CASE Stuck(c)
  BY <1>11, PlansGoOn DEF Stuck
<1>12. CASE Replacing(c)
  BY <1>12, PlansGoOn DEF Replacing
<1>13. CASE Installing(c)
  BY <1>13, PlansGoOn DEF Installing
<1> QED
  BY <1>1, <1>2, <1>3, <1>4, <1>5, <1>6, <1>7, <1>8, <1>9, <1>10, <1>11, <1>12, <1>13 DEF Fits

\* One element of a sequence changes.
LEMMA ElementChanges ==
  ASSUME NEW S, NEW s \in Seq(S), NEW k \in DOMAIN s, NEW e \in S, NEW t, t = [s EXCEPT ![k] = e]
  PROVE  /\ t \in Seq(S) /\ Len(t) = Len(s) /\ DOMAIN t = DOMAIN s
         /\ t[k] = e /\ \A j \in DOMAIN s : j # k => t[j] = s[j]
<1>1. k \in 1..Len(s) /\ DOMAIN s = 1..Len(s)
  BY LenProperties
<1> QED
  BY <1>1, ExceptSeq, LenProperties

\* One element is added to a sequence.
LEMMA ElementIsAdded ==
  ASSUME NEW S, NEW s \in Seq(S), NEW e \in S, NEW t, t = Append(s, e)
  PROVE  /\ t \in Seq(S) /\ Len(t) = Len(s) + 1 /\ Len(s) \in Nat
         /\ DOMAIN t = DOMAIN s \cup {Len(s) + 1} /\ Len(s) + 1 \notin DOMAIN s
         /\ t[Len(s) + 1] = e /\ \A j \in DOMAIN s : t[j] = s[j]
<1>1. Len(s) \in Nat /\ DOMAIN s = 1..Len(s)
  BY LenProperties
<1>2. /\ t \in Seq(S) /\ Len(t) = Len(s) + 1
      /\ \A j \in 1..Len(s) : t[j] = s[j]
      /\ t[Len(s) + 1] = e
  BY AppendProperties
<1>3. DOMAIN t = 1..Len(s) + 1
  BY <1>2, LenProperties
<1> QED
  BY <1>1, <1>2, <1>3

\* One thread's order changes.
LEMMA OrderChanges ==
  ASSUME OrdersTyped, NEW c \in Commander, NEW r \in Orders, order' = [order EXCEPT ![c] = r]
  PROVE  /\ OrdersTyped' /\ order'[c] = r
         /\ \A d \in Commander : d # c => order'[d] = order[d]
BY DEF OrdersTyped

\* A finite set and another that may differ from it in x.
CountIn(x, S) == IF x \in S THEN 1 ELSE 0

\* Two sets that differ in x at most differ by its count.
LEMMA OneApart ==
  ASSUME NEW S, IsFiniteSet(S), NEW T, NEW x, S \ {x} = T \ {x}
  PROVE  /\ IsFiniteSet(T) /\ Cardinality(S) \in Nat /\ Cardinality(T) \in Nat
         /\ Cardinality(T) = Cardinality(S) + CountIn(x, T) - CountIn(x, S)
         /\ CountIn(x, T) \in {0, 1} /\ CountIn(x, S) \in {0, 1} /\ CountIn(x, S) <= Cardinality(S)
<1>1. CountIn(x, T) \in {0, 1} /\ CountIn(x, S) \in {0, 1}
  BY DEF CountIn
<1>2. Cardinality(S) \in Nat
  BY FS_CardinalityType
<1>3. IsFiniteSet(S \ {x}) /\ Cardinality(S \ {x}) = IF x \in S THEN Cardinality(S) - 1 ELSE Cardinality(S)
  BY FS_RemoveElement
<1>4. Cardinality(S \ {x}) \in Nat
  BY <1>3, FS_CardinalityType
<1>5. CASE x \in T
  <2> DEFINE R == T \ {x}
  <2>1. T = R \cup {x} /\ x \notin R /\ IsFiniteSet(R) /\ Cardinality(R) = Cardinality(S \ {x})
    BY <1>3, <1>5
  <2> HIDE DEF R
  <2>2. IsFiniteSet(R \cup {x}) /\ Cardinality(R \cup {x}) = Cardinality(R) + 1
    BY <2>1, FS_AddElement
  <2>3. CountIn(x, T) = 1
    BY <1>5 DEF CountIn
  <2>4. IsFiniteSet(T) /\ Cardinality(T) = Cardinality(S \ {x}) + 1
    BY <2>1, <2>2
  <2> QED
    BY <1>1, <1>2, <1>3, <1>4, <2>3, <2>4 DEF CountIn
<1>6. CASE x \notin T
  <2>1. T = S \ {x}
    BY <1>6
  <2>2. CountIn(x, T) = 0
    BY <1>6 DEF CountIn
  <2> QED
    BY <1>1, <1>2, <1>3, <1>4, <2>1, <2>2 DEF CountIn
<1> QED
  BY <1>5, <1>6

\* There are finitely many of everything.
LEMMA FinitelyMany ==
  ASSUME InstancesTyped, FiltersTyped, OutputsTyped, NEW i
  PROVE  /\ IsFiniteSet(FiltersOf(i)) /\ IsFiniteSet(OutputsOf(i)) /\ IsFiniteSet(CarriersOf(i))
         /\ IsFiniteSet(ReferringTo(i)) /\ IsFiniteSet(groups) /\ IsFiniteSet(outputsList)
<1>1. IsFiniteSet(DOMAIN filter) /\ IsFiniteSet(DOMAIN output) /\ IsFiniteSet(DOMAIN instance)
  BY FS_Interval, LenProperties DEF InstancesTyped, FiltersTyped, OutputsTyped
<1>2. IsFiniteSet(Commander)
  BY DeliveriesAssumption
<1>3. FiltersOf(i) \subseteq DOMAIN filter /\ OutputsOf(i) \subseteq DOMAIN output /\ CarriersOf(i) \subseteq Commander
      /\ ReferringTo(i) \subseteq DOMAIN instance /\ groups \subseteq DOMAIN filter /\ outputsList \subseteq DOMAIN output
  BY DEF FiltersOf, OutputsOf, CarriersOf, ReferringTo, FiltersTyped, OutputsTyped
<1> QED
  BY <1>1, <1>2, <1>3, FS_Subset

\* What is held of an instance, when each kind of holder changes in one at most.
LEMMA HeldChanges ==
  ASSUME InstancesTyped, FiltersTyped, OutputsTyped, NEW i, NEW f, NEW o, NEW c,
         FiltersOf(i)' \ {f} = FiltersOf(i) \ {f},
         OutputsOf(i)' \ {o} = OutputsOf(i) \ {o},
         CarriersOf(i)' \ {c} = CarriersOf(i) \ {c}
  PROVE  /\ Held(i) \in Nat /\ Held(i)' \in Nat
         /\ Held(i)' = Held(i) + CountIn(f, FiltersOf(i)') - CountIn(f, FiltersOf(i))
                               + CountIn(o, OutputsOf(i)') - CountIn(o, OutputsOf(i))
                               + CountIn(c, CarriersOf(i)') - CountIn(c, CarriersOf(i))
<1>1. IsFiniteSet(FiltersOf(i)) /\ IsFiniteSet(OutputsOf(i)) /\ IsFiniteSet(CarriersOf(i))
  BY FinitelyMany
<1>2. /\ Cardinality(FiltersOf(i)) \in Nat /\ Cardinality(FiltersOf(i)') \in Nat
      /\ CountIn(f, FiltersOf(i)') \in {0, 1} /\ CountIn(f, FiltersOf(i)) \in {0, 1}
      /\ Cardinality(FiltersOf(i)') = Cardinality(FiltersOf(i)) + CountIn(f, FiltersOf(i)') - CountIn(f, FiltersOf(i))
  BY <1>1, OneApart
<1>3. /\ Cardinality(OutputsOf(i)) \in Nat /\ Cardinality(OutputsOf(i)') \in Nat
      /\ CountIn(o, OutputsOf(i)') \in {0, 1} /\ CountIn(o, OutputsOf(i)) \in {0, 1}
      /\ Cardinality(OutputsOf(i)') = Cardinality(OutputsOf(i)) + CountIn(o, OutputsOf(i)') - CountIn(o, OutputsOf(i))
  BY <1>1, OneApart
<1>4. /\ Cardinality(CarriersOf(i)) \in Nat /\ Cardinality(CarriersOf(i)') \in Nat
      /\ CountIn(c, CarriersOf(i)') \in {0, 1} /\ CountIn(c, CarriersOf(i)) \in {0, 1}
      /\ Cardinality(CarriersOf(i)') = Cardinality(CarriersOf(i)) + CountIn(c, CarriersOf(i)') - CountIn(c, CarriersOf(i))
  BY <1>1, OneApart
<1>5. Held(i) = Cardinality(FiltersOf(i)) + Cardinality(OutputsOf(i)) + Cardinality(CarriersOf(i))
  BY DEF Held
<1>6. Held(i)' = Cardinality(FiltersOf(i)') + Cardinality(OutputsOf(i)') + Cardinality(CarriersOf(i)')
  BY DEF Held
<1> QED
  BY <1>2, <1>3, <1>4, <1>5, <1>6

\* Who has a holder is held.
LEMMA HeldBySomeone ==
  ASSUME InstancesTyped, FiltersTyped, OutputsTyped, NEW i,
         FiltersOf(i) # {} \/ OutputsOf(i) # {} \/ CarriersOf(i) # {}
  PROVE  Held(i) \in Nat /\ Held(i) >= 1
<1>1. IsFiniteSet(FiltersOf(i)) /\ IsFiniteSet(OutputsOf(i)) /\ IsFiniteSet(CarriersOf(i))
  BY FinitelyMany
<1>2. /\ Cardinality(FiltersOf(i)) \in Nat /\ Cardinality(OutputsOf(i)) \in Nat /\ Cardinality(CarriersOf(i)) \in Nat
      /\ FiltersOf(i) # {} => Cardinality(FiltersOf(i)) # 0
      /\ OutputsOf(i) # {} => Cardinality(OutputsOf(i)) # 0
      /\ CarriersOf(i) # {} => Cardinality(CarriersOf(i)) # 0
  BY <1>1, FS_CardinalityType, FS_EmptySet
<1> QED
  BY <1>2 DEF Held

-----------------------------------------------------------------------------
(* What a step of one thread leaves to the others.                         *)

\* What another thread has in hand is not disturbed.
LEMMA FitsStay ==
  ASSUME InstancesTyped, InstancesTyped', NEW d \in Commander, Fits(d), order'[d] = order[d],
         Len(instance) <= Len(instance)',
         DOMAIN filter \subseteq DOMAIN filter', DOMAIN output \subseteq DOMAIN output',
         \A f \in DOMAIN filter :
            filter[f].kind = order[d].on =>
               /\ filter'[f].kind = filter[f].kind /\ filter'[f].instance = filter[f].instance
               /\ filter'[f].freed <=> filter[f].freed
               /\ f \in groups' <=> f \in groups,
         \A o \in DOMAIN output :
            /\ output'[o].name = output[o].name
            /\ o \in outputsList' => o \in outputsList
            /\ o \in outputsList /\ output[o].name = order[d].on => o \in outputsList',
         groups \subseteq DOMAIN filter, outputsList \subseteq DOMAIN output
  PROVE  Fits(d)'
<1>1. Instances \subseteq Instances'
  BY LenProperties DEF Instances, InstancesTyped
<1>2. (AtFilter(d) => AtFilter(d)') /\ (AtFilter(d) => filter'[order[d].at].instance = filter[order[d].at].instance)
  BY DEF AtFilter
<1>3. AtOutput(d) => AtOutput(d)'
  BY DEF AtOutput
<1>4. (Made(d) => Made(d)') /\ (MadeNone(d) => MadeNone(d)')
  BY <1>1 DEF Made, MadeNone
<1>5. AtService(d) => AtService(d)'
  BY <1>2 DEF AtService
<1>6. AtFilter(d) => (Has(order[d].at) <=> Has(order[d].at)')
  BY <1>2 DEF Has
<1>7. CASE order[d] = Resting
  BY <1>7 DEF Fits
<1>8. CASE Entering(d)
  BY <1>8, <1>4 DEF Fits, Entering
<1>9. CASE Creating(d)
  BY <1>9, <1>3, <1>4, <1>5, <1>6 DEF Fits, Creating, AtService
<1>10. CASE Reading(d)
  BY <1>10, <1>4, <1>5 DEF Fits, Reading
<1>11. CASE Setting(d)
  BY <1>11, <1>2, <1>4, <1>5 DEF Fits, Setting, AtService
<1>12. CASE Destroying(d)
  BY <1>12, <1>1, <1>5 DEF Fits, Destroying
<1>13. CASE Unlisting(d)
  BY <1>13, <1>2, <1>4, <1>6 DEF Fits, Unlisting
<1>14. CASE Dropping(d)
  <2>1. Dropping(d)'
    BY <1>14, <1>4 DEF Dropping, Has
  <2> QED
    BY <2>1 DEF Fits
<1>15. CASE Listing(d)
  BY <1>15, <1>4 DEF Fits, Listing
<1>16. CASE Locking(d)
  BY <1>16, <1>4 DEF Fits, Locking
<1>17. CASE Stuck(d)
  <2>1. Stuck(d)'
    BY <1>17, <1>4 DEF Stuck
  <2> QED
    BY <2>1 DEF Fits
<1>18. CASE Replacing(d)
  BY <1>18, <1>3, <1>4 DEF Fits, Replacing
<1>19. CASE Installing(d)
  BY <1>19, <1>3, <1>4 DEF Fits, Installing
<1> QED
  BY <1>7, <1>8, <1>9, <1>10, <1>11, <1>12, <1>13, <1>14, <1>15, <1>16, <1>17, <1>18, <1>19 DEF Fits

\* An instance that is held is neither gone nor off the list.
LEMMA HeldIsThere ==
  ASSUME InstancesTyped, Counted, NEW x \in Instances, Held(x) \in Nat, Held(x) >= 1
  PROVE  /\ ~Gone(x) /\ (tangled \/ instancesList[x] >= 1) /\ x # NoInstance
         /\ x # NullInstance => x \in DOMAIN instance /\ destroyed[x] = 0 /\ Held(x) = 1
<1>1. x \in Nat /\ DOMAIN instance = 1..Len(instance) /\ Len(instance) \in Nat /\ x <= Len(instance)
  BY LenProperties DEF Instances, NullInstance, InstancesTyped
<1>2. tangled \/ instancesList[x] >= 1
  BY DEF Counted
<1>3. x # NullInstance => x \in DOMAIN instance
  BY <1>1 DEF NullInstance
<1>4. x \in DOMAIN instance => destroyed[x] \in Nat /\ destroyed[x] + Held(x) = 1
  BY <1>1, ElementOfSeq DEF InstancesTyped, Counted
<1> QED
  BY <1>1, <1>2, <1>3, <1>4 DEF Gone, NoInstance

\* An instance that is held is destroyed: it is off the list.
LEMMA InstanceIsUnlisted ==
  ASSUME InstancesTyped, Counted, NEW x \in Instances, Held(x) \in Nat, Held(x) >= 1,
         NEW c \in Commander, DeliveryMethodDestroy(c, x), UNCHANGED instance
  PROVE  /\ ~Gone(x) /\ (tangled \/ instancesList[x] >= 1) /\ (misused' <=> misused)
         /\ x # NullInstance => x \in DOMAIN instance /\ destroyed[x] = 0
         /\ x \in Nat /\ DOMAIN instance = 1..Len(instance) /\ Len(instance) \in Nat /\ DOMAIN destroyed = DOMAIN instance
         /\ tangled' \/ (~tangled /\ \A i \in Instances : instancesList'[i] = IF i = x THEN instancesList[i] - 1 ELSE instancesList[i])
         /\ instancesList' \in [Instances -> Nat]
         /\ destroyed' \in Seq(Nat) /\ Len(destroyed') = Len(destroyed)
         /\ \A i \in DOMAIN instance : destroyed'[i] = IF i = x THEN destroyed[i] + 1 ELSE destroyed[i]
<1>1. /\ ~Gone(x) /\ (tangled \/ instancesList[x] >= 1)
      /\ x # NullInstance => x \in DOMAIN instance /\ destroyed[x] = 0
  BY HeldIsThere
<1>2. misused' <=> misused
  BY <1>1 DEF DeliveryMethodDestroy
<1>3. x \in Nat /\ DOMAIN instance = 1..Len(instance) /\ Len(instance) \in Nat /\ DOMAIN destroyed = DOMAIN instance
  BY LenProperties DEF Instances, NullInstance, InstancesTyped
<1>4. tangled' \/ (~tangled /\ \A i \in Instances : instancesList'[i] = IF i = x THEN instancesList[i] - 1 ELSE instancesList[i])
  BY <1>1 DEF DeliveryMethodDestroy, ChangeInstancesList, InstancesTyped
<1>5. instancesList' \in [Instances -> Nat]
  BY <1>3 DEF DeliveryMethodDestroy, ChangeInstancesList, InstancesTyped, Instances
<1>6. /\ destroyed' \in Seq(Nat) /\ Len(destroyed') = Len(destroyed)
      /\ \A i \in DOMAIN instance : destroyed'[i] = IF i = x THEN destroyed[i] + 1 ELSE destroyed[i]
  <2>1. CASE x > 0
    <3>1. x \in DOMAIN destroyed /\ destroyed[x] + 1 \in Nat
      BY <2>1, <1>1, <1>3 DEF NullInstance
    <3>2. destroyed' = [destroyed EXCEPT ![x] = destroyed[x] + 1] /\ destroyed \in Seq(Nat)
      BY <2>1 DEF DeliveryMethodDestroy, InstancesTyped
    <3> QED
      BY <3>1, <3>2, <1>3, ElementChanges
  <2>2. CASE x = 0
    BY <2>2, <1>3 DEF DeliveryMethodDestroy, InstancesTyped
  <2> QED
    BY <2>1, <2>2, <1>3
<1> QED
  BY <1>1, <1>2, <1>3, <1>4, <1>5, <1>6

\* And the output it refers to counts one less.
LEMMA InstanceIsDestroyed ==
  ASSUME InstancesTyped, FiltersTyped, OutputsTyped, Counted, Referred, OutputsKnown,
         NEW x \in Instances, Held(x) \in Nat, Held(x) >= 1,
         NEW c \in Commander, DeliveryMethodDestroy(c, x), output' = OutputsDestroy(x), UNCHANGED <<instance, outputsList>>
  PROVE  /\ InstancesTyped' /\ OutputsTyped' /\ Referred' /\ OutputsKnown' /\ (misused' <=> misused)
         /\ DOMAIN output' = DOMAIN output
         /\ \A o \in DOMAIN output :
              /\ output'[o].name = output[o].name /\ output'[o].instance = output[o].instance
              /\ output'[o].freed <=> output[o].freed
         /\ \A i \in DOMAIN instance : destroyed'[i] = IF i = x THEN destroyed[i] + 1 ELSE destroyed[i]
         /\ tangled' \/ (~tangled /\ \A i \in Instances : instancesList'[i] = IF i = x THEN instancesList[i] - 1 ELSE instancesList[i])
<1>1. /\ ~Gone(x) /\ (tangled \/ instancesList[x] >= 1)
      /\ x # NullInstance => x \in DOMAIN instance /\ destroyed[x] = 0
  BY InstanceIsUnlisted
<1>2. misused' <=> misused
  BY InstanceIsUnlisted
<1>3. x \in Nat /\ DOMAIN instance = 1..Len(instance) /\ Len(instance) \in Nat /\ DOMAIN destroyed = DOMAIN instance
  BY InstanceIsUnlisted
<1>4. tangled' \/ (~tangled /\ \A i \in Instances : instancesList'[i] = IF i = x THEN instancesList[i] - 1 ELSE instancesList[i])
  BY InstanceIsUnlisted
<1>5. instancesList' \in [Instances -> Nat]
  BY InstanceIsUnlisted
<1>6. /\ destroyed' \in Seq(Nat) /\ Len(destroyed') = Len(destroyed)
      /\ \A i \in DOMAIN instance : destroyed'[i] = IF i = x THEN destroyed[i] + 1 ELSE destroyed[i]
  BY InstanceIsUnlisted
<1>p. PICK p : p = Through(x)
  OBVIOUS
<1>7. CASE p = Outside
  <2>1. output' = output
    BY <1>7, <1>p DEF OutputsDestroy
  <2>2. InstancesTyped'
    BY <2>1, <1>5, <1>6 DEF InstancesTyped, Instances
  <2>3. OutputsTyped' /\ OutputsKnown'
    BY <2>1 DEF OutputsTyped, OutputsKnown, Instances
  <2>4. ASSUME NEW o \in DOMAIN output
        PROVE  ReferringTo(o)' = ReferringTo(o)
    <3>1. o # 0
      BY LenProperties DEF OutputsTyped
    <3>2. x \in DOMAIN instance => instance[x] # o
      BY <3>1, <1>3, <1>7, <1>p DEF Through, Outside
    <3> QED
      BY <3>2, <1>6 DEF ReferringTo
  <2>5. Referred'
    BY <2>1, <2>4 DEF Referred
  <2> QED
    BY <1>2, <1>4, <1>6, <2>1, <2>2, <2>3, <2>5
<1>8. CASE p # Outside
  <2>1. x \in DOMAIN instance /\ p = instance[x] /\ destroyed[x] = 0 /\ p \in DOMAIN output
    <3>1. x > 0 /\ p = instance[x]
      BY <1>8, <1>p DEF Through
    <3>2. x \in DOMAIN instance /\ destroyed[x] = 0
      BY <3>1, <1>1, <1>3 DEF NullInstance
    <3>3. p \in DOMAIN output
      BY <3>1, <3>2, <1>8 DEF InstancesTyped
    <3> QED
      BY <3>1, <3>2, <3>3
  <2> DEFINE r == [output[p] EXCEPT !.refs = @ - 1]
  <2>2. output[p] \in Outputs
    BY <2>1, ElementOfSeq, LenProperties DEF OutputsTyped
  <2>3. /\ r \in Outputs /\ r.name = output[p].name /\ r.instance = output[p].instance
        /\ r.freed = output[p].freed /\ r.refs = output[p].refs - 1
    BY <2>2 DEF Outputs
  <2>4. output' = [output EXCEPT ![p] = r]
    BY <1>8, <1>p DEF OutputsDestroy
  <2> HIDE DEF r
  <2>5. /\ output' \in Seq(Outputs) /\ Len(output') = Len(output) /\ DOMAIN output' = DOMAIN output
        /\ output'[p] = r /\ \A o \in DOMAIN output : o # p => output'[o] = output[o]
    BY <2>1, <2>3, <2>4, ElementChanges DEF OutputsTyped
  <2>6. \A o \in DOMAIN output :
          /\ output'[o].name = output[o].name /\ output'[o].instance = output[o].instance
          /\ output'[o].freed <=> output[o].freed
    BY <2>3, <2>5
  <2>7. InstancesTyped'
    BY <2>5, <1>5, <1>6 DEF InstancesTyped, Instances
  <2>8. OutputsTyped' /\ OutputsKnown'
    BY <2>5, <2>6 DEF OutputsTyped, OutputsKnown, Instances
  <2>9. ASSUME NEW o \in DOMAIN output, o # p
        PROVE  ReferringTo(o)' = ReferringTo(o)
    BY <2>9, <2>1, <1>6 DEF ReferringTo
  <2>10. x \in ReferringTo(p) /\ ReferringTo(p)' = ReferringTo(p) \ {x}
    BY <2>1, <1>6 DEF ReferringTo
  <2>11. IsFiniteSet(ReferringTo(p))
    BY FinitelyMany
  <2>12. Cardinality(ReferringTo(p)') = Cardinality(ReferringTo(p)) - 1
    BY <2>10, <2>11, FS_RemoveElement
  <2>13. output[p].refs = Cardinality(ReferringTo(p)) /\ ~output[p].freed
    BY <2>1, <2>10 DEF Referred
  <2>14. Referred'
    <3> SUFFICES ASSUME NEW o \in DOMAIN output'
                 PROVE  /\ output'[o].refs = Cardinality(ReferringTo(o)')
                        /\ output'[o].freed => ReferringTo(o)' = {}
      BY DEF Referred
    <3>1. CASE o = p
      BY <3>1, <2>3, <2>5, <2>6, <2>12, <2>13, <2>1
    <3>2. CASE o # p
      BY <3>2, <2>5, <2>9 DEF Referred
    <3> QED
      BY <3>1, <3>2
  <2> QED
    BY <1>2, <1>4, <1>6, <2>5, <2>6, <2>7, <2>8, <2>14
<1> QED
  BY <1>7, <1>8

\* One instance has a holder less and is destroyed: the count is right again.
LEMMA CountsChange ==
  ASSUME InstancesTyped, Counted, UNCHANGED instance, Instances' = Instances, NEW x,
         \A i \in Instances : Held(i)' = (IF i = x THEN Held(i) - 1 ELSE Held(i)) /\ Held(i) \in Nat,
         \A i \in DOMAIN instance : destroyed'[i] = IF i = x THEN destroyed[i] + 1 ELSE destroyed[i],
         tangled' \/ (~tangled /\ \A i \in Instances : instancesList'[i] = IF i = x THEN instancesList[i] - 1 ELSE instancesList[i])
  PROVE  Counted'
<1>1. DOMAIN instance \subseteq Instances /\ DOMAIN instance = 1..Len(instance) /\ DOMAIN destroyed = 1..Len(instance)
  BY LenProperties DEF InstancesTyped, Instances, NullInstance
<1>2. ASSUME NEW i \in DOMAIN instance
      PROVE  destroyed'[i] + Held(i)' = 1
  <2>1. destroyed[i] \in Nat /\ destroyed[i] + Held(i) = 1
    BY <1>1, ElementOfSeq DEF InstancesTyped, Counted
  <2> QED
    BY <2>1, <1>1
<1>3. ASSUME ~tangled', NEW i \in Instances
      PROVE  instancesList'[i] = Held(i)'
  BY <1>3 DEF Counted
<1> QED
  BY <1>2, <1>3 DEF Counted

\* Outputs are held as before when no thread has begun or stopped to replace
\* an instance, or to wait.
LEMMA OutputsStay ==
  ASSUME DOMAIN output' = DOMAIN output,
         \A o \in DOMAIN output :
           output'[o].instance = output[o].instance /\ (output'[o].freed <=> output[o].freed),
         \A c \in Commander, o \in DOMAIN output :
           (Waits(c, o)' <=> Waits(c, o)) /\ (Replaced(c, o)' <=> Replaced(c, o)),
         NEW i
  PROVE  OutputsOf(i)' = OutputsOf(i)
<1> QED
  BY DEF OutputsOf

\* The same for all outputs but o, of those there are or were.
LEMMA OtherOutputsStay ==
  ASSUME NEW o, DOMAIN output' \ {o} = DOMAIN output \ {o},
         \A p \in DOMAIN output : p # o =>
           output'[p].instance = output[p].instance /\ (output'[p].freed <=> output[p].freed),
         \A c \in Commander, p \in DOMAIN output : p # o =>
           (Waits(c, p)' <=> Waits(c, p)) /\ (Replaced(c, p)' <=> Replaced(c, p)),
         NEW i
  PROVE  OutputsOf(i)' \ {o} = OutputsOf(i) \ {o}
<1>1. ASSUME NEW p, p # o
      PROVE  p \in OutputsOf(i)' <=> p \in OutputsOf(i)
  BY <1>1 DEF OutputsOf
<1> QED
  BY <1>1

\* An output no other thread is at.
LEMMA NoOtherReplaces ==
  ASSUME Running, NEW o \in DOMAIN output, NEW c \in Commander,
         order[c].on = output[o].name \/ ~Meets(c, output[o].name),
         NEW d \in Commander, d # c
  PROVE  ~Replaced(d, o)
<1> SUFFICES ASSUME Replaced(d, o)
             PROVE  FALSE
  OBVIOUS
<1>1. Installing(d) /\ order[d].at = o
  BY TurnsTold DEF Replaced, Running
<1>2. order[d].on = output[o].name /\ order[d].on \in OutputName
  BY <1>1 DEF Installing, AtOutput
<1>3. "nothing" \notin OutputName
  BY DeliveriesAssumption
<1> QED
  BY <1>2, <1>3 DEF Meets, Running, Alone

\* Filters hold what they held.
LEMMA FiltersStay ==
  ASSUME UNCHANGED filter, NEW i
  PROVE  FiltersOf(i)' = FiltersOf(i)
BY DEF FiltersOf

\* The others are where they were.
LEMMA ThreadStays ==
  ASSUME NEW d \in Commander, order'[d] = order[d], NEW x, NEW s
  PROVE  /\ Turn(d, s)' <=> Turn(d, s)
         /\ Waits(d, x)' <=> Waits(d, x)
         /\ Replaced(d, x)' <=> Replaced(d, x)
         /\ GivesFirst(d, x)' <=> GivesFirst(d, x)
         /\ Carried(d)' = Carried(d)
BY DEF Turn, Waits, Replaced, GivesFirst, Carried

\* The other threads hold what they held.
LEMMA OthersCarryOn ==
  ASSUME NEW c \in Commander, \A d \in Commander : d # c => order'[d] = order[d], NEW i
  PROVE  CarriersOf(i)' \ {c} = CarriersOf(i) \ {c}
<1>1. \A d \in Commander : d # c => Carried(d)' = Carried(d)
  BY ThreadStays
<1> QED
  BY <1>1 DEF CarriersOf

\* The packet loop is where it was, and so is what it has read.
LEMMA PacketStays ==
  ASSUME PacketKnown, UNCHANGED packet,
         packet.at = "send" =>
           /\ packet.of \in groups'
           /\ filter'[packet.of].instance = filter[packet.of].instance
           /\ \A c \in Commander : Turn(c, "destroy") => order'[c] = order[c],
         packet.at = "through" =>
           /\ UNCHANGED outputsMutex /\ packet.of \in outputsList'
           /\ output'[packet.of].instance = output[packet.of].instance
           /\ \A c \in Commander : ~Replaced(c, packet.of)'
  PROVE  PacketKnown'
<1>1. CASE packet = NoPacket
  BY <1>1 DEF PacketKnown, NoPacket
<1>2. CASE packet.at = "send" /\ Sent
  <2>1. CASE packet.to = filter[packet.of].instance
    BY <2>1, <1>2 DEF PacketKnown, Sent
  <2>2. ASSUME NEW c \in Commander, Turn(c, "destroy") /\ order[c].at = packet.of /\ packet.to = order[c].prev
        PROVE  PacketKnown'
    <3>1. order'[c] = order[c] /\ Turn(c, "destroy")'
      BY <2>2, <1>2, ThreadStays
    <3>2. Sent'
      BY <3>1, <2>2, <1>2 DEF Sent
    <3> QED
      BY <3>2, <1>2 DEF PacketKnown
  <2> QED
    BY <1>2, <2>1, <2>2 DEF Sent
<1>3. CASE packet.at = "through" /\ PassedOn
  <2> QED
    BY <1>3 DEF PacketKnown, PassedOn
<1> QED
  BY <1>1, <1>2, <1>3 DEF PacketKnown

\* Only c moves, and neither begins nor ends to hold anything.
LEMMA OrderMoves ==
  ASSUME Running, NEW c \in Commander, NEW r \in Orders, order' = [order EXCEPT ![c] = r],
         UNCHANGED <<instance, destroyed, instancesList, tangled, filter, groups, output, outputsList, packet, outputsMutex>>,
         Fits(c)', Alone', Carried(c)' = Carried(c), ~Turn(c, "destroy"),
         \A o \in DOMAIN output : Waits(c, o)' <=> Waits(c, o),
         \A o \in DOMAIN output : ~Replaced(c, o) /\ ~Replaced(c, o)',
         \A f \in DOMAIN filter : GivesFirst(c, f) => GivesFirst(c, f)'
  PROVE  Running'
<1>1. InstancesTyped' /\ FiltersTyped' /\ OutputsTyped' /\ OutputsKnown' /\ Referred'
  BY DEF Running, InstancesTyped, FiltersTyped, OutputsTyped, OutputsKnown, Referred, ReferringTo, Instances
<1>2. OrdersTyped' /\ \A d \in Commander : d # c => order'[d] = order[d]
  BY OrderChanges DEF Running
<1>3. \A d \in Commander : Fits(d)'
  <2> SUFFICES ASSUME NEW d \in Commander, d # c PROVE Fits(d)'
    OBVIOUS
  <2>1. Fits(d) /\ groups \subseteq DOMAIN filter /\ outputsList \subseteq DOMAIN output /\ InstancesTyped
    BY DEF Running, FiltersTyped, OutputsTyped
  <2>2. Len(instance) <= Len(instance)'
    BY <2>1, LenProperties DEF InstancesTyped
  <2> QED
    BY <1>1, <1>2, <2>1, <2>2, FitsStay
<1>4. FiltersKnown'
  <2> SUFFICES ASSUME NEW f \in DOMAIN filter, ~Has(f) PROVE \E d \in Commander : GivesFirst(d, f)'
    BY DEF Running, FiltersKnown, Has
  <2>1. PICK d \in Commander : GivesFirst(d, f)
    BY DEF Running, FiltersKnown
  <2> QED
    BY <2>1, <1>2, ThreadStays
<1>5. ASSUME NEW i
      PROVE  Held(i)' = Held(i)
  <2>1. FiltersOf(i)' = FiltersOf(i)
    BY FiltersStay
  <2>2. \A d \in Commander, o \in DOMAIN output : (Waits(d, o)' <=> Waits(d, o)) /\ (Replaced(d, o)' <=> Replaced(d, o))
    BY <1>2, ThreadStays
  <2>3. OutputsOf(i)' = OutputsOf(i)
    BY <2>2, OutputsStay
  <2>4. \A d \in Commander : Carried(d)' = Carried(d)
    BY <1>2, ThreadStays
  <2>5. CarriersOf(i)' = CarriersOf(i)
    BY <2>4 DEF CarriersOf
  <2> QED
    BY <2>1, <2>3, <2>5 DEF Held
<1>6. Counted'
  <2> QED
    BY <1>5 DEF Running, Counted, Instances
<1>7. PacketKnown'
  <2>1. PacketKnown /\ FiltersTyped /\ OutputsTyped
    BY DEF Running
  <2>2. packet.at = "send" => packet.of \in groups /\ \A d \in Commander : Turn(d, "destroy") => order'[d] = order[d]
    BY <2>1, <1>2 DEF PacketKnown, Sent, NoPacket
  <2>3. packet.at = "through" => packet.of \in outputsList /\ \A d \in Commander : ~Replaced(d, packet.of)'
    <3> SUFFICES ASSUME packet.at = "through"
                 PROVE  packet.of \in outputsList /\ \A d \in Commander : ~Replaced(d, packet.of)'
      OBVIOUS
    <3>1. PassedOn
      BY <2>1 DEF PacketKnown, NoPacket
    <3>2. PICK o \in DOMAIN output : o = packet.of
      BY <2>1, <3>1 DEF PassedOn, OutputsTyped
    <3>3. \A d \in Commander : ~Replaced(d, o)'
      BY <3>1, <3>2, <1>2, ThreadStays DEF PassedOn
    <3> QED
      BY <3>1, <3>2, <3>3 DEF PassedOn
  <2> QED
    BY <2>1, <2>2, <2>3, PacketStays
<1> QED
  BY <1>1, <1>2, <1>3, <1>4, <1>6, <1>7 DEF Running

-----------------------------------------------------------------------------
(* Commands start.                                                         *)

\* An order is given to a thread that rests.
LEMMA OrderIsGiven ==
  ASSUME Running, ~crossed', NEW c \in Commander, NEW on \in Kinds \cup OutputName, NEW at \in Nat,
         NEW m \in MRL, NEW todo \in Plans, Order(c, on, at, m, todo),
         todo # <<>>, Head(todo) \notin {"relock", "install", "destroy"}, Fits(c)'
  PROVE  Running'
<1> DEFINE r == OrderTo(on, at, m, todo)
<1>1. r \in Orders /\ r.todo = todo /\ r.on = on /\ r.at = at /\ r.made = NoInstance
  <2>1. (at = 0) \in BOOLEAN /\ NoInstance \in Int
    BY DEF NoInstance
  <2> QED
    BY <2>1 DEF OrderTo, Orders
<1>2. order' = [order EXCEPT ![c] = r] /\ order[c] = Resting
  BY DEF Order
<1> HIDE DEF r
<1>3. OrdersTyped' /\ order'[c] = r /\ \A d \in Commander : d # c => order'[d] = order[d]
  BY <1>1, <1>2, OrderChanges DEF Running
<1>4. Alone'
  <2>1. \A d \in Commander : d # c => order[d].on # on
    BY DEF Order, Meets
  <2> QED
    BY <2>1, <1>1, <1>3 DEF Running, Alone
<1>5. Carried(c) = NoInstance /\ Carried(c)' = NoInstance /\ ~Turn(c, "destroy")
  BY <1>1, <1>2, <1>3 DEF Carried, Turn, Resting, OrderTo
<1>6. \A x : ~Waits(c, x) /\ ~Waits(c, x)' /\ ~Replaced(c, x) /\ ~Replaced(c, x)' /\ ~GivesFirst(c, x)
  BY <1>1, <1>2, <1>3 DEF Waits, Replaced, GivesFirst, Turn, Resting, OrderTo
<1>7. UNCHANGED <<instance, destroyed, instancesList, tangled, filter, groups, output, outputsList, packet, outputsMutex>>
  BY DEF Order
<1> QED
  BY <1>1, <1>2, <1>4, <1>5, <1>6, <1>7, OrderMoves

\* A filter nobody is at has an instance.
LEMMA HasUnlessGiven ==
  ASSUME Running, NEW c \in Commander, order[c] = Resting, NEW f \in DOMAIN filter, ~Meets(c, filter[f].kind)
  PROVE  Has(f)
<1> SUFFICES ASSUME NEW d \in Commander, GivesFirst(d, f)
             PROVE  FALSE
  BY DEF Running, FiltersKnown
<1>1. Creating(d) \/ Reading(d) \/ Setting(d)
  BY TurnsTold DEF GivesFirst, Running
<1>2. order[d].on = "service" /\ order[d].at = f
  BY DEF GivesFirst
<1>3. "manual" \notin OutputName /\ "service" \notin OutputName
  BY DeliveriesAssumption
<1>4. AtService(d)
  BY <1>1, <1>2, <1>3 DEF Creating, Reading, Setting, AtOutput
<1>5. filter[f].kind = "service"
  BY <1>2, <1>4 DEF AtService, AtFilter
<1>6. d # c
  BY <1>2 DEF Resting, OrderTo
<1> QED
  BY <1>2, <1>5, <1>6 DEF Meets

\* CommandAddSF starts.
LEMMA ServiceFilterIsAdded ==
  ASSUME Running, ~crossed', NEW c \in Commander, NEW m \in MRL, CommandAddSF(c, m)
  PROVE  Running'
<1>1. Order(c, "service", 0, m, Enters)
  BY DEF CommandAddSF, Enters
<1>2. Enters \in Plans /\ Enters # <<>> /\ Head(Enters) = "enter"
  BY PlansGoOn DEF Plans
<1>3. Fits(c)'
  <2>1. order'[c] = OrderTo("service", 0, m, Enters)
    BY <1>1 DEF Order, Running, OrdersTyped
  <2>2. /\ order'[c].todo = Enters /\ order'[c].on = "service" /\ order'[c].made = NoInstance
        /\ order'[c].adds = (0 = 0)
    BY <2>1 DEF OrderTo
  <2>3. Entering(c)'
    BY <2>2 DEF Entering, MadeNone
  <2> QED
    BY <2>3 DEF Fits
<1> QED
  BY <1>1, <1>2, <1>3, OrderIsGiven DEF Kinds

\* CommandSetSFMRL starts.
LEMMA ServiceFilterIsGivenMRL ==
  ASSUME Running, ~crossed', NEW c \in Commander, NEW m \in MRL, CommandSetSFMRL(c, m)
  PROVE  Running'
<1>1. PICK f \in Listed("service") : Order(c, "service", f, m, Creates)
  BY DEF CommandSetSFMRL, Creates
<1>2. Creates \in Plans /\ Creates # <<>> /\ Head(Creates) = "create"
  BY PlansGoOn DEF Plans
<1>3. f \in groups /\ f \in DOMAIN filter /\ f \in Nat /\ f # 0 /\ filter[f].kind = "service"
  BY <1>1, LenProperties DEF Listed, Running, FiltersTyped
<1>4. Has(f)
  BY <1>1, <1>3, HasUnlessGiven DEF Order
<1>5. Fits(c)'
  <2>1. order'[c] = OrderTo("service", f, m, Creates)
    BY <1>1 DEF Order, Running, OrdersTyped
  <2>2. UNCHANGED <<filter, groups>>
    BY <1>1 DEF Order
  <2>3. Creating(c)'
    BY <2>1, <2>2, <1>3, <1>4 DEF Creating, AtService, AtFilter, MadeNone, Resting, OrderTo, Has, Kinds
  <2> QED
    BY <2>3 DEF Fits
<1> QED
  BY <1>1, <1>2, <1>3, <1>5, OrderIsGiven DEF Kinds

\* A filter of either kind is to be removed.
LEMMA FilterIsToBeRemoved ==
  ASSUME Running, ~crossed', NEW c \in Commander, NEW kind \in Kinds, NEW f \in Listed(kind),
         Order(c, kind, f, "null", Unlists)
  PROVE  Running'
<1>1. Unlists \in Plans /\ Unlists # <<>> /\ Head(Unlists) = "unlist"
  BY PlansGoOn DEF Plans
<1>2. f \in groups /\ f \in DOMAIN filter /\ f \in Nat /\ f # 0 /\ filter[f].kind = kind
  BY LenProperties DEF Listed, Running, FiltersTyped
<1>3. Has(f)
  BY <1>2, HasUnlessGiven DEF Order
<1>4. Fits(c)'
  <2>1. order'[c] = OrderTo(kind, f, "null", Unlists)
    BY DEF Order, Running, OrdersTyped
  <2>2. UNCHANGED <<filter, groups>>
    BY DEF Order
  <2>3. Unlisting(c)'
    BY <2>1, <2>2, <1>2, <1>3 DEF Unlisting, AtFilter, MadeNone, OrderTo, Has
  <2> QED
    BY <2>3 DEF Fits
<1>5. kind \in Kinds \cup OutputName /\ "null" \in MRL
  BY DEF MRL
<1> QED
  BY <1>1, <1>2, <1>4, <1>5, OrderIsGiven

\* CommandRemoveSF starts.
LEMMA ServiceFilterIsToGo ==
  ASSUME Running, ~crossed', NEW c \in Commander, CommandRemoveSF(c)
  PROVE  Running'
<1>1. PICK f \in Listed("service") : Order(c, "service", f, "null", Unlists)
  BY DEF CommandRemoveSF, Unlists
<1> QED
  BY <1>1, FilterIsToBeRemoved DEF Kinds

\* CommandRemoveMF starts.
LEMMA ManualFilterIsToGo ==
  ASSUME Running, ~crossed', NEW c \in Commander, CommandRemoveMF(c)
  PROVE  Running'
<1>1. PICK f \in Listed("manual") : Order(c, "manual", f, "null", Unlists)
  BY DEF CommandRemoveMF, Unlists
<1> QED
  BY <1>1, FilterIsToBeRemoved DEF Kinds

\* CommandAddMF starts.
LEMMA ManualFilterIsAdded ==
  ASSUME Running, ~crossed', NEW c \in Commander, NEW m \in MRL, CommandAddMF(c, m)
  PROVE  Running'
<1>1. Order(c, "manual", 0, m, CreatesManual)
  BY DEF CommandAddMF, CreatesManual
<1>2. CreatesManual \in Plans /\ CreatesManual # <<>> /\ Head(CreatesManual) = "create"
  BY PlansGoOn DEF Plans
<1>3. Fits(c)'
  <2>1. order'[c] = OrderTo("manual", 0, m, CreatesManual)
    BY <1>1 DEF Order, Running, OrdersTyped
  <2>2. /\ order'[c].todo = CreatesManual /\ order'[c].on = "manual" /\ order'[c].made = NoInstance
        /\ order'[c].adds = (0 = 0)
    BY <2>1 DEF OrderTo
  <2>3. Creating(c)'
    BY <2>2 DEF Creating, MadeNone
  <2> QED
    BY <2>3 DEF Fits
<1> QED
  BY <1>1, <1>2, <1>3, OrderIsGiven DEF Kinds

\* CommandSetOutputMRL starts.
LEMMA ManualFilterIsGivenMRL ==
  ASSUME Running, ~crossed', NEW c \in Commander, NEW m \in MRL, CommandSetOutputMRL(c, m)
  PROVE  Running'
<1>1. PICK f \in Listed("manual") : Order(c, "manual", f, m, Locks)
  BY DEF CommandSetOutputMRL, Locks
<1>2. Locks \in Plans /\ Locks # <<>> /\ Head(Locks) = "lock"
  BY PlansGoOn DEF Plans
<1>3. f \in Nat
  BY <1>1, LenProperties DEF Listed, Running, FiltersTyped
<1>4. Fits(c)'
  <2>1. order'[c] = OrderTo("manual", f, m, Locks)
    BY <1>1 DEF Order, Running, OrdersTyped
  <2>2. Locking(c)'
    BY <2>1 DEF Locking, MadeNone, OrderTo
  <2> QED
    BY <2>2 DEF Fits
<1> QED
  BY <1>1, <1>2, <1>3, <1>4, OrderIsGiven DEF Kinds

\* OutputPropertyMRLSet starts.
LEMMA OutputIsGivenMRL ==
  ASSUME Running, ~crossed', NEW c \in Commander, NEW x \in OutputName, NEW m \in MRL,
         OutputPropertyMRLSet(c, x, m)
  PROVE  Running'
<1>1. PICK o \in OutputsCalled(x) : Order(c, x, o, m, CreatesOutput)
  BY DEF OutputPropertyMRLSet, CreatesOutput
<1>2. CreatesOutput \in Plans /\ CreatesOutput # <<>> /\ Head(CreatesOutput) = "create"
  BY PlansGoOn DEF Plans
<1>3. o \in Nat /\ o \in outputsList /\ output[o].name = x
  BY <1>1, LenProperties DEF OutputsCalled, Running, OutputsTyped
<1>4. Fits(c)'
  <2>1. order'[c] = OrderTo(x, o, m, CreatesOutput)
    BY <1>1 DEF Order, Running, OrdersTyped
  <2>2. UNCHANGED <<output, outputsList>>
    BY <1>1 DEF Order
  <2>3. Creating(c)'
    BY <2>1, <2>2, <1>3 DEF Creating, AtOutput, MadeNone, OrderTo
  <2> QED
    BY <2>3 DEF Fits
<1> QED
  BY <1>1, <1>2, <1>3, <1>4, OrderIsGiven

-----------------------------------------------------------------------------
(* Their steps, and the packet loop's.                                     *)

\* ServiceFilterDeliveryMethodSet reads the filter's instance.
LEMMA InstanceIsRead ==
  ASSUME Running, NEW c \in Commander, ReadInstance(c)
  PROVE  Running' /\ (misused' <=> misused)
<1>1. Reading(c) /\ order[c] \in Orders
  BY TurnsTold DEF ReadInstance, Running, OrdersTyped
<1> DEFINE f == order[c].at
           r == [[order[c] EXCEPT !.prev = filter[f].instance] EXCEPT !.todo = Tail(order[c].todo)]
<1>2. /\ f \in groups /\ f \in DOMAIN filter /\ filter[f].instance \in Int /\ ~filter[f].freed
  <2>1. f \in groups /\ f \in DOMAIN filter
    BY <1>1 DEF Reading, AtService, AtFilter, Running, FiltersTyped
  <2> QED
    BY <2>1 DEF Running, FiltersTyped, FiltersKnown, Instances, NullInstance, NoInstance
<1>3. Tail(order[c].todo) = Sets /\ Sets \in Plans
  BY <1>1, PlansGoOn DEF Reading, Plans
<1>4. /\ r \in Orders /\ r.todo = Sets /\ r.on = order[c].on /\ r.at = f
      /\ r.made = order[c].made /\ r.prev = filter[f].instance /\ (r.adds <=> order[c].adds)
  BY <1>1, <1>2, <1>3 DEF Orders
<1>5. order' = [order EXCEPT ![c] = r] /\ (misused' <=> misused)
  BY <1>2 DEF ReadInstance, Advance
<1> HIDE DEF r
<1>6. order'[c] = r /\ \A d \in Commander : d # c => order'[d] = order[d]
  BY <1>4, <1>5, OrderChanges DEF Running
<1>7. UNCHANGED <<instance, destroyed, instancesList, tangled, filter, groups, output, outputsList, packet, outputsMutex>>
  BY DEF ReadInstance
<1>8. Setting(c)'
  BY <1>1, <1>4, <1>6, <1>7 DEF Reading, Setting, AtService, AtFilter, Made, Instances
<1>9. Alone'
  BY <1>4, <1>6 DEF Running, Alone
<1>10. /\ Turn(c, "read") /\ Turn(c, "set")'
       /\ \A s : (Turn(c, s) => s = "read") /\ (Turn(c, s)' => s = "set")
  BY <1>1, <1>4, <1>6, PlansGoOn DEF Turn, Reading
<1>11. Carried(c)' = Carried(c) /\ ~Turn(c, "destroy")
  BY <1>4, <1>6, <1>10 DEF Carried
<1>12. \A x : ~Waits(c, x) /\ ~Waits(c, x)' /\ ~Replaced(c, x) /\ ~Replaced(c, x)'
  BY <1>10 DEF Waits, Replaced
<1>13. \A x : GivesFirst(c, x) => GivesFirst(c, x)'
  BY <1>4, <1>6, <1>10 DEF GivesFirst
<1>14. Fits(c)'
  BY <1>8 DEF Fits
<1>15. Running'
  BY <1>4, <1>5, <1>7, <1>9, <1>11, <1>12, <1>13, <1>14, OrderMoves
<1> QED
  BY <1>5, <1>15

\* CommandSetOutputMRL locks the manual filters.
LEMMA ManualFiltersAreLocked ==
  ASSUME Running, NEW c \in Commander, LockManualFilters(c)
  PROVE  Running' /\ (misused' <=> misused)
<1>1. Locking(c) /\ order[c] \in Orders
  BY TurnsTold DEF LockManualFilters, Running, OrdersTyped
<1> DEFINE r == [order[c] EXCEPT !.todo = Tail(order[c].todo)]
<1>2. Tail(order[c].todo) = CreatesLocked /\ CreatesLocked \in Plans
  BY <1>1, PlansGoOn DEF Locking, Plans
<1>3. /\ r \in Orders /\ r.todo = CreatesLocked /\ r.on = order[c].on /\ r.made = order[c].made
  BY <1>1, <1>2 DEF Orders
<1>4. order' = [order EXCEPT ![c] = r] /\ (misused' <=> misused)
  BY DEF LockManualFilters, Advance
<1> HIDE DEF r
<1>5. order'[c] = r /\ \A d \in Commander : d # c => order'[d] = order[d]
  BY <1>3, <1>4, OrderChanges DEF Running
<1>6. UNCHANGED <<instance, destroyed, instancesList, tangled, filter, groups, output, outputsList, packet, outputsMutex>>
  BY DEF LockManualFilters
<1>7. Creating(c)'
  BY <1>1, <1>3, <1>5 DEF Creating, Locking, MadeNone
<1>8. Alone'
  BY <1>3, <1>5 DEF Running, Alone
<1>9. /\ Turn(c, "lock") /\ Turn(c, "create")'
      /\ \A s : (Turn(c, s) => s = "lock") /\ (Turn(c, s)' => s = "create")
  BY <1>1, <1>3, <1>5, PlansGoOn DEF Turn, Locking
<1>10. Carried(c)' = Carried(c) /\ ~Turn(c, "destroy")
  BY <1>3, <1>5, <1>9 DEF Carried
<1>11. \A x : ~Waits(c, x) /\ ~Waits(c, x)' /\ ~Replaced(c, x) /\ ~Replaced(c, x)' /\ ~GivesFirst(c, x)
  BY <1>9 DEF Waits, Replaced, GivesFirst
<1>12. Fits(c)'
  BY <1>7 DEF Fits
<1>13. Running'
  BY <1>3, <1>4, <1>6, <1>8, <1>10, <1>11, <1>12, OrderMoves
<1> QED
  BY <1>4, <1>13

\* Only the packet loop moves.
LEMMA PacketMoves ==
  ASSUME Running, PacketKnown',
         UNCHANGED <<instance, destroyed, instancesList, tangled, filter, groups, output, outputsList, order>>
  PROVE  Running'
<1>1. InstancesTyped' /\ FiltersTyped' /\ OutputsTyped' /\ OrdersTyped'
  BY DEF Running, InstancesTyped, FiltersTyped, OutputsTyped, OrdersTyped, Instances
<1>2. \A d \in Commander : Fits(d)'
  <2> TAKE d \in Commander
  <2>1. Fits(d) /\ groups \subseteq DOMAIN filter /\ outputsList \subseteq DOMAIN output /\ InstancesTyped
    BY DEF Running, FiltersTyped, OutputsTyped
  <2>2. Len(instance) <= Len(instance)'
    BY <2>1, LenProperties DEF InstancesTyped
  <2> QED
    BY <1>1, <2>1, <2>2, FitsStay
<1>3. Alone'
  BY DEF Running, Alone
<1>4. FiltersKnown'
  <2>1. \A d \in Commander : \A x : GivesFirst(d, x)' <=> GivesFirst(d, x)
    BY ThreadStays
  <2> QED
    BY <2>1 DEF Running, FiltersKnown, Has
<1>5. OutputsKnown' /\ Referred'
  BY DEF Running, OutputsKnown, Referred, ReferringTo
<1>6. ASSUME NEW i
      PROVE  Held(i)' = Held(i)
  BY DEF Held, FiltersOf, OutputsOf, CarriersOf, Waits, Replaced, Carried, Turn
<1>7. Counted'
  <2> QED
    BY <1>6 DEF Running, Counted, Instances
<1> QED
  BY <1>1, <1>2, <1>3, <1>4, <1>5, <1>7 DEF Running

\* What the packet loop hands a packet to is there.
LEMMA PacketIsHandedOn ==
  ASSUME Running, packet.at \in {"send", "through"}
  PROVE  /\ packet.to \in Instances /\ ~Gone(packet.to)
         /\ Through(packet.to) # Outside => Through(packet.to) \in outputsList
<1>1. InstancesTyped /\ FiltersTyped /\ OutputsTyped /\ Counted /\ Referred /\ OutputsKnown
  BY DEF Running
<1>t. PICK t : t = packet.to
  OBVIOUS
<1>2. t \in Instances /\ (FiltersOf(t) # {} \/ OutputsOf(t) # {} \/ CarriersOf(t) # {})
  <2>1. CASE packet.at = "send"
    <3>1. Sent
      BY <2>1 DEF Running, PacketKnown, NoPacket
    <3>2. CASE packet.to = filter[packet.of].instance
      <4>1. packet.of \in DOMAIN filter /\ ~filter[packet.of].freed /\ t \in Instances
        BY <1>1, <1>t, <3>1, <3>2 DEF Sent, FiltersTyped, FiltersKnown, Running
      <4>2. packet.of \in FiltersOf(t)
        BY <4>1, <1>t, <3>2 DEF FiltersOf
      <4> QED
        BY <4>1, <4>2
    <3>3. ASSUME NEW c \in Commander, Turn(c, "destroy") /\ packet.to = order[c].prev
          PROVE  t \in Instances /\ CarriersOf(t) # {}
      <4>1. Destroying(c)
        BY <3>3, TurnsTold DEF Running
      <4>2. t \in Instances
        BY <1>t, <3>1, <3>3, <4>1 DEF Destroying, Sent
      <4>3. c \in CarriersOf(t)
        BY <1>t, <3>3 DEF CarriersOf, Carried
      <4> QED
        BY <4>2, <4>3
    <3> QED
      BY <3>1, <3>2, <3>3 DEF Sent
  <2>2. CASE packet.at = "through"
    <3>1. PassedOn
      BY <2>2 DEF Running, PacketKnown, NoPacket
    <3>2. packet.of \in DOMAIN output /\ ~output[packet.of].freed /\ t \in Instances
      BY <1>1, <1>t, <3>1 DEF PassedOn, OutputsTyped, OutputsKnown
    <3>3. packet.of \in OutputsOf(t)
      BY <3>1, <3>2, <1>t DEF PassedOn, OutputsOf
    <3> QED
      BY <3>2, <3>3
  <2> QED
    BY <2>1, <2>2
<1>3. Held(t) \in Nat /\ Held(t) >= 1
  BY <1>1, <1>2, HeldBySomeone
<1>4. ~Gone(t) /\ (t # NullInstance => t \in DOMAIN instance /\ destroyed[t] = 0)
  BY <1>1, <1>2, <1>3, HeldIsThere
<1>5. Through(t) # Outside => Through(t) \in outputsList
  <2> SUFFICES ASSUME Through(t) # Outside PROVE Through(t) \in outputsList
    OBVIOUS
  <2>1. t \in DOMAIN instance /\ Through(t) = instance[t] /\ destroyed[t] = 0
    BY <1>2, <1>4 DEF Through, Outside, NullInstance, Instances
  <2>2. PICK o \in DOMAIN output : o = Through(t)
    BY <1>1, <2>1 DEF InstancesTyped
  <2>3. t \in ReferringTo(o)
    BY <2>1, <2>2 DEF ReferringTo
  <2> QED
    BY <1>1, <2>2, <2>3 DEF Referred, OutputsKnown
<1> QED
  BY <1>t, <1>2, <1>4, <1>5

\* A filter's packet: its instance is read.
LEMMA PacketComes ==
  ASSUME Running, NEW f \in DOMAIN filter, ProcessPacket(f)
  PROVE  Running'
<1>1. /\ f \in groups /\ filter[f].fed /\ packet' = [at |-> "send", of |-> f, to |-> filter[f].instance]
      /\ UNCHANGED <<instance, destroyed, instancesList, tangled, filter, groups, output, outputsList, order>>
  BY DEF ProcessPacket
<1>2. filter[f].instance # NoInstance
  BY <1>1 DEF Running, FiltersKnown, Has
<1>3. PacketKnown'
  BY <1>1, <1>2 DEF PacketKnown, Sent
<1> QED
  BY <1>1, <1>3, PacketMoves

\* It is handed to that instance, which is still there.
LEMMA PacketIsSent ==
  ASSUME Running, ~crossed', DeliveryMethodOutputPacket
  PROVE  Running' /\ (misused' <=> misused)
<1>1. UNCHANGED <<instance, destroyed, instancesList, tangled, filter, groups, output, outputsList, order>>
  BY DEF DeliveryMethodOutputPacket
<1>2. ~Gone(packet.to) /\ (Through(packet.to) # Outside => Through(packet.to) \in outputsList)
  BY PacketIsHandedOn DEF DeliveryMethodOutputPacket
<1>3. misused' <=> misused
  BY <1>2 DEF DeliveryMethodOutputPacket
<1>4. PacketKnown'
  <2>1. CASE Through(packet.to) = Outside
    BY <2>1 DEF DeliveryMethodOutputPacket, PacketKnown, NoPacket
  <2>2. CASE Through(packet.to) # Outside
    <3>1. PICK o : o = Through(packet.to)
      OBVIOUS
    <3>2. /\ outputsMutex' = "packet" /\ packet' = [at |-> "through", of |-> o, to |-> output[o].instance]
          /\ \A c \in Commander : ~Replaced(c, o)
      BY <2>2, <3>1 DEF DeliveryMethodOutputPacket
    <3>3. \A c \in Commander : ~Replaced(c, o)'
      BY <1>1, <3>2 DEF Replaced, Turn
    <3>4. PassedOn'
      BY <1>1, <1>2, <2>2, <3>1, <3>2, <3>3 DEF PassedOn
    <3> QED
      BY <3>2, <3>4 DEF PacketKnown
  <2> QED
    BY <2>1, <2>2
<1> QED
  BY <1>1, <1>3, <1>4, PacketMoves

\* And to the instance of the output that one refers to.
LEMMA PacketIsThrough ==
  ASSUME Running, OutputsSendPacket
  PROVE  Running' /\ (misused' <=> misused)
<1>1. /\ UNCHANGED <<instance, destroyed, instancesList, tangled, filter, groups, output, outputsList, order>>
      /\ packet' = NoPacket
  BY DEF OutputsSendPacket
<1>2. ~Gone(packet.to)
  BY PacketIsHandedOn DEF OutputsSendPacket
<1>3. misused' <=> misused
  BY <1>2 DEF OutputsSendPacket
<1>4. PacketKnown'
  BY <1>1 DEF PacketKnown, NoPacket
<1> QED
  BY <1>1, <1>3, <1>4, PacketMoves

\* A filter is fed, or no longer.
LEMMA FilterIsFed ==
  ASSUME Running, ~crossed', NEW c \in Commander, NEW f \in DOMAIN filter, NEW fed \in BOOLEAN, Feed(c, f, fed)
  PROVE  Running'
<1>1. /\ order[c] = Resting /\ f \in groups /\ packet = NoPacket /\ ~Meets(c, filter[f].kind)
      /\ UNCHANGED <<instance, destroyed, instancesList, tangled, groups, output, outputsList, order, packet, outputsMutex>>
  BY DEF Feed
<1>2. Has(f)
  BY <1>1, HasUnlessGiven
<1>3. filter[f] \in Filters /\ filter \in Seq(Filters)
  BY LenProperties, ElementOfSeq DEF Running, FiltersTyped
<1> DEFINE g == [filter[f] EXCEPT !.fed = fed]
<1>4. /\ g \in Filters /\ g.kind = filter[f].kind /\ g.instance = filter[f].instance
      /\ g.freed <=> filter[f].freed
  BY <1>3 DEF Filters
<1>5. filter' = [filter EXCEPT ![f] = g]
  BY DEF Feed
<1> HIDE DEF g
<1>6. /\ filter' \in Seq(Filters) /\ DOMAIN filter' = DOMAIN filter /\ filter'[f] = g
      /\ \A h \in DOMAIN filter : h # f => filter'[h] = filter[h]
  BY <1>3, <1>4, <1>5, ElementChanges
<1>7. \A h \in DOMAIN filter :
        /\ filter'[h].kind = filter[h].kind /\ filter'[h].instance = filter[h].instance
        /\ filter'[h].freed <=> filter[h].freed
  BY <1>4, <1>6
<1>8. InstancesTyped' /\ FiltersTyped' /\ OutputsTyped' /\ OrdersTyped'
  BY <1>1, <1>6, <1>7 DEF Running, InstancesTyped, FiltersTyped, OutputsTyped, OrdersTyped, Instances
<1>9. \A d \in Commander : Fits(d)'
  <2> TAKE d \in Commander
  <2>1. Fits(d) /\ groups \subseteq DOMAIN filter /\ outputsList \subseteq DOMAIN output /\ InstancesTyped
    BY DEF Running, FiltersTyped, OutputsTyped
  <2>2. Len(instance) <= Len(instance)'
    BY <1>1, <2>1, LenProperties DEF InstancesTyped
  <2> QED
    BY <1>1, <1>6, <1>7, <1>8, <2>1, <2>2, FitsStay
<1>10. Alone'
  BY <1>1 DEF Running, Alone
<1>11. FiltersKnown'
  <2>1. \A d \in Commander : \A x : GivesFirst(d, x)' <=> GivesFirst(d, x)
    BY <1>1, ThreadStays
  <2>2. ASSUME NEW h \in DOMAIN filter
        PROVE  /\ h \in groups' => ~filter'[h].freed
               /\ filter'[h].fed => h \in groups' /\ Has(h)'
               /\ ~Has(h)' => \E d \in Commander : GivesFirst(d, h)'
    <3>1. Has(h)' <=> Has(h)
      BY <1>7 DEF Has
    <3>2. h # f => filter'[h] = filter[h]
      BY <1>6
    <3> QED
      BY <1>1, <1>2, <1>7, <2>1, <3>1, <3>2 DEF Running, FiltersKnown
  <2> QED
    BY <1>6, <2>2 DEF FiltersKnown
<1>12. OutputsKnown' /\ Referred'
  BY <1>1 DEF Running, OutputsKnown, Referred, ReferringTo
<1>13. ASSUME NEW i
       PROVE  Held(i)' = Held(i)
  <2>1. FiltersOf(i)' = FiltersOf(i)
    BY <1>6, <1>7 DEF FiltersOf
  <2>2. OutputsOf(i)' = OutputsOf(i) /\ CarriersOf(i)' = CarriersOf(i)
    BY <1>1 DEF OutputsOf, CarriersOf, Waits, Replaced, Carried, Turn
  <2> QED
    BY <2>1, <2>2 DEF Held
<1>14. Counted'
  <2> QED
    BY <1>1, <1>13 DEF Running, Counted, Instances
<1>15. PacketKnown'
  BY <1>1 DEF PacketKnown
<1> QED
  BY <1>8, <1>9, <1>10, <1>11, <1>12, <1>14, <1>15 DEF Running

\* A service filter is made without an instance.
LEMMA ServiceFilterIsMade ==
  ASSUME Running, NEW c \in Commander, ServiceFilterCreate(c)
  PROVE  Running'
<1>1. /\ packet = NoPacket
      /\ UNCHANGED <<instance, destroyed, instancesList, tangled, output, outputsList, packet, outputsMutex>>
  BY DEF ServiceFilterCreate
<1>2. Entering(c) /\ order[c] \in Orders
  BY TurnsTold DEF ServiceFilterCreate, Running, OrdersTyped
<1>n. PICK n : n = Len(filter) + 1
  OBVIOUS
<1> DEFINE g == [kind |-> "service", instance |-> NoInstance, fed |-> FALSE, freed |-> FALSE]
           r == [[order[c] EXCEPT !.at = n] EXCEPT !.todo = Tail(order[c].todo)]
<1>3. /\ g \in Filters /\ g.kind = "service" /\ g.instance = NoInstance /\ ~g.fed /\ ~g.freed
  BY DEF Filters, Kinds, NoInstance
<1>4. filter' = Append(filter, g) /\ groups' = groups \cup {n} /\ filter \in Seq(Filters)
  BY <1>n DEF ServiceFilterCreate, Running, FiltersTyped
<1> HIDE DEF g
<1>5. /\ filter' \in Seq(Filters) /\ DOMAIN filter' = DOMAIN filter \cup {n} /\ n \notin DOMAIN filter
      /\ n \in Nat /\ filter'[n] = g /\ \A h \in DOMAIN filter : filter'[h] = filter[h]
  BY <1>3, <1>4, <1>n, ElementIsAdded
<1>6. Tail(order[c].todo) = Creates /\ Creates \in Plans
  BY <1>2, PlansGoOn DEF Entering, Plans
<1>7. /\ r \in Orders /\ r.todo = Creates /\ r.on = order[c].on
      /\ r.at = n /\ r.made = order[c].made /\ (r.adds <=> order[c].adds)
  BY <1>2, <1>5, <1>6 DEF Orders
<1>8. order' = [order EXCEPT ![c] = r]
  BY <1>n DEF ServiceFilterCreate, Advance
<1> HIDE DEF r
<1>9. OrdersTyped' /\ order'[c] = r /\ \A d \in Commander : d # c => order'[d] = order[d]
  BY <1>7, <1>8, OrderChanges DEF Running
<1>10. InstancesTyped' /\ FiltersTyped' /\ OutputsTyped' /\ OutputsKnown' /\ Referred'
  <2>1. Instances' = Instances
    BY <1>1 DEF Instances
  <2>2. InstancesTyped' /\ OutputsTyped' /\ OutputsKnown'
    BY <1>1, <2>1 DEF Running, InstancesTyped, OutputsTyped, OutputsKnown
  <2>3. FiltersTyped'
    BY <2>1, <1>3, <1>4, <1>5 DEF Running, FiltersTyped
  <2>4. \A o : ReferringTo(o)' = ReferringTo(o)
    BY <1>1 DEF ReferringTo
  <2>5. Referred'
    BY <1>1, <2>4 DEF Running, Referred
  <2> QED
    BY <2>2, <2>3, <2>5
<1>11. \A d \in Commander : Fits(d)'
  <2>1. Creating(c)'
    BY <1>2, <1>3, <1>4, <1>5, <1>7, <1>9 DEF Creating, Entering, AtService, AtFilter, MadeNone, Kinds
  <2>2. ASSUME NEW d \in Commander, d # c PROVE Fits(d)'
    <3>1. Fits(d) /\ groups \subseteq DOMAIN filter /\ outputsList \subseteq DOMAIN output /\ InstancesTyped
      BY DEF Running, FiltersTyped, OutputsTyped
    <3>2. Len(instance) <= Len(instance)'
      BY <1>1, <3>1, LenProperties DEF InstancesTyped
    <3> QED
      BY <1>1, <1>4, <1>5, <1>9, <1>10, <2>2, <3>1, <3>2, FitsStay
  <2>3. Fits(c)'
    BY <2>1 DEF Fits
  <2> QED
    BY <2>2, <2>3
<1>12. Alone'
  BY <1>7, <1>9 DEF Running, Alone
<1>13. /\ Turn(c, "create")' /\ \A s : (Turn(c, s) => s = "enter") /\ (Turn(c, s)' => s = "create")
  BY <1>2, <1>7, <1>9, PlansGoOn DEF Turn, Entering
<1>14. /\ \A x : ~Waits(c, x) /\ ~Waits(c, x)' /\ ~Replaced(c, x) /\ ~Replaced(c, x)' /\ ~GivesFirst(c, x)
       /\ Carried(c)' = Carried(c) /\ GivesFirst(c, n)'
  BY <1>2, <1>7, <1>9, <1>13 DEF Waits, Replaced, GivesFirst, Carried, Entering
<1>15. FiltersKnown'
  <2>1. \A d \in Commander : \A x : GivesFirst(d, x) => GivesFirst(d, x)'
    BY <1>9, <1>14, ThreadStays
  <2>2. ASSUME NEW h \in DOMAIN filter
        PROVE  /\ h \in groups' => ~filter'[h].freed
               /\ filter'[h].fed => h \in groups' /\ Has(h)'
               /\ ~Has(h)' => \E d \in Commander : GivesFirst(d, h)'
    BY <1>4, <1>5, <2>1 DEF Running, FiltersKnown, Has
  <2>3. /\ ~filter'[n].freed /\ ~filter'[n].fed /\ \E d \in Commander : GivesFirst(d, n)'
    BY <1>3, <1>5, <1>14
  <2> QED
    BY <1>5, <2>2, <2>3 DEF FiltersKnown
<1>16. ASSUME NEW i \in Instances
       PROVE  Held(i)' = Held(i)
  <2>1. i # NoInstance
    BY DEF Instances, NullInstance, NoInstance
  <2>2. FiltersOf(i)' = FiltersOf(i)
    BY <2>1, <1>3, <1>5 DEF FiltersOf
  <2>3. \A d \in Commander, o \in DOMAIN output : (Waits(d, o)' <=> Waits(d, o)) /\ (Replaced(d, o)' <=> Replaced(d, o))
    BY <1>9, <1>14, ThreadStays
  <2>4. OutputsOf(i)' = OutputsOf(i)
    BY <1>1, <2>3, OutputsStay
  <2>5. \A d \in Commander : Carried(d)' = Carried(d)
    BY <1>9, <1>14, ThreadStays
  <2>6. CarriersOf(i)' = CarriersOf(i)
    BY <2>5 DEF CarriersOf
  <2> QED
    BY <2>2, <2>4, <2>6 DEF Held
<1>17. Counted'
  <2>1. DOMAIN instance \subseteq Instances /\ Instances' = Instances
    BY <1>1, LenProperties DEF Running, InstancesTyped, Instances, NullInstance
  <2> QED
    BY <2>1, <1>1, <1>16 DEF Running, Counted
<1>18. PacketKnown'
  BY <1>1 DEF PacketKnown
<1> QED
  BY <1>9, <1>10, <1>11, <1>12, <1>15, <1>17, <1>18 DEF Running

\* A manual filter is listed with the instance made for it.
LEMMA ManualFilterIsListed ==
  ASSUME Running, NEW c \in Commander, ListManualFilter(c)
  PROVE  Running'
<1>1. /\ packet = NoPacket
      /\ UNCHANGED <<instance, destroyed, instancesList, tangled, output, outputsList, packet, outputsMutex>>
  BY DEF ListManualFilter
<1>2. Listing(c) /\ order[c] \in Orders
  BY TurnsTold DEF ListManualFilter, Running, OrdersTyped
<1>n. PICK n : n = Len(filter) + 1
  OBVIOUS
<1> DEFINE g == [kind |-> "manual", instance |-> order[c].made, fed |-> FALSE, freed |-> FALSE]
<1>3. /\ g \in Filters /\ g.kind = "manual" /\ g.instance = order[c].made /\ ~g.fed /\ ~g.freed
  BY <1>2 DEF Filters, Kinds, Orders
<1>4. filter' = Append(filter, g) /\ groups' = groups \cup {n} /\ filter \in Seq(Filters)
  BY <1>n DEF ListManualFilter, Running, FiltersTyped
<1> HIDE DEF g
<1>5. /\ filter' \in Seq(Filters) /\ DOMAIN filter' = DOMAIN filter \cup {n} /\ n \notin DOMAIN filter
      /\ filter'[n] = g /\ \A h \in DOMAIN filter : filter'[h] = filter[h]
  BY <1>3, <1>4, <1>n, ElementIsAdded
<1>6. Resting \in Orders
  BY DEF Resting, OrderTo, Orders, Plans, MRL, NoInstance
<1>7. OrdersTyped' /\ order'[c] = Resting /\ \A d \in Commander : d # c => order'[d] = order[d]
  BY <1>6, OrderChanges DEF ListManualFilter, Rests, Running
<1>8. InstancesTyped' /\ FiltersTyped' /\ OutputsTyped' /\ OutputsKnown' /\ Referred'
  <2>1. InstancesTyped' /\ OutputsTyped' /\ OutputsKnown' /\ Referred' /\ Instances' = Instances
    BY <1>1 DEF Running, InstancesTyped, OutputsTyped, OutputsKnown, Referred, ReferringTo, Instances
  <2>2. FiltersTyped'
    BY <1>2, <1>3, <1>4, <1>5, <2>1 DEF Running, FiltersTyped, Listing, Made
  <2> QED
    BY <2>1, <2>2
<1>9. \A d \in Commander : Fits(d)'
  <2>1. Fits(c)'
    BY <1>7 DEF Fits
  <2>2. ASSUME NEW d \in Commander, d # c PROVE Fits(d)'
    <3>1. Fits(d) /\ groups \subseteq DOMAIN filter /\ outputsList \subseteq DOMAIN output /\ InstancesTyped
      BY DEF Running, FiltersTyped, OutputsTyped
    <3>2. Len(instance) <= Len(instance)'
      BY <1>1, <3>1, LenProperties DEF InstancesTyped
    <3> QED
      BY <1>1, <1>4, <1>5, <1>7, <1>8, <2>2, <3>1, <3>2, FitsStay
  <2> QED
    BY <2>1, <2>2
<1>10. Alone'
  BY <1>7 DEF Running, Alone, Resting, OrderTo
<1>11. \A s : (Turn(c, s) => s = "list") /\ ~Turn(c, s)'
  BY <1>2, <1>7, PlansGoOn DEF Turn, Listing, Resting, OrderTo
<1>12. /\ \A x : ~Waits(c, x) /\ ~Waits(c, x)' /\ ~Replaced(c, x) /\ ~Replaced(c, x)' /\ ~GivesFirst(c, x)
       /\ Carried(c) = order[c].made /\ Carried(c)' = NoInstance
  BY <1>7, <1>11 DEF Waits, Replaced, GivesFirst, Carried, Resting, OrderTo
<1>13. FiltersKnown'
  <2>1. \A d \in Commander : \A x : GivesFirst(d, x) => GivesFirst(d, x)'
    BY <1>7, <1>12, ThreadStays
  <2>2. ASSUME NEW h \in DOMAIN filter
        PROVE  /\ h \in groups' => ~filter'[h].freed
               /\ filter'[h].fed => h \in groups' /\ Has(h)'
               /\ ~Has(h)' => \E d \in Commander : GivesFirst(d, h)'
    BY <1>4, <1>5, <2>1 DEF Running, FiltersKnown, Has
  <2>3. /\ ~filter'[n].freed /\ ~filter'[n].fed /\ Has(n)'
    BY <1>2, <1>3, <1>5 DEF Has, Listing, Made, Instances, NullInstance, NoInstance
  <2> QED
    BY <1>5, <2>2, <2>3 DEF FiltersKnown
<1>14. ASSUME NEW i \in Instances
       PROVE  Held(i)' = Held(i) /\ Held(i) \in Nat
  <2>1. i # NoInstance
    BY DEF Instances, NullInstance, NoInstance
  <2>2. FiltersOf(i)' \ {n} = FiltersOf(i) \ {n} /\ n \notin FiltersOf(i) /\ (n \in FiltersOf(i)' <=> order[c].made = i)
    BY <1>3, <1>5 DEF FiltersOf
  <2>3. \A d \in Commander, o \in DOMAIN output : (Waits(d, o)' <=> Waits(d, o)) /\ (Replaced(d, o)' <=> Replaced(d, o))
    BY <1>7, <1>12, ThreadStays
  <2>4. OutputsOf(i)' = OutputsOf(i) /\ OutputsOf(i)' \ {n} = OutputsOf(i) \ {n}
    BY <1>1, <2>3, OutputsStay
  <2>5. CarriersOf(i)' \ {c} = CarriersOf(i) \ {c}
    BY <1>7, OthersCarryOn
  <2>6. c \notin CarriersOf(i)' /\ (c \in CarriersOf(i) <=> order[c].made = i)
    BY <1>12, <2>1 DEF CarriersOf
  <2>7. InstancesTyped /\ FiltersTyped /\ OutputsTyped
    BY DEF Running
  <2>8. /\ Held(i) \in Nat /\ Held(i)' \in Nat
        /\ Held(i)' = Held(i) + CountIn(n, FiltersOf(i)') - CountIn(n, FiltersOf(i))
                               + CountIn(n, OutputsOf(i)') - CountIn(n, OutputsOf(i))
                               + CountIn(c, CarriersOf(i)') - CountIn(c, CarriersOf(i))
    <3>1. FiltersOf(i)' \ {n} = FiltersOf(i) \ {n}
      BY <2>2
    <3>2. OutputsOf(i)' \ {n} = OutputsOf(i) \ {n}
      BY <2>4
    <3> QED
      BY <2>5, <2>7, <3>1, <3>2, HeldChanges
  <2> QED
    BY <2>2, <2>4, <2>6, <2>8 DEF CountIn
<1>15. Counted'
  <2>1. DOMAIN instance \subseteq Instances /\ Instances' = Instances
    BY <1>1, LenProperties DEF Running, InstancesTyped, Instances, NullInstance
  <2> QED
    BY <2>1, <1>1, <1>14 DEF Running, Counted
<1>16. PacketKnown'
  BY <1>1 DEF PacketKnown
<1> QED
  BY <1>7, <1>8, <1>9, <1>10, <1>13, <1>15, <1>16 DEF Running

\* A filter goes from the list, and nothing feeds it.
LEMMA FilterIsUnlisted ==
  ASSUME Running, NEW c \in Commander, RemoveGroup(c)
  PROVE  Running' /\ (misused' <=> misused)
<1>1. /\ packet = NoPacket
      /\ UNCHANGED <<instance, destroyed, instancesList, tangled, output, outputsList, packet, outputsMutex>>
  BY DEF RemoveGroup
<1>2. Unlisting(c) /\ order[c] \in Orders
  BY TurnsTold DEF RemoveGroup, Running, OrdersTyped
<1>f. PICK f : f = order[c].at
  OBVIOUS
<1>3. /\ f \in groups /\ f \in DOMAIN filter /\ filter[f].kind = order[c].on /\ filter[f].kind \in Kinds
      /\ Has(f) /\ filter[f] \in Filters /\ filter \in Seq(Filters)
  <2>1. f \in groups /\ f \in DOMAIN filter /\ filter[f].kind = order[c].on /\ order[c].on \in Kinds /\ Has(f)
    BY <1>2, <1>f DEF Unlisting, AtFilter, Running, FiltersTyped
  <2>2. filter \in Seq(Filters) /\ filter[f] \in Filters
    BY <2>1, LenProperties, ElementOfSeq DEF Running, FiltersTyped
  <2> QED
    BY <2>1, <2>2
<1>4. (misused' <=> misused) /\ groups' = groups \ {f}
  BY <1>3, <1>f DEF RemoveGroup
<1> DEFINE g == [filter[f] EXCEPT !.fed = FALSE]
           r == [order[c] EXCEPT !.todo = Tail(order[c].todo)]
<1>5. /\ g \in Filters /\ g.kind = filter[f].kind /\ g.instance = filter[f].instance
      /\ (g.freed <=> filter[f].freed) /\ ~g.fed
  BY <1>3 DEF Filters
<1>6. filter' = [filter EXCEPT ![f] = g]
  BY <1>f DEF RemoveGroup
<1>7. Tail(order[c].todo) = Drops /\ Drops \in Plans
  BY <1>2, PlansGoOn DEF Unlisting, Plans
<1>8. /\ r \in Orders /\ r.todo = Drops /\ r.on = order[c].on /\ r.at = f /\ r.made = order[c].made
  BY <1>2, <1>7, <1>f DEF Orders
<1>9. order' = [order EXCEPT ![c] = r]
  BY DEF RemoveGroup, Advance
<1> HIDE DEF g, r
<1>10. /\ filter' \in Seq(Filters) /\ DOMAIN filter' = DOMAIN filter /\ filter'[f] = g
       /\ \A h \in DOMAIN filter : h # f => filter'[h] = filter[h]
  BY <1>3, <1>5, <1>6, ElementChanges
<1>11. \A h \in DOMAIN filter :
         /\ filter'[h].kind = filter[h].kind /\ filter'[h].instance = filter[h].instance
         /\ filter'[h].freed <=> filter[h].freed
  BY <1>5, <1>10
<1>12. OrdersTyped' /\ order'[c] = r /\ \A d \in Commander : d # c => order'[d] = order[d]
  BY <1>8, <1>9, OrderChanges DEF Running
<1>13. InstancesTyped' /\ FiltersTyped' /\ OutputsTyped' /\ OutputsKnown' /\ Referred'
  <2>1. InstancesTyped' /\ OutputsTyped' /\ OutputsKnown' /\ Referred' /\ Instances' = Instances
    BY <1>1 DEF Running, InstancesTyped, OutputsTyped, OutputsKnown, Referred, ReferringTo, Instances
  <2>2. FiltersTyped'
    BY <1>4, <1>10, <1>11, <2>1 DEF Running, FiltersTyped
  <2> QED
    BY <2>1, <2>2
<1>14. \A d \in Commander : Fits(d)'
  <2>1. ~filter[f].freed
    BY <1>3 DEF Running, FiltersKnown
  <2>2. Dropping(c)'
    BY <2>1, <1>2, <1>3, <1>4, <1>8, <1>10, <1>11, <1>12 DEF Dropping, Unlisting, MadeNone, Has
  <2>3. ASSUME NEW d \in Commander, d # c PROVE Fits(d)'
    <3>1. Fits(d) /\ groups \subseteq DOMAIN filter /\ outputsList \subseteq DOMAIN output /\ InstancesTyped
      BY DEF Running, FiltersTyped, OutputsTyped
    <3>2. Len(instance) <= Len(instance)'
      BY <1>1, <3>1, LenProperties DEF InstancesTyped
    <3>3. filter[f].kind # order[d].on
      BY <1>3, <2>3 DEF Running, Alone, Kinds
    <3>4. \A h \in DOMAIN filter : filter[h].kind = order[d].on => (h \in groups' <=> h \in groups)
      BY <3>3, <1>4
    <3> QED
      BY <1>1, <1>10, <1>11, <1>12, <1>13, <2>3, <3>1, <3>2, <3>4, FitsStay
  <2>4. Fits(c)'
    BY <2>2 DEF Fits
  <2> QED
    BY <2>3, <2>4
<1>15. Alone'
  BY <1>8, <1>12 DEF Running, Alone
<1>16. \A s : (Turn(c, s) => s = "unlist") /\ (Turn(c, s)' => s = "drop")
  BY <1>2, <1>8, <1>12, PlansGoOn DEF Turn, Unlisting
<1>17. /\ \A x : ~Waits(c, x) /\ ~Waits(c, x)' /\ ~Replaced(c, x) /\ ~Replaced(c, x)' /\ ~GivesFirst(c, x)
       /\ Carried(c)' = Carried(c)
  BY <1>8, <1>12, <1>16 DEF Waits, Replaced, GivesFirst, Carried
<1>18. FiltersKnown'
  <2>1. \A d \in Commander : \A x : GivesFirst(d, x) => GivesFirst(d, x)'
    BY <1>12, <1>17, ThreadStays
  <2>2. ASSUME NEW h \in DOMAIN filter
        PROVE  /\ h \in groups' => ~filter'[h].freed
               /\ filter'[h].fed => h \in groups' /\ Has(h)'
               /\ ~Has(h)' => \E d \in Commander : GivesFirst(d, h)'
    <3>1. CASE h = f
      BY <3>1, <1>3, <1>4, <1>5, <1>10 DEF Has
    <3>2. CASE h # f
      BY <3>2, <1>4, <1>10, <2>1 DEF Running, FiltersKnown, Has
    <3> QED
      BY <3>1, <3>2
  <2> QED
    BY <1>10, <2>2 DEF FiltersKnown
<1>19. ASSUME NEW i
       PROVE  Held(i)' = Held(i)
  <2>1. FiltersOf(i)' = FiltersOf(i)
    BY <1>10, <1>11 DEF FiltersOf
  <2>2. \A d \in Commander, o \in DOMAIN output : (Waits(d, o)' <=> Waits(d, o)) /\ (Replaced(d, o)' <=> Replaced(d, o))
    BY <1>12, <1>17, ThreadStays
  <2>3. OutputsOf(i)' = OutputsOf(i)
    BY <1>1, <2>2, OutputsStay
  <2>4. \A d \in Commander : Carried(d)' = Carried(d)
    BY <1>12, <1>17, ThreadStays
  <2>5. CarriersOf(i)' = CarriersOf(i)
    BY <2>4 DEF CarriersOf
  <2> QED
    BY <2>1, <2>3, <2>5 DEF Held
<1>20. Counted'
  BY <1>1, <1>19 DEF Running, Counted, Instances
<1>21. PacketKnown'
  BY <1>1 DEF PacketKnown
<1> QED
  BY <1>4, <1>12, <1>13, <1>14, <1>15, <1>18, <1>20, <1>21 DEF Running

\* A service filter is given the instance made for it.
LEMMA InstanceIsSet ==
  ASSUME Running, NEW c \in Commander, SetInstance(c)
  PROVE  Running' /\ (misused' <=> misused)
<1>1. UNCHANGED <<instance, destroyed, instancesList, tangled, groups, output, outputsList, packet, outputsMutex>>
  BY DEF SetInstance
<1>2. Setting(c) /\ order[c] \in Orders /\ Turn(c, "set")
  BY TurnsTold DEF SetInstance, Running, OrdersTyped
<1>f. PICK f : f = order[c].at
  OBVIOUS
<1>m. PICK made : made = order[c].made
  OBVIOUS
<1>p. PICK prev : prev = filter[f].instance
  OBVIOUS
<1>3. /\ f \in groups /\ f \in DOMAIN filter /\ filter[f].kind = "service" /\ order[c].on = "service"
      /\ filter[f] \in Filters /\ filter \in Seq(Filters) /\ ~filter[f].freed
      /\ made \in Instances /\ made \in Int /\ made # NoInstance
      /\ prev = order[c].prev /\ prev \in Instances \cup {NoInstance}
  <2>1. f \in groups /\ f \in DOMAIN filter /\ filter[f].kind = "service" /\ order[c].on = "service"
    BY <1>2, <1>f DEF Setting, AtService, AtFilter, Running, FiltersTyped
  <2>2. filter \in Seq(Filters) /\ filter[f] \in Filters
    BY <2>1, LenProperties, ElementOfSeq DEF Running, FiltersTyped
  <2>3. ~filter[f].freed
    BY <2>1 DEF Running, FiltersKnown
  <2>4. made \in Instances /\ made \in Int /\ made # NoInstance
    BY <1>2, <1>m DEF Setting, Made, Instances, NullInstance, NoInstance
  <2>5. prev = order[c].prev /\ prev \in Instances \cup {NoInstance}
    BY <1>2, <1>f, <1>p, <2>1 DEF Setting, Running, FiltersTyped
  <2> QED
    BY <2>1, <2>2, <2>3, <2>4, <2>5
<1>4. misused' <=> misused
  BY <1>3, <1>f DEF SetInstance
<1> DEFINE g == [filter[f] EXCEPT !.instance = made]
           r == [order[c] EXCEPT !.todo = Tail(order[c].todo)]
<1>5. /\ g \in Filters /\ g.kind = filter[f].kind /\ g.instance = made
      /\ (g.freed <=> filter[f].freed) /\ (g.fed <=> filter[f].fed)
  BY <1>3 DEF Filters
<1>6. filter' = [filter EXCEPT ![f] = g]
  BY <1>f, <1>m DEF SetInstance
<1>7. Tail(order[c].todo) = Destroys /\ Destroys \in Plans
  BY <1>2, PlansGoOn DEF Setting, Plans
<1>8. /\ r \in Orders /\ r.todo = Destroys /\ r.on = "service" /\ r.at = f /\ r.made = made /\ r.prev = prev
  BY <1>2, <1>3, <1>7, <1>f, <1>m DEF Orders
<1>9. order' = [order EXCEPT ![c] = r]
  BY DEF SetInstance, Advance
<1> HIDE DEF g, r
<1>10. /\ filter' \in Seq(Filters) /\ DOMAIN filter' = DOMAIN filter /\ filter'[f] = g
       /\ \A h \in DOMAIN filter : h # f => filter'[h] = filter[h]
  BY <1>3, <1>5, <1>6, ElementChanges
<1>11. OrdersTyped' /\ order'[c] = r /\ \A d \in Commander : d # c => order'[d] = order[d]
  BY <1>8, <1>9, OrderChanges DEF Running
<1>12. Instances' = Instances
  BY <1>1 DEF Instances
<1>13. InstancesTyped' /\ FiltersTyped' /\ OutputsTyped' /\ OutputsKnown' /\ Referred'
  <2>1. InstancesTyped' /\ OutputsTyped' /\ OutputsKnown' /\ Referred'
    BY <1>1, <1>12 DEF Running, InstancesTyped, OutputsTyped, OutputsKnown, Referred, ReferringTo
  <2>2. ASSUME NEW h \in DOMAIN filter PROVE filter'[h].instance \in Instances \cup {NoInstance}
    BY <1>3, <1>5, <1>10 DEF Running, FiltersTyped
  <2>3. FiltersTyped'
    BY <1>1, <1>10, <1>12, <2>2 DEF Running, FiltersTyped
  <2> QED
    BY <2>1, <2>3
<1>14. \A d \in Commander : Fits(d)'
  <2>1. Destroying(c)'
    BY <1>1, <1>3, <1>5, <1>8, <1>10, <1>11, <1>12 DEF Destroying, AtService, AtFilter, Kinds
  <2>2. ASSUME NEW d \in Commander, d # c PROVE Fits(d)'
    <3>1. Fits(d) /\ groups \subseteq DOMAIN filter /\ outputsList \subseteq DOMAIN output /\ InstancesTyped
      BY DEF Running, FiltersTyped, OutputsTyped
    <3>2. Len(instance) <= Len(instance)'
      BY <1>1, <3>1, LenProperties DEF InstancesTyped
    <3>3. filter[f].kind # order[d].on
      BY <1>3, <2>2 DEF Running, Alone
    <3>4. \A h \in DOMAIN filter : filter[h].kind = order[d].on => filter'[h] = filter[h]
      BY <3>3, <1>10
    <3> QED
      BY <1>1, <1>10, <1>11, <1>13, <2>2, <3>1, <3>2, <3>4, FitsStay
  <2>3. Fits(c)'
    BY <2>1 DEF Fits
  <2> QED
    BY <2>2, <2>3
<1>15. Alone'
  BY <1>3, <1>8, <1>11 DEF Running, Alone
<1>16. /\ \A s : (Turn(c, s) => s = "set") /\ (Turn(c, s)' => s = "destroy")
       /\ Turn(c, "destroy")'
  BY <1>2, <1>8, <1>11, PlansGoOn DEF Turn, Setting
<1>17. /\ \A x : ~Waits(c, x) /\ ~Waits(c, x)' /\ ~Replaced(c, x) /\ ~Replaced(c, x)' /\ (GivesFirst(c, x) => x = f)
       /\ Carried(c) = made /\ Carried(c)' = prev
  BY <1>8, <1>11, <1>16, <1>f, <1>m DEF Waits, Replaced, GivesFirst, Carried
<1>18. FiltersKnown'
  <2>1. \A d \in Commander : \A x : GivesFirst(d, x) => x = f \/ GivesFirst(d, x)'
    BY <1>11, <1>17, ThreadStays
  <2>2. ASSUME NEW h \in DOMAIN filter
        PROVE  /\ h \in groups' => ~filter'[h].freed
               /\ filter'[h].fed => h \in groups' /\ Has(h)'
               /\ ~Has(h)' => \E d \in Commander : GivesFirst(d, h)'
    <3>1. CASE h = f
      BY <3>1, <1>1, <1>3, <1>5, <1>10 DEF Has
    <3>2. CASE h # f
      BY <3>2, <1>1, <1>10, <2>1 DEF Running, FiltersKnown, Has
    <3> QED
      BY <3>1, <3>2
  <2> QED
    BY <1>10, <2>2 DEF FiltersKnown
<1>19. ASSUME NEW i \in Instances
       PROVE  Held(i)' = Held(i) /\ Held(i) \in Nat
  <2>1. i # NoInstance
    BY DEF Instances, NullInstance, NoInstance
  <2>2. /\ FiltersOf(i)' \ {f} = FiltersOf(i) \ {f}
        /\ (f \in FiltersOf(i) <=> prev = i) /\ (f \in FiltersOf(i)' <=> made = i)
    BY <1>3, <1>5, <1>10, <1>p DEF FiltersOf
  <2>3. \A d \in Commander, o \in DOMAIN output : (Waits(d, o)' <=> Waits(d, o)) /\ (Replaced(d, o)' <=> Replaced(d, o))
    BY <1>11, <1>17, ThreadStays
  <2>4. OutputsOf(i)' = OutputsOf(i) /\ OutputsOf(i)' \ {f} = OutputsOf(i) \ {f}
    BY <1>1, <2>3, OutputsStay
  <2>5. CarriersOf(i)' \ {c} = CarriersOf(i) \ {c}
    BY <1>11, OthersCarryOn
  <2>6. (c \in CarriersOf(i)' <=> prev = i) /\ (c \in CarriersOf(i) <=> made = i)
    BY <1>17 DEF CarriersOf
  <2>7. InstancesTyped /\ FiltersTyped /\ OutputsTyped
    BY DEF Running
  <2>8. /\ Held(i) \in Nat /\ Held(i)' \in Nat
        /\ Held(i)' = Held(i) + CountIn(f, FiltersOf(i)') - CountIn(f, FiltersOf(i))
                               + CountIn(f, OutputsOf(i)') - CountIn(f, OutputsOf(i))
                               + CountIn(c, CarriersOf(i)') - CountIn(c, CarriersOf(i))
    <3>1. FiltersOf(i)' \ {f} = FiltersOf(i) \ {f}
      BY <2>2
    <3>2. OutputsOf(i)' \ {f} = OutputsOf(i) \ {f}
      BY <2>4
    <3> QED
      BY <2>5, <2>7, <3>1, <3>2, HeldChanges
  <2> QED
    BY <2>2, <2>4, <2>6, <2>8 DEF CountIn
<1>20. Counted'
  <2>1. DOMAIN instance \subseteq Instances
    BY LenProperties DEF Running, InstancesTyped, Instances, NullInstance
  <2> QED
    BY <2>1, <1>1, <1>12, <1>19 DEF Running, Counted
<1>21. PacketKnown'
  <2>1. PacketKnown
    BY DEF Running
  <2>2. CASE packet.at = "send" /\ Sent
    <3>1. CASE packet.to = filter[packet.of].instance /\ packet.of = f
      <4>1. Sent'
        BY <3>1, <2>2, <1>1, <1>8, <1>11, <1>16, <1>p DEF Sent
      <4> QED
        BY <4>1, <2>2, <1>1 DEF PacketKnown
    <3>2. CASE packet.to = filter[packet.of].instance /\ packet.of # f
      <4>1. packet.of \in DOMAIN filter
        BY <2>2 DEF Sent, Running, FiltersTyped
      <4>2. Sent'
        BY <3>2, <4>1, <2>2, <1>1, <1>10 DEF Sent
      <4> QED
        BY <4>2, <2>2, <1>1 DEF PacketKnown
    <3>3. ASSUME NEW d \in Commander, Turn(d, "destroy"), order[d].at = packet.of, packet.to = order[d].prev
          PROVE  PacketKnown'
      <4>1. d # c
        BY <3>3, <1>16
      <4>2. order'[d] = order[d] /\ Turn(d, "destroy")'
        BY <4>1, <3>3, <1>11, ThreadStays
      <4>3. Sent'
        BY <4>2, <3>3, <2>2, <1>1 DEF Sent
      <4> QED
        BY <4>3, <2>2, <1>1 DEF PacketKnown
    <3> QED
      BY <2>2, <3>1, <3>2, <3>3 DEF Sent
  <2>3. CASE packet.at = "through" /\ PassedOn
    <3>1. PICK o : o = packet.of
      OBVIOUS
    <3>2. \A d \in Commander : ~Replaced(d, o)'
      BY <2>3, <3>1, <1>11, <1>17, ThreadStays DEF PassedOn
    <3>3. PassedOn'
      BY <3>1, <3>2, <2>3, <1>1 DEF PassedOn
    <3> QED
      BY <3>3, <2>3, <1>1 DEF PacketKnown
  <2>4. CASE packet = NoPacket
    BY <2>4, <1>1 DEF PacketKnown
  <2> QED
    BY <2>1, <2>2, <2>3, <2>4 DEF PacketKnown
<1> QED
  BY <1>4, <1>11, <1>13, <1>14, <1>15, <1>18, <1>20, <1>21 DEF Running

\* The instance it had is destroyed.
LEMMA PreviousIsDestroyed ==
  ASSUME Running, ~crossed', NEW c \in Commander, DestroyPrevious(c)
  PROVE  Running' /\ (misused' <=> misused)
<1>1. UNCHANGED <<instance, filter, groups, outputsList, packet, outputsMutex>>
  BY DEF DestroyPrevious
<1>2. Destroying(c) /\ order[c] \in Orders /\ Turn(c, "destroy")
  BY TurnsTold DEF DestroyPrevious, Running, OrdersTyped
<1>x. PICK x : x = order[c].prev
  OBVIOUS
<1>3. x \in Instances \cup {NoInstance}
  BY <1>2, <1>x DEF Destroying
<1>4. InstancesTyped /\ FiltersTyped /\ OutputsTyped /\ Counted /\ Referred /\ OutputsKnown
  BY DEF Running
<1>5. /\ InstancesTyped' /\ OutputsTyped' /\ Referred' /\ OutputsKnown' /\ (misused' <=> misused)
      /\ DOMAIN output' = DOMAIN output
      /\ \A o \in DOMAIN output :
           /\ output'[o].name = output[o].name /\ output'[o].instance = output[o].instance
           /\ output'[o].freed <=> output[o].freed
      /\ \A i \in DOMAIN instance : destroyed'[i] = IF i = x THEN destroyed[i] + 1 ELSE destroyed[i]
      /\ tangled' \/ (~tangled /\ \A i \in Instances : instancesList'[i] = IF i = x THEN instancesList[i] - 1 ELSE instancesList[i])
  <2>1. CASE x = NoInstance
    <3>1. UNCHANGED <<destroyed, instancesList, tangled, output, misused>>
      BY <2>1, <1>x DEF DestroyPrevious
    <3>2. x \notin Instances /\ x \notin DOMAIN instance
      BY <2>1, <1>4, LenProperties DEF InstancesTyped, Instances, NullInstance, NoInstance
    <3>3. InstancesTyped' /\ OutputsTyped' /\ Referred' /\ OutputsKnown'
      BY <3>1, <1>1, <1>4 DEF InstancesTyped, OutputsTyped, Referred, OutputsKnown, ReferringTo, Instances
    <3> QED
      BY <3>1, <3>2, <3>3
  <2>2. CASE x # NoInstance
    <3>1. x \in Instances /\ c \in CarriersOf(x)
      BY <2>2, <1>2, <1>3, <1>x DEF CarriersOf, Carried
    <3>2. Held(x) \in Nat /\ Held(x) >= 1
      BY <3>1, <1>4, HeldBySomeone
    <3>3. DeliveryMethodDestroy(c, x) /\ output' = OutputsDestroy(x)
      BY <2>2, <1>x DEF DestroyPrevious
    <3> QED
      BY <3>1, <3>2, <3>3, <1>1, <1>4, InstanceIsDestroyed
  <2> QED
    BY <2>1, <2>2
<1>6. Resting \in Orders
  BY DEF Resting, OrderTo, Orders, Plans, MRL, NoInstance
<1>7. OrdersTyped' /\ order'[c] = Resting /\ \A d \in Commander : d # c => order'[d] = order[d]
  BY <1>6, OrderChanges DEF DestroyPrevious, Rests, Running
<1>8. FiltersTyped' /\ Instances' = Instances
  BY <1>1, <1>4 DEF FiltersTyped, Instances
<1>9. \A d \in Commander : Fits(d)'
  <2>1. Fits(c)'
    BY <1>7 DEF Fits
  <2>2. ASSUME NEW d \in Commander, d # c PROVE Fits(d)'
    <3>1. Fits(d) /\ groups \subseteq DOMAIN filter /\ outputsList \subseteq DOMAIN output /\ Len(instance) <= Len(instance)'
      BY <1>1, <1>4, LenProperties DEF Running, FiltersTyped, OutputsTyped, InstancesTyped
    <3> QED
      BY <1>1, <1>4, <1>5, <1>7, <2>2, <3>1, FitsStay
  <2> QED
    BY <2>1, <2>2
<1>10. Alone'
  BY <1>7 DEF Running, Alone, Resting, OrderTo
<1>11. \A s : (Turn(c, s) => s = "destroy") /\ ~Turn(c, s)'
  BY <1>2, <1>7, PlansGoOn DEF Turn, Destroying, Resting, OrderTo
<1>12. /\ \A y : ~Waits(c, y) /\ ~Waits(c, y)' /\ ~Replaced(c, y) /\ ~Replaced(c, y)' /\ ~GivesFirst(c, y)
       /\ Carried(c) = x /\ Carried(c)' = NoInstance
  BY <1>2, <1>7, <1>11, <1>x DEF Waits, Replaced, GivesFirst, Carried, Resting, OrderTo
<1>13. FiltersKnown'
  <2>1. \A d \in Commander : \A y : GivesFirst(d, y) => GivesFirst(d, y)'
    BY <1>7, <1>12, ThreadStays
  <2> QED
    BY <1>1, <2>1 DEF Running, FiltersKnown, Has
<1>14. ASSUME NEW i \in Instances
       PROVE  Held(i)' = (IF i = x THEN Held(i) - 1 ELSE Held(i)) /\ Held(i) \in Nat
  <2>1. i # NoInstance
    BY DEF Instances, NullInstance, NoInstance
  <2>2. FiltersOf(i)' = FiltersOf(i) /\ FiltersOf(i)' \ {c} = FiltersOf(i) \ {c}
    BY <1>1, FiltersStay
  <2>3. \A d \in Commander, o \in DOMAIN output : (Waits(d, o)' <=> Waits(d, o)) /\ (Replaced(d, o)' <=> Replaced(d, o))
    BY <1>7, <1>12, ThreadStays
  <2>4. OutputsOf(i)' = OutputsOf(i) /\ OutputsOf(i)' \ {c} = OutputsOf(i) \ {c}
    BY <1>5, <2>3, OutputsStay
  <2>5. CarriersOf(i)' \ {c} = CarriersOf(i) \ {c}
    BY <1>7, OthersCarryOn
  <2>6. c \notin CarriersOf(i)' /\ (c \in CarriersOf(i) <=> x = i)
    BY <1>12, <2>1 DEF CarriersOf
  <2>7. /\ Held(i) \in Nat /\ Held(i)' \in Nat
        /\ Held(i)' = Held(i) + CountIn(c, FiltersOf(i)') - CountIn(c, FiltersOf(i))
                               + CountIn(c, OutputsOf(i)') - CountIn(c, OutputsOf(i))
                               + CountIn(c, CarriersOf(i)') - CountIn(c, CarriersOf(i))
    <3>1. FiltersOf(i)' \ {c} = FiltersOf(i) \ {c}
      BY <2>2
    <3>2. OutputsOf(i)' \ {c} = OutputsOf(i) \ {c}
      BY <2>4
    <3> QED
      BY <1>4, <2>5, <3>1, <3>2, HeldChanges
  <2> QED
    BY <2>2, <2>4, <2>6, <2>7 DEF CountIn
<1>15. Counted'
  BY <1>1, <1>4, <1>5, <1>8, <1>14, CountsChange
<1>16. PacketKnown'
  <2>1. PacketKnown
    BY DEF Running
  <2>2. CASE packet.at = "send" /\ Sent
    <3>1. CASE packet.to = filter[packet.of].instance
      <4>1. Sent'
        BY <3>1, <2>2, <1>1 DEF Sent
      <4> QED
        BY <4>1, <2>2, <1>1 DEF PacketKnown
    <3>2. ASSUME NEW d \in Commander, Turn(d, "destroy"), order[d].at = packet.of, packet.to = order[d].prev
          PROVE  PacketKnown'
      <4>1. d # c
        BY <3>2, <2>2 DEF DestroyPrevious
      <4>2. order'[d] = order[d] /\ Turn(d, "destroy")'
        BY <4>1, <3>2, <1>7, ThreadStays
      <4>3. Sent'
        BY <4>2, <3>2, <2>2, <1>1 DEF Sent
      <4> QED
        BY <4>3, <2>2, <1>1 DEF PacketKnown
    <3> QED
      BY <2>2, <3>1, <3>2 DEF Sent
  <2>3. CASE packet.at = "through" /\ PassedOn
    <3>1. PICK o \in DOMAIN output : o = packet.of
      BY <2>3, <1>4 DEF PassedOn, OutputsTyped
    <3>2. \A d \in Commander : ~Replaced(d, o)'
      BY <2>3, <3>1, <1>7, <1>12, ThreadStays DEF PassedOn
    <3>3. PassedOn'
      BY <3>1, <3>2, <2>3, <1>1, <1>5 DEF PassedOn
    <3> QED
      BY <3>3, <2>3, <1>1 DEF PacketKnown
  <2>4. CASE packet = NoPacket
    BY <2>4, <1>1 DEF PacketKnown
  <2> QED
    BY <2>1, <2>2, <2>3, <2>4 DEF PacketKnown
<1> QED
  BY <1>5, <1>7, <1>8, <1>9, <1>10, <1>13, <1>15, <1>16 DEF Running

\* A filter that is off the list is freed with its instance.
LEMMA FilterIsDropped ==
  ASSUME Running, NEW c \in Commander, DropFilter(c)
  PROVE  Running' /\ (misused' <=> misused)
<1>1. UNCHANGED <<instance, groups, outputsList, packet, outputsMutex>>
  BY DEF DropFilter
<1>2. Dropping(c) /\ order[c] \in Orders /\ Turn(c, "drop")
  BY TurnsTold DEF DropFilter, Running, OrdersTyped
<1>f. PICK f : f = order[c].at
  OBVIOUS
<1>x. PICK x : x = filter[f].instance
  OBVIOUS
<1>4. InstancesTyped /\ FiltersTyped /\ OutputsTyped /\ Counted /\ Referred /\ OutputsKnown
  BY DEF Running
<1>3. /\ f \in DOMAIN filter /\ f \notin groups /\ filter[f].kind = order[c].on /\ filter[f].kind \in Kinds
      /\ filter[f] \in Filters /\ filter \in Seq(Filters) /\ ~filter[f].freed /\ ~filter[f].fed
      /\ x \in Instances /\ Has(f)
  <2>1. /\ f \in DOMAIN filter /\ f \notin groups /\ filter[f].kind = order[c].on /\ filter[f].kind \in Kinds
        /\ ~filter[f].freed /\ Has(f)
    BY <1>2, <1>f DEF Dropping
  <2>2. filter \in Seq(Filters) /\ filter[f] \in Filters
    BY <2>1, LenProperties, ElementOfSeq DEF Running, FiltersTyped
  <2>3. ~filter[f].fed
    BY <2>1 DEF Running, FiltersKnown
  <2>4. x \in Instances
    BY <1>x, <1>4, <2>1 DEF Has, FiltersTyped
  <2> QED
    BY <2>1, <2>2, <2>3, <2>4
<1>5. /\ InstancesTyped' /\ OutputsTyped' /\ Referred' /\ OutputsKnown' /\ (misused' <=> misused)
      /\ DOMAIN output' = DOMAIN output
      /\ \A o \in DOMAIN output :
           /\ output'[o].name = output[o].name /\ output'[o].instance = output[o].instance
           /\ output'[o].freed <=> output[o].freed
      /\ \A i \in DOMAIN instance : destroyed'[i] = IF i = x THEN destroyed[i] + 1 ELSE destroyed[i]
      /\ tangled' \/ (~tangled /\ \A i \in Instances : instancesList'[i] = IF i = x THEN instancesList[i] - 1 ELSE instancesList[i])
  <2>1. f \in FiltersOf(x)
    BY <1>3, <1>x DEF FiltersOf
  <2>2. Held(x) \in Nat /\ Held(x) >= 1
    BY <2>1, <1>4, HeldBySomeone
  <2>3. DeliveryMethodDestroy(c, x) /\ output' = OutputsDestroy(x)
    BY <1>f, <1>x DEF DropFilter
  <2> QED
    BY <2>2, <2>3, <1>1, <1>3, <1>4, InstanceIsDestroyed
<1> DEFINE g == [filter[f] EXCEPT !.freed = TRUE]
<1>6. /\ g \in Filters /\ g.kind = filter[f].kind /\ g.instance = x
      /\ g.freed /\ ~g.fed
  BY <1>3, <1>x DEF Filters
<1>7. filter' = [filter EXCEPT ![f] = g]
  BY <1>f DEF DropFilter
<1> HIDE DEF g
<1>8. /\ filter' \in Seq(Filters) /\ DOMAIN filter' = DOMAIN filter /\ filter'[f] = g
      /\ \A h \in DOMAIN filter : h # f => filter'[h] = filter[h]
  BY <1>3, <1>6, <1>7, ElementChanges
<1>9. Resting \in Orders
  BY DEF Resting, OrderTo, Orders, Plans, MRL, NoInstance
<1>10. OrdersTyped' /\ order'[c] = Resting /\ \A d \in Commander : d # c => order'[d] = order[d]
  BY <1>9, OrderChanges DEF DropFilter, Rests, Running
<1>11. Instances' = Instances
  BY <1>1 DEF Instances
<1>12. FiltersTyped'
  <2>1. ASSUME NEW h \in DOMAIN filter PROVE filter'[h].instance \in Instances \cup {NoInstance}
    BY <1>3, <1>4, <1>6, <1>8 DEF FiltersTyped
  <2> QED
    BY <1>1, <1>4, <1>8, <1>11, <2>1 DEF FiltersTyped
<1>13. \A d \in Commander : Fits(d)'
  <2>1. Fits(c)'
    BY <1>10 DEF Fits
  <2>2. ASSUME NEW d \in Commander, d # c PROVE Fits(d)'
    <3>1. Fits(d) /\ groups \subseteq DOMAIN filter /\ outputsList \subseteq DOMAIN output /\ Len(instance) <= Len(instance)'
      BY <1>1, <1>4, LenProperties DEF Running, FiltersTyped, OutputsTyped, InstancesTyped
    <3>2. filter[f].kind # order[d].on
      BY <1>3, <2>2 DEF Running, Alone, Kinds
    <3>3. \A h \in DOMAIN filter : filter[h].kind = order[d].on => filter'[h] = filter[h]
      BY <3>2, <1>8
    <3> QED
      BY <1>1, <1>4, <1>5, <1>8, <1>10, <2>2, <3>1, <3>3, FitsStay
  <2> QED
    BY <2>1, <2>2
<1>14. Alone'
  BY <1>10 DEF Running, Alone, Resting, OrderTo
<1>15. \A s : (Turn(c, s) => s = "drop") /\ ~Turn(c, s)'
  BY <1>2, <1>10, PlansGoOn DEF Turn, Dropping, Resting, OrderTo
<1>16. /\ \A y : ~Waits(c, y) /\ ~Waits(c, y)' /\ ~Replaced(c, y) /\ ~Replaced(c, y)' /\ ~GivesFirst(c, y)
       /\ Carried(c) = NoInstance /\ Carried(c)' = NoInstance
  BY <1>2, <1>10, <1>15 DEF Waits, Replaced, GivesFirst, Carried, Resting, OrderTo, Dropping, MadeNone
<1>17. FiltersKnown'
  <2>1. \A d \in Commander : \A y : GivesFirst(d, y) => GivesFirst(d, y)'
    BY <1>10, <1>16, ThreadStays
  <2>2. ASSUME NEW h \in DOMAIN filter
        PROVE  /\ h \in groups' => ~filter'[h].freed
               /\ filter'[h].fed => h \in groups' /\ Has(h)'
               /\ ~Has(h)' => \E d \in Commander : GivesFirst(d, h)'
    <3>1. CASE h = f
      BY <3>1, <1>1, <1>3, <1>6, <1>8, <1>x DEF Has
    <3>2. CASE h # f
      BY <3>2, <1>1, <1>8, <2>1 DEF Running, FiltersKnown, Has
    <3> QED
      BY <3>1, <3>2
  <2> QED
    BY <1>8, <2>2 DEF FiltersKnown
<1>18. ASSUME NEW i \in Instances
       PROVE  Held(i)' = (IF i = x THEN Held(i) - 1 ELSE Held(i)) /\ Held(i) \in Nat
  <2>2. FiltersOf(i)' \ {f} = FiltersOf(i) \ {f} /\ f \notin FiltersOf(i)' /\ (f \in FiltersOf(i) <=> x = i)
    BY <1>3, <1>6, <1>8, <1>x DEF FiltersOf
  <2>3. \A d \in Commander, o \in DOMAIN output : (Waits(d, o)' <=> Waits(d, o)) /\ (Replaced(d, o)' <=> Replaced(d, o))
    BY <1>10, <1>16, ThreadStays
  <2>4. OutputsOf(i)' = OutputsOf(i) /\ OutputsOf(i)' \ {f} = OutputsOf(i) \ {f}
    BY <1>5, <2>3, OutputsStay
  <2>5. \A d \in Commander : Carried(d)' = Carried(d)
    BY <1>10, <1>16, ThreadStays
  <2>6. CarriersOf(i)' = CarriersOf(i) /\ CarriersOf(i)' \ {c} = CarriersOf(i) \ {c}
    BY <2>5 DEF CarriersOf
  <2>7. /\ Held(i) \in Nat /\ Held(i)' \in Nat
        /\ Held(i)' = Held(i) + CountIn(f, FiltersOf(i)') - CountIn(f, FiltersOf(i))
                               + CountIn(f, OutputsOf(i)') - CountIn(f, OutputsOf(i))
                               + CountIn(c, CarriersOf(i)') - CountIn(c, CarriersOf(i))
    <3>1. FiltersOf(i)' \ {f} = FiltersOf(i) \ {f}
      BY <2>2
    <3>2. OutputsOf(i)' \ {f} = OutputsOf(i) \ {f}
      BY <2>4
    <3>3. CarriersOf(i)' \ {c} = CarriersOf(i) \ {c}
      BY <2>6
    <3> QED
      BY <1>4, <3>1, <3>2, <3>3, HeldChanges
  <2> QED
    BY <2>2, <2>4, <2>6, <2>7 DEF CountIn
<1>19. Counted'
  BY <1>1, <1>4, <1>5, <1>11, <1>18, CountsChange
<1>20. PacketKnown'
  <2>1. PacketKnown
    BY DEF Running
  <2>2. packet.at = "send" =>
          /\ packet.of \in groups' /\ filter'[packet.of].instance = filter[packet.of].instance
          /\ \A d \in Commander : Turn(d, "destroy") => order'[d] = order[d]
    BY <2>1, <1>1, <1>3, <1>4, <1>8, <1>10, <1>15 DEF PacketKnown, Sent, NoPacket, FiltersTyped
  <2>3. packet.at = "through" =>
          /\ UNCHANGED outputsMutex /\ packet.of \in outputsList'
          /\ output'[packet.of].instance = output[packet.of].instance
          /\ \A d \in Commander : ~Replaced(d, packet.of)'
    <3> SUFFICES ASSUME packet.at = "through"
                 PROVE  /\ packet.of \in outputsList'
                        /\ output'[packet.of].instance = output[packet.of].instance
                        /\ \A d \in Commander : ~Replaced(d, packet.of)'
      BY <1>1
    <3>1. PassedOn
      BY <2>1 DEF PacketKnown, NoPacket
    <3>2. PICK o \in DOMAIN output : o = packet.of
      BY <1>4, <3>1 DEF PassedOn, OutputsTyped
    <3>3. \A d \in Commander : ~Replaced(d, o)'
      BY <3>1, <3>2, <1>10, <1>16, ThreadStays DEF PassedOn
    <3> QED
      BY <3>1, <3>2, <3>3, <1>1, <1>5 DEF PassedOn
  <2> QED
    BY <2>1, <2>2, <2>3, <1>1, PacketStays
<1> QED
  BY <1>5, <1>10, <1>12, <1>13, <1>14, <1>17, <1>19, <1>20 DEF Running

\* The instance of an output is destroyed.
LEMMA InstanceIsReplaced ==
  ASSUME Running, ~crossed', NEW c \in Commander, ReplaceInstance(c)
  PROVE  Running' /\ (misused' <=> misused)
<1>1. UNCHANGED <<instance, filter, groups, outputsList, packet, outputsMutex>>
  BY DEF ReplaceInstance
<1>2. Replacing(c) /\ order[c] \in Orders /\ Turn(c, "replace")
  BY TurnsTold DEF ReplaceInstance, Running, OrdersTyped
<1>o. PICK o : o = order[c].at
  OBVIOUS
<1>x. PICK x : x = output[o].instance
  OBVIOUS
<1>3. InstancesTyped /\ FiltersTyped /\ OutputsTyped /\ Counted /\ Referred /\ OutputsKnown
  BY DEF Running
<1>4. /\ o \in DOMAIN output /\ o \in outputsList /\ ~output[o].freed /\ x \in Instances
      /\ output[o].name = order[c].on /\ order[c].made \in Instances
  BY <1>2, <1>3, <1>o, <1>x DEF Replacing, AtOutput, Made, OutputsTyped, OutputsKnown
<1>5. Tail(order[c].todo) = Installs /\ Installs \in Plans
  BY <1>2, PlansGoOn DEF Replacing, Plans
<1> DEFINE r == [order[c] EXCEPT !.todo = Tail(order[c].todo)]
<1>6. /\ r \in Orders /\ r.todo = Installs /\ r.on = order[c].on /\ r.at = o /\ r.made = order[c].made
  BY <1>2, <1>5, <1>o DEF Orders
<1>7. order' = [order EXCEPT ![c] = r]
  BY DEF ReplaceInstance, Advance
<1> HIDE DEF r
<1>8. OrdersTyped' /\ order'[c] = r /\ \A d \in Commander : d # c => order'[d] = order[d]
  BY <1>6, <1>7, OrderChanges DEF Running
<1>9. /\ \A s : (Turn(c, s) => s = "replace") /\ (Turn(c, s)' => s = "install")
      /\ Turn(c, "install")'
  BY <1>2, <1>6, <1>8, PlansGoOn DEF Turn, Replacing
<1>10. /\ \A y : ~Waits(c, y) /\ ~Waits(c, y)' /\ ~Replaced(c, y) /\ (Replaced(c, y)' <=> y = o) /\ ~GivesFirst(c, y)
       /\ Carried(c)' = Carried(c)
  BY <1>6, <1>8, <1>9 DEF Waits, Replaced, GivesFirst, Carried
<1>11. o \in OutputsOf(x)
  <2>1. \A d \in Commander : ~Replaced(d, o)
    BY <1>4, <1>10, NoOtherReplaces
  <2> QED
    BY <1>4, <1>x, <2>1 DEF OutputsOf
<1>12. /\ InstancesTyped' /\ OutputsTyped' /\ Referred' /\ OutputsKnown' /\ (misused' <=> misused)
       /\ DOMAIN output' = DOMAIN output
       /\ \A p \in DOMAIN output :
            /\ output'[p].name = output[p].name /\ output'[p].instance = output[p].instance
            /\ output'[p].freed <=> output[p].freed
       /\ \A i \in DOMAIN instance : destroyed'[i] = IF i = x THEN destroyed[i] + 1 ELSE destroyed[i]
       /\ tangled' \/ (~tangled /\ \A i \in Instances : instancesList'[i] = IF i = x THEN instancesList[i] - 1 ELSE instancesList[i])
  <2>1. Held(x) \in Nat /\ Held(x) >= 1
    BY <1>3, <1>11, HeldBySomeone
  <2>2. DeliveryMethodDestroy(c, x) /\ output' = OutputsDestroy(x)
    BY <1>o, <1>x DEF ReplaceInstance
  <2> QED
    BY <2>1, <2>2, <1>1, <1>3, <1>4, InstanceIsDestroyed
<1>13. FiltersTyped' /\ Instances' = Instances
  BY <1>1, <1>3 DEF FiltersTyped, Instances
<1>14. \A d \in Commander : Fits(d)'
  <2>1. Installing(c)'
    BY <1>1, <1>2, <1>4, <1>6, <1>8, <1>12, <1>13 DEF Replacing, Installing, AtOutput, Made
  <2>2. ASSUME NEW d \in Commander, d # c PROVE Fits(d)'
    <3>1. Fits(d) /\ groups \subseteq DOMAIN filter /\ outputsList \subseteq DOMAIN output /\ Len(instance) <= Len(instance)'
      BY <1>1, <1>3, LenProperties DEF Running, FiltersTyped, OutputsTyped, InstancesTyped
    <3> QED
      BY <1>1, <1>3, <1>8, <1>12, <2>2, <3>1, FitsStay
  <2>3. Fits(c)'
    BY <2>1 DEF Fits
  <2> QED
    BY <2>2, <2>3
<1>15. Alone'
  BY <1>6, <1>8 DEF Running, Alone
<1>16. FiltersKnown'
  <2>1. \A d \in Commander : \A y : GivesFirst(d, y) => GivesFirst(d, y)'
    BY <1>8, <1>10, ThreadStays
  <2> QED
    BY <1>1, <2>1 DEF Running, FiltersKnown, Has
<1>17. ASSUME NEW i \in Instances
       PROVE  Held(i)' = (IF i = x THEN Held(i) - 1 ELSE Held(i)) /\ Held(i) \in Nat
  <2>1. FiltersOf(i)' = FiltersOf(i) /\ FiltersOf(i)' \ {o} = FiltersOf(i) \ {o}
    BY <1>1, FiltersStay
  <2>2. \A d \in Commander, p \in DOMAIN output : p # o => (Waits(d, p)' <=> Waits(d, p)) /\ (Replaced(d, p)' <=> Replaced(d, p))
    BY <1>8, <1>10, ThreadStays
  <2>3. OutputsOf(i)' \ {o} = OutputsOf(i) \ {o}
    BY <1>12, <2>2, OtherOutputsStay
  <2>4. o \notin OutputsOf(i)' /\ (o \in OutputsOf(i) <=> x = i)
    BY <1>10, <1>11, <1>x DEF OutputsOf
  <2>5. \A d \in Commander : Carried(d)' = Carried(d)
    BY <1>8, <1>10, ThreadStays
  <2>6. CarriersOf(i)' = CarriersOf(i) /\ CarriersOf(i)' \ {c} = CarriersOf(i) \ {c}
    BY <2>5 DEF CarriersOf
  <2>7. /\ Held(i) \in Nat /\ Held(i)' \in Nat
        /\ Held(i)' = Held(i) + CountIn(o, FiltersOf(i)') - CountIn(o, FiltersOf(i))
                               + CountIn(o, OutputsOf(i)') - CountIn(o, OutputsOf(i))
                               + CountIn(c, CarriersOf(i)') - CountIn(c, CarriersOf(i))
    <3>1. FiltersOf(i)' \ {o} = FiltersOf(i) \ {o}
      BY <2>1
    <3>2. CarriersOf(i)' \ {c} = CarriersOf(i) \ {c}
      BY <2>6
    <3> QED
      BY <1>3, <2>3, <3>1, <3>2, HeldChanges
  <2> QED
    BY <2>1, <2>4, <2>6, <2>7 DEF CountIn
<1>18. Counted'
  BY <1>1, <1>3, <1>12, <1>13, <1>17, CountsChange
<1>19. PacketKnown'
  <2>1. PacketKnown
    BY DEF Running
  <2>2. packet.at = "send" =>
          /\ packet.of \in groups' /\ filter'[packet.of].instance = filter[packet.of].instance
          /\ \A d \in Commander : Turn(d, "destroy") => order'[d] = order[d]
    BY <2>1, <1>1, <1>8, <1>9 DEF PacketKnown, Sent, NoPacket
  <2>3. packet.at = "through" =>
          /\ UNCHANGED outputsMutex /\ packet.of \in outputsList'
          /\ output'[packet.of].instance = output[packet.of].instance
          /\ \A d \in Commander : ~Replaced(d, packet.of)'
    <3> SUFFICES ASSUME packet.at = "through"
                 PROVE  /\ packet.of \in outputsList'
                        /\ output'[packet.of].instance = output[packet.of].instance
                        /\ \A d \in Commander : ~Replaced(d, packet.of)'
      BY <1>1
    <3>1. PassedOn
      BY <2>1 DEF PacketKnown, NoPacket
    <3>2. PICK p \in DOMAIN output : p = packet.of
      BY <1>3, <3>1 DEF PassedOn, OutputsTyped
    <3>3. p # o
      BY <3>2, <1>o DEF ReplaceInstance
    <3>4. \A d \in Commander : ~Replaced(d, p)'
      BY <3>1, <3>2, <3>3, <1>8, <1>10, ThreadStays DEF PassedOn
    <3> QED
      BY <3>1, <3>2, <3>4, <1>1, <1>12 DEF PassedOn
  <2> QED
    BY <2>1, <2>2, <2>3, <1>1, PacketStays
<1> QED
  BY <1>8, <1>12, <1>13, <1>14, <1>15, <1>16, <1>18, <1>19 DEF Running

\* And the output is given the one made for it.
LEMMA InstanceIsInstalled ==
  ASSUME Running, NEW c \in Commander, InstallInstance(c)
  PROVE  Running' /\ (misused' <=> misused)
<1>1. UNCHANGED <<instance, destroyed, instancesList, tangled, filter, groups, outputsList, packet, outputsMutex>>
  BY DEF InstallInstance
<1>2. Installing(c) /\ order[c] \in Orders /\ Turn(c, "install")
  BY TurnsTold DEF InstallInstance, Running, OrdersTyped
<1>o. PICK o : o = order[c].at
  OBVIOUS
<1>m. PICK made : made = order[c].made
  OBVIOUS
<1>3. InstancesTyped /\ FiltersTyped /\ OutputsTyped /\ Counted /\ Referred /\ OutputsKnown
  BY DEF Running
<1>4. /\ o \in DOMAIN output /\ o \in outputsList /\ ~output[o].freed
      /\ output[o].name = order[c].on /\ made \in Instances /\ made \in Int /\ made # NoInstance
      /\ output[o] \in Outputs /\ output \in Seq(Outputs)
  <2>1. o \in DOMAIN output /\ o \in outputsList /\ ~output[o].freed /\ output[o].name = order[c].on
    BY <1>2, <1>3, <1>o DEF Installing, AtOutput, OutputsTyped, OutputsKnown
  <2>2. made \in Instances /\ made \in Int /\ made # NoInstance
    BY <1>2, <1>m DEF Installing, Made, Instances, NullInstance, NoInstance
  <2>3. output[o] \in Outputs /\ output \in Seq(Outputs)
    BY <1>3, <2>1, LenProperties, ElementOfSeq DEF OutputsTyped
  <2> QED
    BY <2>1, <2>2, <2>3
<1>5. misused' <=> misused
  BY <1>4, <1>o DEF InstallInstance
<1> DEFINE g == [output[o] EXCEPT !.instance = made]
<1>6. /\ g \in Outputs /\ g.name = output[o].name /\ g.instance = made
      /\ (g.freed <=> output[o].freed) /\ g.refs = output[o].refs
  BY <1>4 DEF Outputs
<1>7. output' = [output EXCEPT ![o] = g]
  BY <1>o, <1>m DEF InstallInstance
<1> HIDE DEF g
<1>8. /\ output' \in Seq(Outputs) /\ DOMAIN output' = DOMAIN output /\ output'[o] = g
      /\ \A p \in DOMAIN output : p # o => output'[p] = output[p]
  BY <1>4, <1>6, <1>7, ElementChanges
<1>9. \A p \in DOMAIN output :
        /\ output'[p].name = output[p].name /\ output'[p].refs = output[p].refs
        /\ output'[p].freed <=> output[p].freed
  BY <1>6, <1>8
<1>10. Resting \in Orders
  BY DEF Resting, OrderTo, Orders, Plans, MRL, NoInstance
<1>11. OrdersTyped' /\ order'[c] = Resting /\ \A d \in Commander : d # c => order'[d] = order[d]
  BY <1>10, OrderChanges DEF InstallInstance, Rests, Running
<1>12. Instances' = Instances
  BY <1>1 DEF Instances
<1>13. InstancesTyped' /\ FiltersTyped' /\ OutputsTyped' /\ OutputsKnown' /\ Referred'
  <2>1. InstancesTyped' /\ FiltersTyped'
    BY <1>1, <1>3, <1>8, <1>12 DEF InstancesTyped, FiltersTyped
  <2>2. OutputsKnown' /\ Referred'
    <3>1. \A p : ReferringTo(p)' = ReferringTo(p)
      BY <1>1 DEF ReferringTo
    <3>2. OutputsKnown'
      BY <1>1, <1>3, <1>8, <1>9 DEF OutputsKnown
    <3>3. Referred'
      BY <1>3, <1>8, <1>9, <3>1 DEF Referred
    <3> QED
      BY <3>2, <3>3
  <2>3. \A p \in DOMAIN output : output'[p].instance \in Instances
    BY <1>3, <1>4, <1>6, <1>8 DEF OutputsTyped
  <2>4. OutputsTyped'
    BY <1>1, <1>3, <1>8, <1>12, <2>3 DEF OutputsTyped
  <2> QED
    BY <2>1, <2>2, <2>4
<1>14. \A d \in Commander : Fits(d)'
  <2>1. Fits(c)'
    BY <1>11 DEF Fits
  <2>2. ASSUME NEW d \in Commander, d # c PROVE Fits(d)'
    <3>1. Fits(d) /\ groups \subseteq DOMAIN filter /\ outputsList \subseteq DOMAIN output /\ Len(instance) <= Len(instance)'
      BY <1>1, <1>3, LenProperties DEF Running, FiltersTyped, OutputsTyped, InstancesTyped
    <3> QED
      BY <1>1, <1>3, <1>8, <1>9, <1>11, <1>13, <2>2, <3>1, FitsStay
  <2> QED
    BY <2>1, <2>2
<1>15. Alone'
  BY <1>11 DEF Running, Alone, Resting, OrderTo
<1>16. \A s : (Turn(c, s) => s = "install") /\ ~Turn(c, s)'
  BY <1>2, <1>11, PlansGoOn DEF Turn, Installing, Resting, OrderTo
<1>17. /\ \A y : ~Waits(c, y) /\ ~Waits(c, y)' /\ (Replaced(c, y) <=> y = o) /\ ~Replaced(c, y)' /\ ~GivesFirst(c, y)
       /\ Carried(c) = made /\ Carried(c)' = NoInstance
  BY <1>2, <1>11, <1>16, <1>o, <1>m DEF Waits, Replaced, GivesFirst, Carried, Resting, OrderTo
<1>18. FiltersKnown'
  <2>1. \A d \in Commander : \A y : GivesFirst(d, y) => GivesFirst(d, y)'
    BY <1>11, <1>17, ThreadStays
  <2> QED
    BY <1>1, <2>1 DEF Running, FiltersKnown, Has
<1>19. \A d \in Commander : ~Replaced(d, o)'
  BY <1>4, <1>11, <1>17, NoOtherReplaces, ThreadStays
<1>20. ASSUME NEW i \in Instances
       PROVE  Held(i)' = Held(i) /\ Held(i) \in Nat
  <2>1. FiltersOf(i)' = FiltersOf(i) /\ FiltersOf(i)' \ {o} = FiltersOf(i) \ {o}
    BY <1>1, FiltersStay
  <2>2. \A d \in Commander, p \in DOMAIN output : p # o => (Waits(d, p)' <=> Waits(d, p)) /\ (Replaced(d, p)' <=> Replaced(d, p))
    BY <1>11, <1>17, ThreadStays
  <2>3. OutputsOf(i)' \ {o} = OutputsOf(i) \ {o}
    BY <1>8, <2>2, OtherOutputsStay
  <2>4. o \notin OutputsOf(i) /\ (o \in OutputsOf(i)' <=> made = i)
    BY <1>4, <1>6, <1>8, <1>9, <1>17, <1>19 DEF OutputsOf
  <2>5. CarriersOf(i)' \ {c} = CarriersOf(i) \ {c}
    BY <1>11, OthersCarryOn
  <2>6. c \notin CarriersOf(i)' /\ (c \in CarriersOf(i) <=> made = i)
    BY <1>17 DEF CarriersOf, Instances, NullInstance, NoInstance
  <2>7. /\ Held(i) \in Nat /\ Held(i)' \in Nat
        /\ Held(i)' = Held(i) + CountIn(o, FiltersOf(i)') - CountIn(o, FiltersOf(i))
                               + CountIn(o, OutputsOf(i)') - CountIn(o, OutputsOf(i))
                               + CountIn(c, CarriersOf(i)') - CountIn(c, CarriersOf(i))
    <3>1. FiltersOf(i)' \ {o} = FiltersOf(i) \ {o}
      BY <2>1
    <3> QED
      BY <1>3, <2>3, <2>5, <3>1, HeldChanges
  <2> QED
    BY <2>1, <2>4, <2>6, <2>7 DEF CountIn
<1>21. Counted'
  <2>1. DOMAIN instance \subseteq Instances
    BY LenProperties DEF Running, InstancesTyped, Instances, NullInstance
  <2> QED
    BY <2>1, <1>1, <1>12, <1>20 DEF Running, Counted
<1>22. PacketKnown'
  <2>1. PacketKnown
    BY DEF Running
  <2>2. packet.at = "send" =>
          /\ packet.of \in groups' /\ filter'[packet.of].instance = filter[packet.of].instance
          /\ \A d \in Commander : Turn(d, "destroy") => order'[d] = order[d]
    BY <2>1, <1>1, <1>11, <1>16 DEF PacketKnown, Sent, NoPacket
  <2>3. packet.at = "through" =>
          /\ UNCHANGED outputsMutex /\ packet.of \in outputsList'
          /\ output'[packet.of].instance = output[packet.of].instance
          /\ \A d \in Commander : ~Replaced(d, packet.of)'
    <3> SUFFICES ASSUME packet.at = "through"
                 PROVE  /\ packet.of \in outputsList'
                        /\ output'[packet.of].instance = output[packet.of].instance
                        /\ \A d \in Commander : ~Replaced(d, packet.of)'
      BY <1>1
    <3>1. PassedOn
      BY <2>1 DEF PacketKnown, NoPacket
    <3>2. PICK p \in DOMAIN output : p = packet.of
      BY <1>3, <3>1 DEF PassedOn, OutputsTyped
    <3>3. p # o
      BY <3>1, <3>2, <1>17 DEF PassedOn
    <3>4. \A d \in Commander : ~Replaced(d, p)'
      BY <3>1, <3>2, <1>11, <1>17, ThreadStays DEF PassedOn
    <3> QED
      BY <3>1, <3>2, <3>3, <3>4, <1>1, <1>8 DEF PassedOn
  <2> QED
    BY <2>1, <2>2, <2>3, <1>1, PacketStays
<1> QED
  BY <1>5, <1>11, <1>13, <1>14, <1>15, <1>18, <1>21, <1>22 DEF Running

-----------------------------------------------------------------------------
(* Instances are made.                                                     *)

\* c has made what it goes on with.
LEMMA MakerGoesOn ==
  ASSUME Running, NEW c \in Commander, Turn(c, "create"), NEW i \in Instances',
         Advance(c, [order[c] EXCEPT !.made = i]),
         UNCHANGED <<filter, groups, outputsList>>, DOMAIN output' = DOMAIN output,
         \A o \in DOMAIN output : output'[o].name = output[o].name
  PROVE  /\ OrdersTyped' /\ \A d \in Commander : d # c => order'[d] = order[d]
         /\ Fits(c)' /\ Alone' /\ Carried(c) = NoInstance /\ Carried(c)' = i
         /\ ~Turn(c, "destroy")
         /\ \A y : ~Waits(c, y) /\ ~Waits(c, y)' /\ ~Replaced(c, y) /\ ~Replaced(c, y)'
         /\ \A y : GivesFirst(c, y) => GivesFirst(c, y)'
<1>1. Creating(c) /\ order[c] \in Orders
  BY TurnsTold DEF Running, OrdersTyped
<1>2. /\ Tail(order[c].todo) \in {Reads, Lists, LocksAgain, Replaces}
      /\ {Reads, Lists, LocksAgain, Replaces} \subseteq Plans
      /\ \A s : Turn(c, s) => s = "create"
  BY <1>1, PlansGoOn DEF Creating, Plans, Turn
<1>3. i \in Int
  BY DEF Instances, NullInstance
<1> DEFINE r == [[order[c] EXCEPT !.made = i] EXCEPT !.todo = Tail(order[c].todo)]
<1>4. /\ r \in Orders /\ r.todo = Tail(order[c].todo) /\ r.on = order[c].on /\ r.at = order[c].at
      /\ r.made = i /\ (r.adds <=> order[c].adds)
  BY <1>1, <1>2, <1>3 DEF Orders
<1>r. order' = [order EXCEPT ![c] = r]
  BY DEF Advance
<1> HIDE DEF r
<1>5. OrdersTyped' /\ order'[c] = r /\ \A d \in Commander : d # c => order'[d] = order[d]
  BY <1>4, <1>r, OrderChanges DEF Running
<1>6. Alone'
  BY <1>4, <1>5 DEF Running, Alone
<1>7. /\ \A s : Turn(c, s)' => s \in {"read", "list", "relock", "replace"}
      /\ order[c].todo = Creates => Turn(c, "read")'
      /\ ~Turn(c, "destroy") /\ ~Turn(c, "destroy")'
  <2>1. order'[c].todo = Tail(order[c].todo)
    BY <1>4, <1>5
  <2>2. order[c].todo = Creates => Turn(c, "read")'
    BY <2>1, PlansGoOn DEF Turn
  <2>3. Tail(order[c].todo) # <<>> /\ Head(Tail(order[c].todo)) \in {"read", "list", "relock", "replace"}
    <3> DEFINE rest == Tail(order[c].todo)
    <3>1. rest \in {Reads, Lists, LocksAgain, Replaces}
      BY <1>2
    <3> HIDE DEF rest
    <3>2. rest # <<>> /\ Head(rest) \in {"read", "list", "relock", "replace"}
      <4>1. CASE rest = Reads
        BY <4>1, PlansGoOn
      <4>2. CASE rest = Lists
        BY <4>2, PlansGoOn
      <4>3. CASE rest = LocksAgain
        BY <4>3, PlansGoOn
      <4>4. CASE rest = Replaces
        BY <4>4, PlansGoOn
      <4> QED
        BY <3>1, <4>1, <4>2, <4>3, <4>4
    <3> QED
      BY <3>2 DEF rest
  <2>4. ASSUME NEW s, Turn(c, s)'
        PROVE  s \in {"read", "list", "relock", "replace"}
    BY <2>1, <2>3, <2>4 DEF Turn
  <2> QED
    BY <1>2, <2>2, <2>4
<1>8. Carried(c) = NoInstance /\ Carried(c)' = i
  <2>1. order[c].made = NoInstance /\ order'[c].made = i
    BY <1>1, <1>4, <1>5 DEF Creating, MadeNone
  <2> QED
    BY <2>1, <1>7 DEF Carried
<1>9. OutputName \cap {"service", "manual"} = {}
  BY DeliveriesAssumption
<1>10. \A y : ~Replaced(c, y) /\ ~Replaced(c, y)' /\ ~Waits(c, y)
  BY <1>2, <1>7 DEF Replaced, Waits
<1>11. \A y : ~Waits(c, y)'
  <2>1. Turn(c, "relock")' => order[c].on = "manual"
    BY <1>1, <1>4, <1>5, PlansGoOn DEF Creating, Turn
  <2> QED
    BY <2>1, <1>4, <1>5 DEF Waits
<1>12. \A y : GivesFirst(c, y) => GivesFirst(c, y)'
  <2>1. order[c].on = "service" => order[c].todo = Creates
    BY <1>1, <1>9 DEF Creating, AtOutput
  <2> QED
    BY <2>1, <1>4, <1>5, <1>7 DEF GivesFirst
<1>13. Fits(c)'
  <2>1. Made(c)'
    BY <1>4, <1>5 DEF Made
  <2>2. CASE order[c].todo = Creates /\ AtService(c)
    <3>1. AtService(c)'
      BY <2>2, <1>4, <1>5 DEF AtService, AtFilter
    <3>2. order'[c].todo = Reads
      BY <2>2, <1>4, <1>5, PlansGoOn
    <3>3. Reading(c)'
      BY <2>1, <3>1, <3>2 DEF Reading
    <3> QED
      BY <3>3 DEF Fits
  <2>3. CASE order[c].todo = CreatesManual /\ order[c].on = "manual"
    <3>1. Listing(c)'
      BY <2>1, <2>3, <1>4, <1>5, PlansGoOn DEF Listing
    <3> QED
      BY <3>1 DEF Fits
  <2>4. CASE order[c].todo = CreatesLocked /\ order[c].on = "manual"
    <3>1. Stuck(c)'
      BY <2>1, <2>4, <1>4, <1>5, PlansGoOn DEF Stuck
    <3> QED
      BY <3>1 DEF Fits
  <2>5. CASE order[c].todo = CreatesOutput /\ AtOutput(c)
    <3>1. AtOutput(c)'
      BY <2>5, <1>4, <1>5 DEF AtOutput, Running, OutputsTyped
    <3>2. Replacing(c)'
      BY <2>1, <2>5, <3>1, <1>4, <1>5, PlansGoOn DEF Replacing
    <3> QED
      BY <3>2 DEF Fits
  <2> QED
    BY <1>1, <2>2, <2>3, <2>4, <2>5 DEF Creating
<1> QED
  BY <1>5, <1>6, <1>7, <1>8, <1>10, <1>11, <1>12, <1>13

\* What a thread carries is an instance there was made.
LEMMA CarriedIsKnown ==
  ASSUME NEW d \in Commander, Fits(d)
  PROVE  Carried(d) \in Instances \cup {NoInstance}
<1>1. order[d].todo = Destroys \/ ~Turn(d, "destroy")
  BY TurnsTold DEF Destroying
<1>2. CASE Turn(d, "destroy")
  BY <1>2, TurnsTold DEF Carried, Destroying
<1>3. CASE ~Turn(d, "destroy")
  <2>1. ~Destroying(d)
    BY <1>3, PlansGoOn DEF Destroying, Turn
  <2>2. order[d].made \in Instances \cup {NoInstance}
    BY <2>1 DEF Fits, Resting, OrderTo, Entering, Creating, Reading, Setting, Unlisting, Dropping, Listing, Locking,
                Stuck, Replacing, Installing, Made, MadeNone
  <2> QED
    BY <2>2, <1>3 DEF Carried
<1> QED
  BY <1>2, <1>3

\* While c makes something, nothing else happens to filters and outputs, and
\* the packet loop is where it was.
LEMMA OthersWait ==
  ASSUME Running, NEW c \in Commander, UNCHANGED <<filter, groups, outputsList, packet, outputsMutex>>,
         InstancesTyped', Len(instance) <= Len(instance)', DOMAIN output' = DOMAIN output,
         \A o \in DOMAIN output :
           /\ output'[o].name = output[o].name /\ output'[o].instance = output[o].instance
           /\ output'[o].freed <=> output[o].freed,
         \A d \in Commander : d # c => order'[d] = order[d], Fits(c)', ~Turn(c, "destroy"),
         \A y : ~Waits(c, y) /\ ~Waits(c, y)' /\ ~Replaced(c, y) /\ ~Replaced(c, y)',
         \A y : GivesFirst(c, y) => GivesFirst(c, y)'
  PROVE  /\ \A d \in Commander : Fits(d)'
         /\ FiltersKnown' /\ OutputsKnown' /\ PacketKnown'
         /\ \A i : FiltersOf(i)' = FiltersOf(i) /\ OutputsOf(i)' = OutputsOf(i)
<1>1. InstancesTyped /\ FiltersTyped /\ OutputsTyped /\ PacketKnown
  BY DEF Running
<1>2. \A d \in Commander : Fits(d)'
  <2> SUFFICES ASSUME NEW d \in Commander, d # c PROVE Fits(d)'
    OBVIOUS
  <2>1. Fits(d) /\ groups \subseteq DOMAIN filter /\ outputsList \subseteq DOMAIN output
    BY <1>1 DEF Running, FiltersTyped, OutputsTyped
  <2> QED
    BY <1>1, <2>1, FitsStay
<1>3. FiltersKnown'
  <2>1. \A d \in Commander : \A y : GivesFirst(d, y) => GivesFirst(d, y)'
    BY ThreadStays
  <2> QED
    BY <2>1 DEF Running, FiltersKnown, Has
<1>4. OutputsKnown'
  BY DEF Running, OutputsKnown
<1>5. ASSUME NEW i
      PROVE  FiltersOf(i)' = FiltersOf(i) /\ OutputsOf(i)' = OutputsOf(i)
  <2>1. \A d \in Commander, o \in DOMAIN output : (Waits(d, o)' <=> Waits(d, o)) /\ (Replaced(d, o)' <=> Replaced(d, o))
    BY ThreadStays
  <2>2. OutputsOf(i)' = OutputsOf(i)
    BY <2>1, OutputsStay
  <2> QED
    BY <2>2, FiltersStay
<1>6. PacketKnown'
  <2>1. packet.at = "send" =>
          /\ packet.of \in groups' /\ filter'[packet.of].instance = filter[packet.of].instance
          /\ \A d \in Commander : Turn(d, "destroy") => order'[d] = order[d]
    BY <1>1 DEF PacketKnown, Sent, NoPacket
  <2>2. packet.at = "through" =>
          /\ UNCHANGED outputsMutex /\ packet.of \in outputsList'
          /\ output'[packet.of].instance = output[packet.of].instance
          /\ \A d \in Commander : ~Replaced(d, packet.of)'
    <3> SUFFICES ASSUME packet.at = "through"
                 PROVE  /\ packet.of \in outputsList'
                        /\ output'[packet.of].instance = output[packet.of].instance
                        /\ \A d \in Commander : ~Replaced(d, packet.of)'
      OBVIOUS
    <3>1. PassedOn
      BY <1>1 DEF PacketKnown, NoPacket
    <3>2. PICK p \in DOMAIN output : p = packet.of
      BY <1>1, <3>1 DEF PassedOn, OutputsTyped
    <3>3. \A d \in Commander : ~Replaced(d, p)'
      BY <3>1, <3>2, ThreadStays DEF PassedOn
    <3> QED
      BY <3>1, <3>2, <3>3 DEF PassedOn
  <2> QED
    BY <1>1, <2>1, <2>2, PacketStays
<1> QED
  BY <1>2, <1>3, <1>4, <1>5, <1>6

\* An instance is made.
LEMMA NewInstanceIsMade ==
  ASSUME Running, NEW c \in Commander, Turn(c, "create"), NEW to \in {Outside} \cup outputsList, NewInstance(c, to),
         output' = IF to = Outside THEN output ELSE OutputsCreate(to),
         UNCHANGED <<filter, groups, outputsList, packet, outputsMutex>>
  PROVE  Running'
<1>1. InstancesTyped /\ FiltersTyped /\ OutputsTyped /\ Counted /\ Referred /\ OutputsKnown
  BY DEF Running
<1>n. PICK n : n = Len(instance) + 1
  OBVIOUS
<1>2. /\ Len(instance) \in Nat /\ n \in Nat /\ n # 0 /\ DOMAIN instance = 1..Len(instance)
      /\ DOMAIN destroyed = DOMAIN instance /\ n \notin Instances /\ 0 \notin DOMAIN output /\ to \in Nat
  <2>1. Len(instance) \in Nat /\ DOMAIN instance = 1..Len(instance) /\ DOMAIN destroyed = 1..Len(instance)
    BY <1>1, LenProperties DEF InstancesTyped
  <2>2. DOMAIN output = 1..Len(output) /\ Len(output) \in Nat
    BY <1>1, LenProperties DEF OutputsTyped
  <2>3. to \in Nat
    BY <2>2, <1>1 DEF Outside, OutputsTyped
  <2> QED
    BY <1>n, <2>1, <2>2, <2>3 DEF Instances, NullInstance
<1>m. instance' = Append(instance, to) /\ destroyed' = Append(destroyed, 0)
  BY DEF NewInstance
<1>3. /\ instance' \in Seq(Nat) /\ Len(instance') = n /\ DOMAIN instance' = DOMAIN instance \cup {n} /\ n \notin DOMAIN instance
      /\ instance'[n] = to /\ \A i \in DOMAIN instance : instance'[i] = instance[i]
  BY <1>1, <1>2, <1>n, <1>m, ElementIsAdded DEF InstancesTyped
<1>4. /\ destroyed' \in Seq(Nat) /\ Len(destroyed') = n
      /\ destroyed'[n] = 0 /\ \A i \in DOMAIN instance : destroyed'[i] = destroyed[i]
  BY <1>1, <1>2, <1>n, <1>m, ElementIsAdded DEF InstancesTyped
<1>5. Instances' = Instances \cup {n} /\ DOMAIN instance \subseteq Instances /\ NoInstance \notin Instances
  BY <1>2, <1>3, <1>n DEF Instances, NullInstance, NoInstance
<1>6. /\ instancesList' \in [Instances' -> Nat]
      /\ tangled' \/ (~tangled /\ instancesList'[n] = 1 /\ \A i \in Instances : instancesList'[i] = instancesList[i])
  <2>1. ChangeInstancesList(c, [i \in NullInstance..n |-> IF i = n THEN 1 ELSE instancesList[i]])
    BY <1>n DEF NewInstance
  <2>2. Instances' = NullInstance..n
    BY <1>3 DEF Instances
  <2>3. \A i \in Instances : instancesList[i] \in Nat
    BY <1>1 DEF InstancesTyped
  <2> DEFINE L == [i \in NullInstance..n |-> IF i = n THEN 1 ELSE instancesList[i]]
             K == [i \in NullInstance..n |-> IF i \in Instances THEN instancesList[i] ELSE 0]
  <2>4. DOMAIN L = NullInstance..n /\ DOMAIN instancesList = Instances
    BY <1>1 DEF InstancesTyped
  <2>5. L \in [Instances' -> Nat] /\ L[n] = 1 /\ \A i \in Instances : L[i] = instancesList[i]
    BY <2>2, <2>3, <1>2, <1>5
  <2>6. K \in [Instances' -> Nat]
    BY <2>2, <2>3
  <2>7. \/ instancesList' = L /\ UNCHANGED tangled
        \/ tangled' /\ instancesList' = K
    BY <2>1, <2>4 DEF ChangeInstancesList
  <2> HIDE DEF L, K
  <2> QED
    BY <2>5, <2>6, <2>7
<1>7. /\ output' \in Seq(Outputs) /\ DOMAIN output' = DOMAIN output
      /\ \A o \in DOMAIN output :
           /\ output'[o].name = output[o].name /\ output'[o].instance = output[o].instance
           /\ output'[o].freed <=> output[o].freed
           /\ output'[o].refs = IF o = to THEN output[o].refs + 1 ELSE output[o].refs
  <2>1. CASE to = Outside
    BY <2>1, <1>1, <1>2 DEF Outside, OutputsTyped
  <2>2. CASE to # Outside
    <3>1. to \in DOMAIN output /\ output \in Seq(Outputs) /\ output[to] \in Outputs
      BY <2>2, <1>1, LenProperties, ElementOfSeq DEF OutputsTyped
    <3> DEFINE g == [output[to] EXCEPT !.refs = @ + 1]
    <3>2. /\ g \in Outputs /\ g.name = output[to].name /\ g.instance = output[to].instance
          /\ (g.freed <=> output[to].freed) /\ g.refs = output[to].refs + 1
      BY <3>1 DEF Outputs
    <3>3. output' = [output EXCEPT ![to] = g]
      BY <2>2 DEF OutputsCreate
    <3> HIDE DEF g
    <3>4. /\ output' \in Seq(Outputs) /\ DOMAIN output' = DOMAIN output /\ output'[to] = g
          /\ \A o \in DOMAIN output : o # to => output'[o] = output[o]
      BY <3>1, <3>2, <3>3, ElementChanges
    <3> QED
      BY <3>2, <3>4
  <2> QED
    BY <2>1, <2>2
<1>8. InstancesTyped'
  <2>1. ASSUME NEW i \in DOMAIN instance', instance'[i] # Outside
        PROVE  instance'[i] \in DOMAIN output'
    BY <2>1, <1>1, <1>3, <1>7 DEF InstancesTyped, OutputsTyped
  <2> QED
    BY <2>1, <1>3, <1>4, <1>6 DEF InstancesTyped
<1>9. OutputsTyped' /\ FiltersTyped'
  BY <1>1, <1>5, <1>7 DEF OutputsTyped, FiltersTyped
<1>10. /\ OrdersTyped' /\ \A d \in Commander : d # c => order'[d] = order[d]
       /\ Fits(c)' /\ Alone' /\ Carried(c) = NoInstance /\ Carried(c)' = n
       /\ ~Turn(c, "destroy")
       /\ \A y : ~Waits(c, y) /\ ~Waits(c, y)' /\ ~Replaced(c, y) /\ ~Replaced(c, y)'
       /\ \A y : GivesFirst(c, y) => GivesFirst(c, y)'
  <2>1. Advance(c, [order[c] EXCEPT !.made = n])
    BY <1>n DEF NewInstance
  <2>2. n \in Instances'
    BY <1>5
  <2> QED
    BY <2>1, <2>2, <1>7, MakerGoesOn
<1>11. /\ \A d \in Commander : Fits(d)'
       /\ FiltersKnown' /\ OutputsKnown' /\ PacketKnown'
       /\ \A i : FiltersOf(i)' = FiltersOf(i) /\ OutputsOf(i)' = OutputsOf(i)
  <2>1. Len(instance) <= Len(instance)'
    BY <1>2, <1>3, <1>n
  <2> QED
    BY <2>1, <1>7, <1>8, <1>10, OthersWait
<1>12. ASSUME NEW i \in Instances
       PROVE  Held(i)' = Held(i)
  <2>1. i # n /\ i # NoInstance
    BY <1>2, <1>5
  <2>2. \A d \in Commander : d # c => Carried(d)' = Carried(d)
    BY <1>10, ThreadStays
  <2>3. CarriersOf(i)' = CarriersOf(i)
    BY <2>1, <2>2, <1>10 DEF CarriersOf
  <2> QED
    BY <2>3, <1>11 DEF Held
<1>13. Held(n)' = 1
  <2>1. FiltersOf(n)' = {} /\ OutputsOf(n)' = {}
    <3>1. n # NoInstance
      BY <1>2 DEF NoInstance
    <3>2. FiltersOf(n) = {}
      BY <3>1, <1>1, <1>2 DEF FiltersOf, FiltersTyped
    <3>3. OutputsOf(n) = {}
      BY <1>1, <1>2 DEF OutputsOf, OutputsTyped
    <3> QED
      BY <3>2, <3>3, <1>11
  <2>2. CarriersOf(n)' = {c}
    <3>1. ASSUME NEW d \in Commander, d # c
          PROVE  Carried(d)' # n
      <4>1. Carried(d) \in Instances \cup {NoInstance}
        BY CarriedIsKnown DEF Running
      <4>2. Carried(d)' = Carried(d)
        BY <3>1, <1>10, ThreadStays
      <4> QED
        BY <4>1, <4>2, <1>2 DEF NoInstance
    <3> QED
      BY <3>1, <1>10 DEF CarriersOf
  <2>3. Cardinality(FiltersOf(n)') = 0 /\ Cardinality(OutputsOf(n)') = 0
    BY <2>1, FS_EmptySet
  <2>4. Cardinality(CarriersOf(n)') = 1
    BY <2>2, FS_Singleton
  <2>5. Held(n)' = Cardinality(FiltersOf(n)') + Cardinality(OutputsOf(n)') + Cardinality(CarriersOf(n)')
    BY DEF Held
  <2> QED
    BY <2>3, <2>4, <2>5
<1>14. Counted'
  <2>1. ASSUME NEW i \in DOMAIN instance'
        PROVE  destroyed'[i] + Held(i)' = 1
    <3>1. CASE i = n
      BY <3>1, <1>4, <1>13
    <3>2. CASE i # n
      BY <3>2, <1>1, <1>3, <1>4, <1>5, <1>12 DEF Counted
    <3> QED
      BY <3>1, <3>2
  <2>2. ASSUME ~tangled', NEW i \in Instances'
        PROVE  instancesList'[i] = Held(i)'
    <3>1. CASE i = n
      BY <2>2, <3>1, <1>6, <1>13
    <3>2. CASE i # n
      BY <2>2, <3>2, <1>1, <1>5, <1>6, <1>12 DEF Counted
    <3> QED
      BY <3>1, <3>2
  <2> QED
    BY <2>1, <2>2 DEF Counted
<1>15. Referred'
  <2> SUFFICES ASSUME NEW o \in DOMAIN output
               PROVE  /\ output'[o].refs = Cardinality(ReferringTo(o)')
                      /\ output'[o].freed => ReferringTo(o)' = {}
    BY <1>7 DEF Referred
  <2>1. output[o].refs = Cardinality(ReferringTo(o)) /\ (output[o].freed => ReferringTo(o) = {})
    BY <1>1 DEF Referred
  <2>2. CASE o = to
    <3>1. ~output[o].freed
      BY <2>2, <1>1, <1>2 DEF OutputsKnown, Outside
    <3>2. ReferringTo(o)' = ReferringTo(o) \cup {n} /\ n \notin ReferringTo(o)
      BY <2>2, <1>3, <1>4 DEF ReferringTo
    <3>3. IsFiniteSet(ReferringTo(o))
      BY <1>1, FinitelyMany
    <3>4. Cardinality(ReferringTo(o)') = Cardinality(ReferringTo(o)) + 1
      BY <3>2, <3>3, FS_AddElement
    <3> QED
      BY <2>1, <2>2, <3>1, <3>4, <1>7
  <2>3. CASE o # to
    <3>1. ReferringTo(o)' = ReferringTo(o)
      BY <2>3, <1>3, <1>4 DEF ReferringTo
    <3> QED
      BY <2>1, <2>3, <3>1, <1>7
  <2> QED
    BY <2>2, <2>3
<1> QED
  BY <1>8, <1>9, <1>10, <1>11, <1>14, <1>15 DEF Running

\* Another holder of the null instance is counted, unless the change is lost.
LEMMA NullInstanceIsCounted ==
  ASSUME instancesList \in [Instances -> Nat], NullInstance \in Instances, NEW c \in Commander,
         ChangeInstancesList(c, [instancesList EXCEPT ![NullInstance] = @ + 1])
  PROVE  /\ instancesList' \in [Instances -> Nat]
         /\ tangled' \/ (~tangled /\ \A i \in Instances : instancesList'[i] = IF i = NullInstance THEN instancesList[i] + 1 ELSE instancesList[i])
<1> DEFINE L == [instancesList EXCEPT ![NullInstance] = @ + 1]
           K == [i \in DOMAIN L |-> IF i \in DOMAIN instancesList THEN instancesList[i] ELSE 0]
<1>1. \/ instancesList' = L /\ UNCHANGED tangled
      \/ tangled' /\ instancesList' = K
  BY Zenon DEF ChangeInstancesList
<1>2. /\ L \in [Instances -> Nat]
      /\ \A i \in Instances : L[i] = IF i = NullInstance THEN instancesList[i] + 1 ELSE instancesList[i]
  OBVIOUS
<1>3. K \in [Instances -> Nat]
  OBVIOUS
<1> HIDE DEF L, K
<1> QED
  BY <1>1, <1>2, <1>3

\* There is one null instance, of which another holder is counted.
LEMMA NullInstanceIsTaken ==
  ASSUME Running, NEW c \in Commander, Turn(c, "create"),
         ChangeInstancesList(c, [instancesList EXCEPT ![NullInstance] = @ + 1]),
         Advance(c, [order[c] EXCEPT !.made = NullInstance]),
         UNCHANGED <<instance, destroyed, output, filter, groups, outputsList, packet, outputsMutex>>
  PROVE  Running'
<1>1. InstancesTyped /\ FiltersTyped /\ OutputsTyped /\ Counted /\ Referred /\ OutputsKnown
  BY DEF Running
<1>2. Instances' = Instances /\ NullInstance \in Instances /\ DOMAIN instance \subseteq Instances \ {NullInstance}
  BY <1>1, LenProperties DEF Instances, InstancesTyped, NullInstance
<1>3. /\ instancesList' \in [Instances -> Nat]
      /\ tangled' \/ (~tangled /\ \A i \in Instances : instancesList'[i] = IF i = NullInstance THEN instancesList[i] + 1 ELSE instancesList[i])
  BY <1>1, <1>2, NullInstanceIsCounted DEF InstancesTyped
<1>4. InstancesTyped' /\ FiltersTyped' /\ OutputsTyped' /\ Referred'
  <2>1. InstancesTyped'
    BY <1>1, <1>2, <1>3 DEF InstancesTyped
  <2>2. FiltersTyped' /\ OutputsTyped'
    BY <1>1, <1>2 DEF FiltersTyped, OutputsTyped
  <2>3. ASSUME NEW o
        PROVE  ReferringTo(o)' = ReferringTo(o)
    BY DEF ReferringTo
  <2> QED
    BY <1>1, <2>1, <2>2, <2>3 DEF Referred
<1>5. /\ OrdersTyped' /\ \A d \in Commander : d # c => order'[d] = order[d]
      /\ Fits(c)' /\ Alone' /\ Carried(c) = NoInstance /\ Carried(c)' = NullInstance
      /\ ~Turn(c, "destroy")
      /\ \A y : ~Waits(c, y) /\ ~Waits(c, y)' /\ ~Replaced(c, y) /\ ~Replaced(c, y)'
      /\ \A y : GivesFirst(c, y) => GivesFirst(c, y)'
  <2>1. NullInstance \in Instances'
    BY <1>2
  <2> QED
    BY <2>1, MakerGoesOn
<1>6. /\ \A d \in Commander : Fits(d)'
      /\ FiltersKnown' /\ OutputsKnown' /\ PacketKnown'
      /\ \A i : FiltersOf(i)' = FiltersOf(i) /\ OutputsOf(i)' = OutputsOf(i)
  <2>1. Len(instance) <= Len(instance)'
    BY <1>1, LenProperties DEF InstancesTyped
  <2> QED
    BY <2>1, <1>4, <1>5, OthersWait
<1>7. ASSUME NEW i \in Instances
      PROVE  Held(i)' = (IF i = NullInstance THEN Held(i) + 1 ELSE Held(i)) /\ Held(i) \in Nat
  <2>1. i # NoInstance
    BY DEF Instances, NullInstance, NoInstance
  <2>2. CarriersOf(i)' \ {c} = CarriersOf(i) \ {c}
    BY <1>5, OthersCarryOn
  <2>3. c \notin CarriersOf(i) /\ (c \in CarriersOf(i)' <=> i = NullInstance)
    BY <1>5, <2>1 DEF CarriersOf
  <2>4. /\ Held(i) \in Nat /\ Held(i)' \in Nat
        /\ Held(i)' = Held(i) + CountIn(c, FiltersOf(i)') - CountIn(c, FiltersOf(i))
                               + CountIn(c, OutputsOf(i)') - CountIn(c, OutputsOf(i))
                               + CountIn(c, CarriersOf(i)') - CountIn(c, CarriersOf(i))
    <3>1. FiltersOf(i)' \ {c} = FiltersOf(i) \ {c}
      BY <1>6
    <3>2. OutputsOf(i)' \ {c} = OutputsOf(i) \ {c}
      BY <1>6
    <3> QED
      BY <1>1, <2>2, <3>1, <3>2, HeldChanges
  <2>5. FiltersOf(i)' = FiltersOf(i) /\ OutputsOf(i)' = OutputsOf(i)
    BY <1>6
  <2> QED
    BY <2>3, <2>4, <2>5 DEF CountIn
<1>8. Counted'
  BY <1>1, <1>2, <1>3, <1>7 DEF Counted
<1> QED
  BY <1>4, <1>5, <1>6, <1>8 DEF Running

\* DeliveryMethodCreate, whatever it makes.
LEMMA InstanceIsMade ==
  ASSUME Running, NEW c \in Commander, DeliveryMethodCreate(c)
  PROVE  Running'
<1>1. /\ Turn(c, "create")
      /\ UNCHANGED <<filter, groups, outputsList, packet, outputsMutex>>
  BY DEF DeliveryMethodCreate
<1>2. CASE NewInstance(c, Outside) /\ UNCHANGED output
  BY <1>1, <1>2, NewInstanceIsMade
<1>3. ASSUME NEW o \in OutputsCalled(order[c].mrl), NewInstance(c, o), output' = OutputsCreate(o)
      PROVE  Running'
  <2>1. o \in outputsList /\ o # Outside
    BY LenProperties DEF OutputsCalled, Running, OutputsTyped, Outside
  <2> QED
    BY <1>1, <1>3, <2>1, NewInstanceIsMade
<1>4. CASE /\ ChangeInstancesList(c, [instancesList EXCEPT ![NullInstance] = @ + 1])
           /\ Advance(c, [order[c] EXCEPT !.made = NullInstance])
           /\ UNCHANGED <<instance, destroyed, output>>
  BY <1>1, <1>4, NullInstanceIsTaken
<1>5. CASE /\ ~order[c].adds /\ Rests(c)
           /\ UNCHANGED <<instance, destroyed, instancesList, tangled, output>>
  <2>1. Creating(c)
    BY <1>1, TurnsTold DEF Running
  <2>2. Resting \in Orders
    BY DEF Resting, OrderTo, Orders, Plans, MRL, NoInstance
  <2>3. order' = [order EXCEPT ![c] = Resting]
    BY <1>5 DEF Rests
  <2>4. order'[c] = Resting /\ \A d \in Commander : d # c => order'[d] = order[d]
    BY <2>2, <2>3, OrderChanges DEF Running
  <2>5. Fits(c)'
    BY <2>4 DEF Fits
  <2>6. Alone'
    BY <2>4 DEF Running, Alone, Resting, OrderTo
  <2>7. \A s : (Turn(c, s) => s = "create") /\ ~Turn(c, s)'
    BY <1>1, <2>4 DEF Turn, Resting, OrderTo
  <2>8. /\ \A y : ~Waits(c, y) /\ ~Waits(c, y)' /\ ~Replaced(c, y) /\ ~Replaced(c, y)' /\ ~GivesFirst(c, y)
        /\ Carried(c) = NoInstance /\ Carried(c)' = NoInstance /\ ~Turn(c, "destroy")
    BY <2>1, <2>4, <2>7, <1>5 DEF Waits, Replaced, GivesFirst, Carried, Creating, MadeNone, Resting, OrderTo
  <2> QED
    BY <1>1, <1>5, <2>2, <2>3, <2>5, <2>6, <2>8, OrderMoves
<1> QED
  BY <1>2, <1>3, <1>4, <1>5 DEF DeliveryMethodCreate
-----------------------------------------------------------------------------
(* Outputs.                                                                *)

\* CommandAddOutput, whole: the output has the null instance.
LEMMA OutputIsAdded ==
  ASSUME Running, NEW c \in Commander, NEW x \in OutputName, CommandAddOutput(c, x)
  PROVE  Running' /\ (misused' <=> misused)
<1>1. /\ UNCHANGED <<instance, destroyed, filter, groups, order, packet, outputsMutex>>
      /\ misused' <=> misused
  BY DEF CommandAddOutput
<1>2. InstancesTyped /\ FiltersTyped /\ OutputsTyped /\ Counted /\ Referred /\ OutputsKnown
  BY DEF Running
<1>n. PICK n : n = Len(output) + 1
  OBVIOUS
<1>3. Instances' = Instances /\ NullInstance \in Instances /\ DOMAIN instance \subseteq Instances \ {NullInstance}
  BY <1>1, <1>2, LenProperties DEF Instances, InstancesTyped, NullInstance
<1> DEFINE e == [name |-> x, refs |-> 0, instance |-> NullInstance, freed |-> FALSE]
<1>4. e \in Outputs /\ e.refs = 0 /\ e.instance = NullInstance /\ ~e.freed
  BY DEF Outputs, NullInstance
<1>5. output' = Append(output, e)
  BY DEF CommandAddOutput
<1> HIDE DEF e
<1>6. /\ output' \in Seq(Outputs) /\ DOMAIN output' = DOMAIN output \cup {n} /\ n \notin DOMAIN output
      /\ n \in Nat /\ n # 0 /\ output'[n] = e /\ \A p \in DOMAIN output : output'[p] = output[p]
  BY <1>n, <1>2, <1>4, <1>5, ElementIsAdded DEF OutputsTyped
<1>7. /\ instancesList' \in [Instances -> Nat]
      /\ tangled' \/ (~tangled /\ \A i \in Instances : instancesList'[i] = IF i = NullInstance THEN instancesList[i] + 1 ELSE instancesList[i])
  <2>1. ChangeInstancesList(c, [instancesList EXCEPT ![NullInstance] = @ + 1])
    BY Zenon DEF CommandAddOutput
  <2>2. instancesList \in [Instances -> Nat]
    BY <1>2 DEF InstancesTyped
  <2> QED
    BY <1>3, <2>1, <2>2, NullInstanceIsCounted
<1>8. outputsList' = outputsList \cup {n} /\ outputsList \subseteq DOMAIN output
  BY <1>2, <1>n DEF CommandAddOutput, OutputsTyped
<1>9. InstancesTyped' /\ FiltersTyped' /\ OutputsTyped'
  <2>1. InstancesTyped'
    BY <1>1, <1>2, <1>3, <1>6, <1>7 DEF InstancesTyped
  <2>2. FiltersTyped'
    BY <1>1, <1>2, <1>3 DEF FiltersTyped
  <2>3. OutputsTyped'
    BY <1>2, <1>3, <1>4, <1>6, <1>8 DEF OutputsTyped
  <2> QED
    BY <2>1, <2>2, <2>3
<1>10. \A d \in Commander : Fits(d)'
  <2> SUFFICES ASSUME NEW d \in Commander PROVE Fits(d)'
    OBVIOUS
  <2>1. Fits(d) /\ groups \subseteq DOMAIN filter /\ Len(instance) <= Len(instance)'
    BY <1>1, <1>2, LenProperties DEF Running, FiltersTyped, InstancesTyped
  <2> QED
    BY <1>1, <1>2, <1>6, <1>8, <1>9, <2>1, FitsStay
<1>11. OrdersTyped' /\ Alone' /\ FiltersKnown' /\ OutputsKnown'
  <2>1. OrdersTyped' /\ Alone'
    BY <1>1 DEF Running, OrdersTyped, Alone
  <2>2. \A d \in Commander : \A y : GivesFirst(d, y) => GivesFirst(d, y)'
    BY <1>1 DEF GivesFirst, Turn
  <2>3. FiltersKnown'
    BY <1>1, <2>2 DEF Running, FiltersKnown, Has
  <2>4. OutputsKnown'
    BY <1>2, <1>4, <1>6, <1>8 DEF OutputsKnown
  <2> QED
    BY <2>1, <2>3, <2>4
<1>12. \A d \in Commander : ~Replaced(d, n)
  <2> SUFFICES ASSUME NEW d \in Commander, Replaced(d, n) PROVE FALSE
    OBVIOUS
  <2>1. Installing(d) /\ order[d].at = n
    BY TurnsTold DEF Replaced, Running
  <2> QED
    BY <2>1, <1>6, <1>8 DEF Installing, AtOutput
<1>13. ASSUME NEW i \in Instances
       PROVE  Held(i)' = (IF i = NullInstance THEN Held(i) + 1 ELSE Held(i)) /\ Held(i) \in Nat
  <2>1. FiltersOf(i)' = FiltersOf(i) /\ FiltersOf(i)' \ {n} = FiltersOf(i) \ {n}
    BY <1>1, FiltersStay
  <2>2. \A d \in Commander : \A p : (Waits(d, p)' <=> Waits(d, p)) /\ (Replaced(d, p)' <=> Replaced(d, p))
    BY <1>1, ThreadStays
  <2>3. OutputsOf(i)' \ {n} = OutputsOf(i) \ {n}
    BY <1>6, <2>2, OtherOutputsStay
  <2>4. n \notin OutputsOf(i) /\ (n \in OutputsOf(i)' <=> i = NullInstance)
    BY <1>4, <1>6, <1>12, <2>2 DEF OutputsOf
  <2>5. CarriersOf(i)' = CarriersOf(i) /\ CarriersOf(i)' \ {c} = CarriersOf(i) \ {c}
    BY <1>1 DEF CarriersOf, Carried, Turn
  <2>6. /\ Held(i) \in Nat /\ Held(i)' \in Nat
        /\ Held(i)' = Held(i) + CountIn(n, FiltersOf(i)') - CountIn(n, FiltersOf(i))
                               + CountIn(n, OutputsOf(i)') - CountIn(n, OutputsOf(i))
                               + CountIn(c, CarriersOf(i)') - CountIn(c, CarriersOf(i))
    <3>1. FiltersOf(i)' \ {n} = FiltersOf(i) \ {n}
      BY <2>1
    <3>2. CarriersOf(i)' \ {c} = CarriersOf(i) \ {c}
      BY <2>5
    <3> QED
      BY <1>2, <2>3, <3>1, <3>2, HeldChanges
  <2> QED
    BY <2>1, <2>4, <2>5, <2>6 DEF CountIn
<1>14. Counted'
  BY <1>1, <1>2, <1>3, <1>7, <1>13 DEF Counted
<1>15. Referred'
  <2>1. ASSUME NEW o
        PROVE  ReferringTo(o)' = ReferringTo(o)
    BY <1>1 DEF ReferringTo
  <2>2. ReferringTo(n) = {}
    BY <1>2, <1>6 DEF ReferringTo, InstancesTyped, Outside
  <2>3. Cardinality(ReferringTo(n)) = 0
    BY <2>2, FS_EmptySet
  <2> QED
    BY <2>1, <2>2, <2>3, <1>2, <1>4, <1>6 DEF Referred
<1>16. PacketKnown'
  <2>1. PacketKnown
    BY DEF Running
  <2>2. packet.at = "send" => packet.of \in groups
    BY <2>1 DEF PacketKnown, Sent, NoPacket
  <2>3. packet.at = "through" =>
          /\ packet.of \in outputsList' /\ output'[packet.of].instance = output[packet.of].instance
          /\ \A d \in Commander : ~Replaced(d, packet.of)'
    <3> SUFFICES ASSUME packet.at = "through"
                 PROVE  /\ packet.of \in outputsList' /\ output'[packet.of].instance = output[packet.of].instance
                        /\ \A d \in Commander : ~Replaced(d, packet.of)'
      OBVIOUS
    <3>1. PassedOn
      BY <2>1 DEF PacketKnown, NoPacket
    <3>2. PICK p : p = packet.of
      OBVIOUS
    <3>3. \A d \in Commander : ~Replaced(d, p)'
      BY <3>1, <3>2, <1>1, ThreadStays DEF PassedOn
    <3> QED
      BY <3>1, <3>2, <3>3, <1>1, <1>6, <1>8 DEF PassedOn
  <2>4. /\ UNCHANGED <<packet, outputsMutex>> /\ groups' = groups /\ filter' = filter
        /\ \A d \in Commander : order'[d] = order[d]
    BY <1>1
  <2> QED
    BY <2>1, <2>2, <2>3, <2>4, PacketStays
<1> QED
  BY <1>1, <1>9, <1>10, <1>11, <1>14, <1>15, <1>16 DEF Running
\* CommandRemoveOutput: the output's instance is destroyed, or the thread is
\* stuck with it.
LEMMA OutputIsRemoved ==
  ASSUME Running, ~crossed', NEW c \in Commander, NEW x \in OutputName, CommandRemoveOutput(c, x)
  PROVE  Running' /\ (misused' <=> misused)
<1>1. UNCHANGED <<instance, filter, groups, packet>> /\ order[c] = Resting /\ outputsMutex = Unheld
  BY DEF CommandRemoveOutput
<1>2. InstancesTyped /\ FiltersTyped /\ OutputsTyped /\ OrdersTyped /\ Counted /\ Referred /\ OutputsKnown /\ PacketKnown
  BY DEF Running
<1>3. PICK o \in OutputsCalled(x) :
        /\ output[o].refs = 0 /\ outputsList' = outputsList \ {o}
        /\ output' = [output EXCEPT ![o].freed = TRUE] /\ OutputDestructor(c, o)
  BY DEF CommandRemoveOutput
<1>y. PICK y : y = output[o].instance
  OBVIOUS
<1>4. /\ o \in DOMAIN output /\ o \in Nat /\ o # 0 /\ o \in outputsList /\ output[o].name = x /\ ~output[o].freed
      /\ y \in Instances /\ output[o] \in Outputs /\ outputsList \subseteq DOMAIN output /\ x # "nothing"
  <2>1. o \in outputsList /\ output[o].name = x
    BY <1>3 DEF OutputsCalled
  <2>2. o \in DOMAIN output /\ y \in Instances /\ outputsList \subseteq DOMAIN output /\ output \in Seq(Outputs)
    BY <2>1, <1>2, <1>y DEF OutputsTyped
  <2>3. DOMAIN output = 1..Len(output) /\ Len(output) \in Nat /\ output[o] \in Outputs
    BY <2>2, LenProperties, ElementOfSeq
  <2>4. ~output[o].freed
    BY <2>1, <2>2, <1>2 DEF OutputsKnown
  <2>5. x # "nothing"
    BY DeliveriesAssumption
  <2> QED
    BY <2>1, <2>2, <2>3, <2>4, <2>5
<1> DEFINE e == [output[o] EXCEPT !.freed = TRUE]
<1>5. e \in Outputs /\ e.name = x /\ e.refs = output[o].refs /\ e.instance = y /\ e.freed
  BY <1>4, <1>y DEF Outputs
<1>6. output' = [output EXCEPT ![o] = e]
  BY <1>3
<1> HIDE DEF e
<1>7. /\ output' \in Seq(Outputs) /\ DOMAIN output' = DOMAIN output /\ output'[o] = e
      /\ \A p \in DOMAIN output : p # o => output'[p] = output[p]
  BY <1>2, <1>4, <1>5, <1>6, ElementChanges DEF OutputsTyped
<1>8. \A d \in Commander : order[d].on # x
  <2>1. \A d \in Commander : d # c => order[d].on # x
    BY DEF CommandRemoveOutput, Meets
  <2>2. order[c].on = "nothing"
    BY <1>1 DEF Resting, OrderTo
  <2> QED
    BY <2>1, <2>2, <1>4
<1>9. \A d \in Commander : ~Replaced(d, o) /\ ~Waits(d, o)
  <2> TAKE d \in Commander
  <2>1. ~Replaced(d, o)
    <3>1. CASE d = c
      BY <3>1, <1>1 DEF Replaced, Turn, Resting, OrderTo
    <3>2. CASE d # c
      BY <3>2, <1>4, <1>8, NoOtherReplaces DEF Meets
    <3> QED
      BY <3>1, <3>2
  <2>2. ASSUME Waits(d, o)
        PROVE  FALSE
    <3>1. Stuck(d)
      BY <2>2, TurnsTold DEF Waits, Running
    <3> QED
      BY <2>2, <3>1, <1>4 DEF Stuck, Waits
  <2> QED
    BY <2>1, <2>2
<1>10. ReferringTo(o) = {} /\ output[o].refs = Cardinality(ReferringTo(o))
  <2>1. IsFiniteSet(ReferringTo(o)) /\ Cardinality(ReferringTo(o)) = 0
    BY <1>2, <1>3, <1>4, FinitelyMany DEF Referred
  <2> QED
    BY <2>1, <1>3, FS_EmptySet
<1>11. OutputsKnown'
  BY <1>2, <1>3, <1>4, <1>5, <1>7 DEF OutputsKnown
<1>12. packet = NoPacket \/ (packet.at = "send" /\ Sent)
  BY <1>1, <1>2 DEF PacketKnown, PassedOn, Unheld
<1>13. ASSUME \A d \in Commander : d # c => order'[d] = order[d]
       PROVE  /\ FiltersKnown' /\ PacketKnown'
              /\ \A d \in Commander : \A p : p # o /\ d # c => (Waits(d, p)' <=> Waits(d, p)) /\ (Replaced(d, p)' <=> Replaced(d, p))
              /\ \A d \in Commander : d # c => ~Replaced(d, o)' /\ ~Waits(d, o)'
  <2>1. \A d \in Commander : \A z : GivesFirst(d, z) => d # c
    BY <1>1 DEF GivesFirst, Turn, Resting, OrderTo
  <2>2. \A d \in Commander : \A z : GivesFirst(d, z) => GivesFirst(d, z)'
    BY <2>1, <1>13, ThreadStays
  <2>3. FiltersKnown'
    BY <1>1, <2>2 DEF Running, FiltersKnown, Has
  <2>4. PacketKnown'
    <3>1. \A d \in Commander : Turn(d, "destroy") => order'[d] = order[d]
      BY <1>1, <1>13 DEF Turn, Resting, OrderTo
    <3>2. packet.at = "send" => packet.of \in groups' /\ filter'[packet.of].instance = filter[packet.of].instance
      BY <1>1, <1>12 DEF Sent, NoPacket
    <3>3. packet.at # "through"
      BY <1>12 DEF NoPacket
    <3> QED
      BY <1>1, <1>2, <3>1, <3>2, <3>3, PacketStays
  <2>5. \A d \in Commander : \A p : p # o /\ d # c => (Waits(d, p)' <=> Waits(d, p)) /\ (Replaced(d, p)' <=> Replaced(d, p))
    BY <1>13, ThreadStays
  <2>6. \A d \in Commander : d # c => ~Replaced(d, o)' /\ ~Waits(d, o)'
    BY <1>9, <1>13, ThreadStays
  <2> QED
    BY <2>3, <2>4, <2>5, <2>6
<1>14. ASSUME InstancesTyped', NEW d \in Commander, order'[d] = order[d]
       PROVE  Fits(d)'
  <2>1. Fits(d) /\ groups \subseteq DOMAIN filter /\ Len(instance) <= Len(instance)'
    BY <1>1, <1>2, LenProperties DEF Running, FiltersTyped, InstancesTyped
  <2>2. \A p \in DOMAIN output :
          /\ output'[p].name = output[p].name
          /\ p \in outputsList' => p \in outputsList
          /\ p \in outputsList /\ output[p].name = order[d].on => p \in outputsList'
    BY <1>3, <1>4, <1>5, <1>7, <1>8
  <2> QED
    BY <1>1, <1>2, <1>4, <1>7, <1>14, <2>1, <2>2, FitsStay
<1>15. Instances' = Instances /\ FiltersTyped' /\ OutputsTyped'
  <2>1. Instances' = Instances
    BY <1>1 DEF Instances
  <2>2. FiltersTyped'
    BY <1>1, <1>2, <2>1 DEF FiltersTyped
  <2>3. OutputsTyped'
    BY <1>2, <1>3, <1>4, <1>5, <1>7, <2>1 DEF OutputsTyped
  <2> QED
    BY <2>1, <2>2, <2>3
<1>16. CASE Through(y) = Outside /\ DeliveryMethodDestroy(c, y) /\ UNCHANGED order
  <2>1. o \in OutputsOf(y)
    BY <1>4, <1>9, <1>y DEF OutputsOf
  <2>2. Held(y) \in Nat /\ Held(y) >= 1
    BY <1>2, <2>1, HeldBySomeone
  <2>3. /\ misused' <=> misused
        /\ DOMAIN instance = 1..Len(instance) /\ DOMAIN destroyed = DOMAIN instance
        /\ y \in Nat /\ y # NullInstance => y \in DOMAIN instance
        /\ tangled' \/ (~tangled /\ \A i \in Instances : instancesList'[i] = IF i = y THEN instancesList[i] - 1 ELSE instancesList[i])
        /\ instancesList' \in [Instances -> Nat]
        /\ destroyed' \in Seq(Nat) /\ Len(destroyed') = Len(destroyed)
        /\ \A i \in DOMAIN instance : destroyed'[i] = IF i = y THEN destroyed[i] + 1 ELSE destroyed[i]
    BY <1>1, <1>2, <1>4, <1>16, <2>2, InstanceIsUnlisted
  <2>4. InstancesTyped'
    BY <1>1, <1>2, <1>7, <1>15, <2>3 DEF InstancesTyped
  <2>5. ASSUME NEW p \in DOMAIN output
        PROVE  ReferringTo(p)' = ReferringTo(p)
    <3>1. p # 0
      BY <1>2, LenProperties DEF OutputsTyped
    <3>2. y \in DOMAIN instance => instance[y] # p
      BY <3>1, <1>16, <2>3 DEF Through, Outside
    <3> QED
      BY <3>2, <1>1, <2>3 DEF ReferringTo
  <2>6. Referred'
    BY <2>5, <1>2, <1>5, <1>7, <1>10 DEF Referred
  <2>7. \A d \in Commander : Fits(d)'
    BY <1>14, <1>16, <2>4
  <2>8. ASSUME NEW i \in Instances
        PROVE  Held(i)' = (IF i = y THEN Held(i) - 1 ELSE Held(i)) /\ Held(i) \in Nat
    <3>1. FiltersOf(i)' = FiltersOf(i) /\ FiltersOf(i)' \ {o} = FiltersOf(i) \ {o}
      BY <1>1, FiltersStay
    <3>2. \A d \in Commander : \A p : (Waits(d, p)' <=> Waits(d, p)) /\ (Replaced(d, p)' <=> Replaced(d, p))
      BY <1>16, ThreadStays
    <3>3. OutputsOf(i)' \ {o} = OutputsOf(i) \ {o}
      BY <1>7, <3>2, OtherOutputsStay
    <3>4. o \notin OutputsOf(i)' /\ (o \in OutputsOf(i) <=> i = y)
      BY <1>4, <1>5, <1>7, <1>9, <1>y, <3>2 DEF OutputsOf
    <3>5. CarriersOf(i)' = CarriersOf(i) /\ CarriersOf(i)' \ {c} = CarriersOf(i) \ {c}
      BY <1>16 DEF CarriersOf, Carried, Turn
    <3>6. /\ Held(i) \in Nat /\ Held(i)' \in Nat
          /\ Held(i)' = Held(i) + CountIn(o, FiltersOf(i)') - CountIn(o, FiltersOf(i))
                                 + CountIn(o, OutputsOf(i)') - CountIn(o, OutputsOf(i))
                                 + CountIn(c, CarriersOf(i)') - CountIn(c, CarriersOf(i))
      <4>1. FiltersOf(i)' \ {o} = FiltersOf(i) \ {o}
        BY <3>1
      <4>2. CarriersOf(i)' \ {c} = CarriersOf(i) \ {c}
        BY <3>5
      <4> QED
        BY <1>2, <3>3, <4>1, <4>2, HeldChanges
    <3> QED
      BY <3>1, <3>4, <3>5, <3>6 DEF CountIn
  <2>9. Counted'
    BY <1>1, <1>2, <1>15, <2>3, <2>8, CountsChange
  <2>10. OrdersTyped' /\ Alone'
    BY <1>16 DEF Running, OrdersTyped, Alone
  <2> QED
    BY <1>11, <1>13, <1>15, <1>16, <2>3, <2>4, <2>6, <2>7, <2>9, <2>10 DEF Running
<1>17. CASE /\ order' = [order EXCEPT ![c] = OrderTo(x, o, "null", LocksAgain)]
            /\ UNCHANGED <<destroyed, instancesList, tangled, misused>>
  <2> DEFINE r == OrderTo(x, o, "null", LocksAgain)
  <2>1. r \in Orders /\ r.todo = LocksAgain /\ r.on = x /\ r.at = o /\ r.made = NoInstance
    <3>1. LocksAgain \in Plans /\ "null" \in MRL /\ (o = 0) \in BOOLEAN /\ NoInstance \in Int
      BY DEF Plans, MRL, NoInstance
    <3> QED
      BY <3>1, <1>4 DEF OrderTo, Orders
  <2>2. order' = [order EXCEPT ![c] = r]
    BY <1>17
  <2> HIDE DEF r
  <2>3. OrdersTyped' /\ order'[c] = r /\ \A d \in Commander : d # c => order'[d] = order[d]
    BY <2>1, <2>2, <1>2, OrderChanges
  <2>4. Alone'
    BY <1>8, <2>1, <2>3 DEF Running, Alone
  <2>5. InstancesTyped'
    BY <1>1, <1>2, <1>7, <1>15, <1>17 DEF InstancesTyped
  <2>6. Stuck(c)'
    BY <1>3, <1>4, <1>7, <2>1, <2>3 DEF Stuck, MadeNone
  <2>7. \A d \in Commander : Fits(d)'
    <3>1. Fits(c)'
      BY <2>6 DEF Fits
    <3> QED
      BY <3>1, <1>14, <2>3, <2>5
  <2>8. ASSUME NEW p
        PROVE  ReferringTo(p)' = ReferringTo(p)
    BY <1>1, <1>17 DEF ReferringTo
  <2>9. Referred'
    BY <2>8, <1>2, <1>5, <1>7, <1>10 DEF Referred
  <2>10. /\ \A s : ~Turn(c, s) /\ (Turn(c, s)' <=> s = "relock")
         /\ \A p : ~Waits(c, p) /\ ~Replaced(c, p) /\ ~Replaced(c, p)' /\ (Waits(c, p)' <=> p = o)
         /\ Carried(c)' = Carried(c)
    <3>1. order[c].todo = <<>> /\ order[c].made = NoInstance
      BY <1>1 DEF Resting, OrderTo
    <3>2. \A s : ~Turn(c, s) /\ (Turn(c, s)' <=> s = "relock")
      BY <2>1, <2>3, <3>1, PlansGoOn DEF Turn
    <3>3. x # "manual"
      BY DeliveriesAssumption
    <3> QED
      BY <2>1, <2>3, <3>1, <3>2, <3>3 DEF Waits, Replaced, Carried
  <2>11. ASSUME NEW i \in Instances
         PROVE  Held(i)' = Held(i)
    <3>1. FiltersOf(i)' = FiltersOf(i)
      BY <1>1, FiltersStay
    <3>2. \A d \in Commander, p \in DOMAIN output : p # o =>
            (Waits(d, p)' <=> Waits(d, p)) /\ (Replaced(d, p)' <=> Replaced(d, p))
      BY <1>13, <2>3, <2>10
    <3>3. OutputsOf(i)' \ {o} = OutputsOf(i) \ {o}
      BY <1>7, <3>2, OtherOutputsStay
    <3>4. o \in OutputsOf(i)' <=> o \in OutputsOf(i)
      <4>1. o \in OutputsOf(i) <=> i = y
        BY <1>4, <1>9, <1>y DEF OutputsOf
      <4>2. (\A d \in Commander : ~Replaced(d, o)') /\ Waits(c, o)'
        BY <1>13, <2>3, <2>10
      <4>3. o \in OutputsOf(i)' <=> i = y
        BY <4>2, <1>4, <1>5, <1>7 DEF OutputsOf
      <4> QED
        BY <4>1, <4>3
    <3>5. OutputsOf(i)' = OutputsOf(i)
      BY <3>3, <3>4
    <3>6. \A d \in Commander : Carried(d)' = Carried(d)
      BY <2>3, <2>10, ThreadStays
    <3>7. CarriersOf(i)' = CarriersOf(i)
      BY <3>6 DEF CarriersOf
    <3> QED
      BY <3>1, <3>5, <3>7 DEF Held
  <2>12. Counted'
    <3>1. DOMAIN instance \subseteq Instances
      BY <1>2, LenProperties DEF InstancesTyped, Instances, NullInstance
    <3> QED
      BY <1>1, <1>2, <1>15, <1>17, <2>11, <3>1 DEF Counted
  <2> QED
    BY <1>11, <1>13, <1>15, <1>17, <2>3, <2>4, <2>5, <2>7, <2>9, <2>12 DEF Running
<1>18. \/ Through(y) = Outside /\ DeliveryMethodDestroy(c, y) /\ UNCHANGED order
       \/ /\ order' = [order EXCEPT ![c] = OrderTo(x, o, "null", LocksAgain)]
          /\ UNCHANGED <<destroyed, instancesList, tangled, misused>>
  BY <1>3, <1>4, <1>y DEF OutputDestructor, LocksAgain
<1> QED
  BY <1>16, <1>17, <1>18
-----------------------------------------------------------------------------
(* All steps.                                                              *)

\* When the program ends every instance that is left is destroyed, those of
\* outputs twice.
LEMMA ProgramEnds ==
  ASSUME Running, ~tangled, Stop
  PROVE  Over' /\ ended' /\ (misused' <=> misused)
<1>1. /\ UNCHANGED <<instance, output, outputsList, order, packet>> /\ ended' /\ (misused' <=> misused)
      /\ packet = NoPacket /\ \A c \in Commander : order[c] = Resting
      /\ destroyed' = [i \in DOMAIN destroyed |-> destroyed[i] + ServiceFilterDestroyAll(i)
                                                  + DeliveryMethodDestroyAll(i) + OutputsUninstall(i)]
  BY DEF Stop
<1>2. InstancesTyped /\ FiltersTyped /\ OutputsTyped /\ Counted /\ FiltersKnown
  BY DEF Running
<1>3. ASSUME NEW i \in DOMAIN instance
      PROVE  destroyed'[i] = 1 + OutputsUninstall(i)'
  <2>1. /\ i \in Instances /\ i \in DOMAIN destroyed /\ destroyed[i] \in Nat
    BY <1>2, LenProperties, ElementOfSeq DEF InstancesTyped, Instances, NullInstance
  <2>2. destroyed[i] + Held(i) = 1 /\ instancesList[i] = Held(i)
    BY <1>2, <2>1 DEF Counted
  <2> DEFINE S == {f \in Listed("service") : filter[f].instance = i}
             U == {o \in outputsList : output[o].instance = i}
  <2>3. IsFiniteSet(FiltersOf(i)) /\ IsFiniteSet(OutputsOf(i)) /\ IsFiniteSet(CarriersOf(i)) /\ IsFiniteSet(outputsList)
    BY <1>2, FinitelyMany
  <2>4. S \subseteq FiltersOf(i)
    BY <1>2 DEF Listed, FiltersOf, FiltersTyped, FiltersKnown
  <2>5. Cardinality(S) \in Nat /\ Cardinality(S) <= Cardinality(FiltersOf(i))
    BY <2>3, <2>4, FS_Subset, FS_CardinalityType
  <2>6. /\ Cardinality(FiltersOf(i)) \in Nat /\ Cardinality(OutputsOf(i)) \in Nat /\ Cardinality(CarriersOf(i)) \in Nat
        /\ Cardinality(U) \in Nat
    <3>1. U \subseteq outputsList
      OBVIOUS
    <3> HIDE DEF U
    <3>2. IsFiniteSet(U)
      BY <2>3, <3>1, FS_Subset
    <3> QED
      BY <2>3, <3>2, FS_CardinalityType
  <2>7. OutputsUninstall(i) = Cardinality(U) /\ ServiceFilterDestroyAll(i) = Cardinality(S)
    BY DEF OutputsUninstall, ServiceFilterDestroyAll
  <2>8. OutputsUninstall(i)' = OutputsUninstall(i)
    BY <1>1 DEF OutputsUninstall
  <2> HIDE DEF S, U
  <2>9. Held(i) \in Nat /\ Cardinality(S) <= Held(i)
    BY <2>5, <2>6 DEF Held
  <2>10. destroyed[i] + ServiceFilterDestroyAll(i) + DeliveryMethodDestroyAll(i) = 1
    BY <2>1, <2>2, <2>5, <2>7, <2>9 DEF DeliveryMethodDestroyAll
  <2>11. DeliveryMethodDestroyAll(i) \in Nat
    BY DEF DeliveryMethodDestroyAll
  <2>12. destroyed'[i] = destroyed[i] + ServiceFilterDestroyAll(i) + DeliveryMethodDestroyAll(i) + OutputsUninstall(i)
    BY <1>1, <2>1
  <2> QED
    BY <2>1, <2>5, <2>6, <2>7, <2>8, <2>10, <2>11, <2>12
<1> QED
  BY <1>1, <1>3 DEF Over

\* After that nothing happens.
LEMMA NothingAfterEnd ==
  ASSUME ended, Over, DeliveriesStep
  PROVE  FALSE
<1>1. /\ \A c \in Commander : \A s : ~Turn(c, s)
      /\ packet = NoPacket /\ packet.at = "none"
  BY DEF Over, Turn, Resting, OrderTo, NoPacket
<1>2. ASSUME NEW c \in Commander
      PROVE  /\ \A on, at, m, todo : ~Order(c, on, at, m, todo)
             /\ \A x : ~CommandAddOutput(c, x) /\ ~CommandRemoveOutput(c, x)
             /\ \A f, fed : ~Feed(c, f, fed)
  BY DEF Order, CommandAddOutput, CommandRemoveOutput, Feed
<1>3. ASSUME NEW c \in Commander, NEW m \in MRL
      PROVE  /\ ~CommandAddSF(c, m) /\ ~CommandSetSFMRL(c, m) /\ ~CommandAddMF(c, m) /\ ~CommandSetOutputMRL(c, m)
             /\ \A x \in OutputName : ~OutputPropertyMRLSet(c, x, m)
  BY <1>2 DEF CommandAddSF, CommandSetSFMRL, CommandAddMF, CommandSetOutputMRL, OutputPropertyMRLSet
<1>4. ASSUME NEW c \in Commander
      PROVE  ~CommandRemoveSF(c) /\ ~CommandRemoveMF(c)
  BY <1>2 DEF CommandRemoveSF, CommandRemoveMF
<1>5. ASSUME NEW c \in Commander
      PROVE  /\ ~DeliveryMethodCreate(c)
             /\ ~ServiceFilterCreate(c) /\ ~ReadInstance(c) /\ ~SetInstance(c) /\ ~DestroyPrevious(c)
             /\ ~RemoveGroup(c) /\ ~DropFilter(c) /\ ~ListManualFilter(c) /\ ~LockManualFilters(c)
             /\ ~ReplaceInstance(c) /\ ~InstallInstance(c)
  BY <1>1 DEF DeliveryMethodCreate, ServiceFilterCreate, ReadInstance, SetInstance, DestroyPrevious, RemoveGroup,
              DropFilter, ListManualFilter, LockManualFilters, ReplaceInstance, InstallInstance
<1>6. (\A f : ~ProcessPacket(f)) /\ ~DeliveryMethodOutputPacket /\ ~OutputsSendPacket /\ ~Stop
  BY <1>1 DEF ProcessPacket, DeliveryMethodOutputPacket, OutputsSendPacket, Stop
<1> QED
  BY <1>2, <1>3, <1>4, <1>5, <1>6 DEF DeliveriesStep

\* A command that takes several steps is given, and ends nothing.
LEMMA OrdersAreGiven ==
  ASSUME Running, ~crossed', NEW c \in Commander, NEW m \in MRL,
         \/ CommandAddSF(c, m) \/ CommandSetSFMRL(c, m) \/ CommandAddMF(c, m) \/ CommandSetOutputMRL(c, m)
         \/ \E x \in OutputName : OutputPropertyMRLSet(c, x, m)
         \/ CommandRemoveSF(c) \/ CommandRemoveMF(c)
  PROVE  Running' /\ UNCHANGED <<misused, ended>>
<1>1. CASE CommandAddSF(c, m)
  BY <1>1, ServiceFilterIsAdded DEF CommandAddSF, Order
<1>2. CASE CommandSetSFMRL(c, m)
  BY <1>2, ServiceFilterIsGivenMRL DEF CommandSetSFMRL, Order
<1>3. CASE CommandAddMF(c, m)
  BY <1>3, ManualFilterIsAdded DEF CommandAddMF, Order
<1>4. CASE CommandSetOutputMRL(c, m)
  BY <1>4, ManualFilterIsGivenMRL DEF CommandSetOutputMRL, Order
<1>5. ASSUME NEW x \in OutputName, OutputPropertyMRLSet(c, x, m)
      PROVE  Running' /\ UNCHANGED <<misused, ended>>
  BY <1>5, OutputIsGivenMRL DEF OutputPropertyMRLSet, Order
<1>6. CASE CommandRemoveSF(c)
  BY <1>6, ServiceFilterIsToGo DEF CommandRemoveSF, Order
<1>7. CASE CommandRemoveMF(c)
  BY <1>7, ManualFilterIsToGo DEF CommandRemoveMF, Order
<1> QED
  BY <1>1, <1>2, <1>3, <1>4, <1>5, <1>6, <1>7

\* So does every step of one.
LEMMA OrdersGoOn ==
  ASSUME Running, ~crossed', NEW c \in Commander,
         \/ DeliveryMethodCreate(c)
         \/ ServiceFilterCreate(c) \/ ReadInstance(c) \/ SetInstance(c) \/ DestroyPrevious(c)
         \/ RemoveGroup(c) \/ DropFilter(c)
         \/ ListManualFilter(c) \/ LockManualFilters(c)
         \/ ReplaceInstance(c) \/ InstallInstance(c)
  PROVE  Running' /\ (misused' <=> misused) /\ UNCHANGED ended
<1>1. CASE DeliveryMethodCreate(c)
  BY <1>1, InstanceIsMade DEF DeliveryMethodCreate
<1>2. CASE ServiceFilterCreate(c)
  BY <1>2, ServiceFilterIsMade DEF ServiceFilterCreate
<1>3. CASE ReadInstance(c)
  <2>1. UNCHANGED ended
    BY <1>3 DEF ReadInstance
  <2> QED
    BY <1>3, <2>1, InstanceIsRead
<1>4. CASE SetInstance(c)
  <2>1. UNCHANGED ended
    BY <1>4 DEF SetInstance
  <2> QED
    BY <1>4, <2>1, InstanceIsSet
<1>5. CASE DestroyPrevious(c)
  <2>1. UNCHANGED ended
    BY <1>5 DEF DestroyPrevious
  <2> QED
    BY <1>5, <2>1, PreviousIsDestroyed
<1>6. CASE RemoveGroup(c)
  <2>1. UNCHANGED ended
    BY <1>6 DEF RemoveGroup
  <2> QED
    BY <1>6, <2>1, FilterIsUnlisted
<1>7. CASE DropFilter(c)
  <2>1. UNCHANGED ended
    BY <1>7 DEF DropFilter
  <2> QED
    BY <1>7, <2>1, FilterIsDropped
<1>8. CASE ListManualFilter(c)
  BY <1>8, ManualFilterIsListed DEF ListManualFilter
<1>9. CASE LockManualFilters(c)
  <2>1. UNCHANGED ended
    BY <1>9 DEF LockManualFilters
  <2> QED
    BY <1>9, <2>1, ManualFiltersAreLocked
<1>10. CASE ReplaceInstance(c)
  <2>1. UNCHANGED ended
    BY <1>10 DEF ReplaceInstance
  <2> QED
    BY <1>10, <2>1, InstanceIsReplaced
<1>11. CASE InstallInstance(c)
  <2>1. UNCHANGED ended
    BY <1>11 DEF InstallInstance
  <2> QED
    BY <1>11, <2>1, InstanceIsInstalled
<1> QED
  BY <1>1, <1>2, <1>3, <1>4, <1>5, <1>6, <1>7, <1>8, <1>9, <1>10, <1>11

\* And every other step but the last.
LEMMA PacketsGoOn ==
  ASSUME Running, ~crossed',
         \/ \E c \in Commander, x \in OutputName : CommandAddOutput(c, x) \/ CommandRemoveOutput(c, x)
         \/ \E c \in Commander, f \in DOMAIN filter, fed \in BOOLEAN : Feed(c, f, fed)
         \/ \E f \in DOMAIN filter : ProcessPacket(f)
         \/ DeliveryMethodOutputPacket
         \/ OutputsSendPacket
  PROVE  Running' /\ (misused' <=> misused) /\ UNCHANGED ended
<1>1. ASSUME NEW c \in Commander, NEW x \in OutputName, CommandAddOutput(c, x)
      PROVE  Running' /\ (misused' <=> misused) /\ UNCHANGED ended
  <2>1. UNCHANGED ended
    BY <1>1 DEF CommandAddOutput
  <2> QED
    BY <1>1, <2>1, OutputIsAdded
<1>2. ASSUME NEW c \in Commander, NEW x \in OutputName, CommandRemoveOutput(c, x)
      PROVE  Running' /\ (misused' <=> misused) /\ UNCHANGED ended
  <2>1. UNCHANGED ended
    BY <1>2 DEF CommandRemoveOutput
  <2> QED
    BY <1>2, <2>1, OutputIsRemoved
<1>3. ASSUME NEW c \in Commander, NEW f \in DOMAIN filter, NEW fed \in BOOLEAN, Feed(c, f, fed)
      PROVE  Running' /\ (misused' <=> misused) /\ UNCHANGED ended
  BY <1>3, FilterIsFed DEF Feed
<1>4. ASSUME NEW f \in DOMAIN filter, ProcessPacket(f)
      PROVE  Running' /\ (misused' <=> misused) /\ UNCHANGED ended
  BY <1>4, PacketComes DEF ProcessPacket
<1>5. CASE DeliveryMethodOutputPacket
  <2>1. UNCHANGED ended
    BY <1>5 DEF DeliveryMethodOutputPacket
  <2> QED
    BY <1>5, <2>1, PacketIsSent
<1>6. CASE OutputsSendPacket
  <2>1. UNCHANGED ended
    BY <1>6 DEF OutputsSendPacket
  <2> QED
    BY <1>6, <2>1, PacketIsThrough
<1> QED
  BY <1>1, <1>2, <1>3, <1>4, <1>5, <1>6

\* The invariant holds initially.
LEMMA NothingYet ==
  ASSUME DeliveriesInit
  PROVE  DeliveriesInv
<1> USE DEF DeliveriesInit
<1>1. /\ DOMAIN instance = {} /\ DOMAIN filter = {} /\ DOMAIN output = {} /\ Len(instance) = 0
      /\ \A c \in Commander : order[c] = Resting
  OBVIOUS
<1>2. Instances = {0}
  BY <1>1 DEF Instances, NullInstance
<1>3. InstancesTyped /\ FiltersTyped /\ OutputsTyped
  <2>1. instance \in Seq(Nat) /\ destroyed \in Seq(Nat) /\ Len(destroyed) = Len(instance)
    OBVIOUS
  <2>2. instancesList \in [Instances -> Nat]
    BY <1>2 DEF NullInstance
  <2>3. filter \in Seq(Filters) /\ output \in Seq(Outputs) /\ groups = {} /\ outputsList = {}
    OBVIOUS
  <2> QED
    BY <1>1, <2>1, <2>2, <2>3 DEF InstancesTyped, FiltersTyped, OutputsTyped
<1>4. OrdersTyped
  <2>1. Resting \in Orders
    BY DEF Resting, OrderTo, Orders, Plans, MRL, NoInstance
  <2> QED
    BY <2>1 DEF OrdersTyped
<1>5. (\A c \in Commander : Fits(c)) /\ Alone
  BY <1>1 DEF Fits, Alone, Resting, OrderTo
<1>6. FiltersKnown /\ OutputsKnown /\ Referred /\ PacketKnown
  BY <1>1 DEF FiltersKnown, OutputsKnown, Referred, PacketKnown
<1>7. Held(0) = 0
  <2>1. FiltersOf(0) = {} /\ OutputsOf(0) = {}
    BY <1>1 DEF FiltersOf, OutputsOf
  <2>2. CarriersOf(0) = {}
    BY <1>1 DEF CarriersOf, Carried, Turn, Resting, OrderTo, NoInstance
  <2>3. Cardinality(FiltersOf(0)) = 0 /\ Cardinality(OutputsOf(0)) = 0 /\ Cardinality(CarriersOf(0)) = 0
    BY <2>1, <2>2, FS_EmptySet
  <2> QED
    BY <2>3 DEF Held
<1>8. Counted
  BY <1>1, <1>2, <1>7 DEF Counted, NullInstance
<1>9. Running
  BY <1>3, <1>4, <1>5, <1>6, <1>8 DEF Running
<1> QED
  BY <1>9 DEF DeliveriesInv

\* Every step keeps the invariant.
LEMMA DeliveriesInvIsKept ==
  ASSUME DeliveriesInv, [DeliveriesNext]_deliveries
  PROVE  DeliveriesInv'
<1>1. CASE UNCHANGED deliveries
  <2>1. UNCHANGED <<instance, destroyed, instancesList, tangled, filter, groups, output, outputsList, order, packet,
                    outputsMutex, crossed, misused, ended>>
    BY <1>1 DEF deliveries
  <2>3. Running => Running'
    <3> SUFFICES ASSUME Running PROVE Running'
      OBVIOUS
    <3>1. PacketKnown'
      BY <2>1 DEF Running, PacketKnown, Sent, PassedOn, Turn, Replaced
    <3> QED
      BY <2>1, <3>1, PacketMoves
  <2>4. Over => Over'
    BY <2>1 DEF Over, OutputsUninstall
  <2> QED
    BY <2>1, <2>3, <2>4 DEF DeliveriesInv
<1>2. CASE DeliveriesNext
  <2>1. ~crossed /\ ~tangled /\ DeliveriesStep
    BY <1>2 DEF DeliveriesNext
  <2>2. ~ended
    BY <2>1, NothingAfterEnd DEF DeliveriesInv
  <2>3. ~misused /\ Running
    BY <2>1, <2>2 DEF DeliveriesInv
  <2> SUFFICES ASSUME ~crossed' PROVE DeliveriesInv'
    BY DEF DeliveriesInv
  <2>4. CASE Stop
    BY <2>1, <2>3, <2>4, ProgramEnds DEF DeliveriesInv
  <2>5. CASE ~Stop
    <3>1. Running' /\ (misused' <=> misused) /\ UNCHANGED ended
      <4>1. ASSUME NEW c \in Commander, CommandRemoveSF(c) \/ CommandRemoveMF(c)
            PROVE  Running' /\ (misused' <=> misused) /\ UNCHANGED ended
        <5>1. "null" \in MRL
          BY DEF MRL
        <5> QED
          BY <2>3, <4>1, <5>1, OrdersAreGiven
      <4>2. ASSUME NEW c \in Commander, NEW m \in MRL,
                   \/ CommandAddSF(c, m) \/ CommandSetSFMRL(c, m) \/ CommandAddMF(c, m) \/ CommandSetOutputMRL(c, m)
                   \/ \E x \in OutputName : OutputPropertyMRLSet(c, x, m)
            PROVE  Running' /\ (misused' <=> misused) /\ UNCHANGED ended
        BY <2>3, <4>2, OrdersAreGiven
      <4>3. ASSUME NEW c \in Commander,
                   \/ DeliveryMethodCreate(c)
                   \/ ServiceFilterCreate(c) \/ ReadInstance(c) \/ SetInstance(c) \/ DestroyPrevious(c)
                   \/ RemoveGroup(c) \/ DropFilter(c)
                   \/ ListManualFilter(c) \/ LockManualFilters(c)
                   \/ ReplaceInstance(c) \/ InstallInstance(c)
            PROVE  Running' /\ (misused' <=> misused) /\ UNCHANGED ended
        BY <2>3, <4>3, OrdersGoOn
      <4>4. CASE \/ \E c \in Commander, x \in OutputName : CommandAddOutput(c, x) \/ CommandRemoveOutput(c, x)
                 \/ \E c \in Commander, f \in DOMAIN filter, fed \in BOOLEAN : Feed(c, f, fed)
                 \/ \E f \in DOMAIN filter : ProcessPacket(f)
                 \/ DeliveryMethodOutputPacket
                 \/ OutputsSendPacket
        BY <2>3, <4>4, PacketsGoOn
      <4> QED
        BY <2>1, <2>5, <4>1, <4>2, <4>3, <4>4 DEF DeliveriesStep
    <3> QED
      BY <3>1, <2>2, <2>3 DEF DeliveriesInv
  <2> QED
    BY <2>4, <2>5
<1> QED
  BY <1>1, <1>2

\* It is more than the property says.
LEMMA DeliveriesInvSuffices ==
  ASSUME DeliveriesInv
  PROVE  DeliveriesOwned
<1> QED
  BY DEF DeliveriesInv, DeliveriesOwned, Running, Over, Counted, Referred, Instances

\* Unless two threads are at one filter or output, or the packet loop at one
\* that is being changed: every instance that deliverymethod.c made has one
\* owner until it is destroyed, once; it is not used after that; and an output
\* is freed only when no instance refers to it.  The list of the instances has
\* just those there are, unless two threads changed it at once, as they may
\* wherever they are: it has no mutex.
THEOREM DeliveriesAreOwned == DeliveriesSpec => []DeliveriesOwned
<1>1. DeliveriesInit => DeliveriesInv
  BY NothingYet
<1>2. DeliveriesInv /\ [DeliveriesNext]_deliveries => DeliveriesInv'
  BY DeliveriesInvIsKept
<1>3. DeliveriesInv => DeliveriesOwned
  BY DeliveriesInvSuffices
<1> QED
  BY <1>1, <1>2, <1>3, PTL DEF DeliveriesSpec

=============================================================================
