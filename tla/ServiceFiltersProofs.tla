------------------------- MODULE ServiceFiltersProofs -------------------------
(***************************************************************************)
(* Once things are quiet the filters fit their services, for any numbers   *)
(* of services, multiplexes, filters and commands: the proof of            *)
(* SettledFiltersFollow of ServiceFilters.                                 *)
(*                                                                         *)
(* Which steps a call may hold, and which of them must follow another, is  *)
(* said first; with it a thread is rebuilding a filter exactly when its    *)
(* next step is about it.  Then the invariant says, of a filter that is    *)
(* not as it should be, what is still to come that puts it right.          *)
(***************************************************************************)
EXTENDS ServiceFilters, TLAPS, SequenceTheorems, FiniteSetTheorems

-----------------------------------------------------------------------------
(* The steps of a call.                                                    *)

Holds(q, x) == \E i \in 1..Len(q) : q[i] = x

UserSteps(E) ==
  ({"disable", "enable", "follow"} \X {None})
    \cup ({"find", "current"} \X Service)
    \cup ({"load", "tune", "announce"} \X Mux)
    \cup ({"drop", "avs on", "avs off", "check", "add"} \X E)
    \cup ({"assign"} \X (E \X (Service \cup {None})))

InputSteps(E) ==
  ({"services", "attach", "clear"} \X {None})
    \cup ({"callback"} \X (E \X BOOLEAN))
    \cup ({"updated"} \X (E \X Service))
    \cup ({"drop", "rewrite", "rewrite PMT", "check", "add"} \X E)

\* b is the step that goes with a.
Opens(a, b) ==
  \/ a[1] = "drop" /\ b[1] \in {"avs on", "avs off", "rewrite PMT"} /\ b[2] = a[2]
  \/ a[1] = "drop" /\ b[1] = "assign" /\ b[2][1] = a[2]
  \/ a[1] = "assign" /\ a[2][2] # None /\ b = <<"check", a[2][1]>>
  \/ a[1] \in {"rewrite", "rewrite PMT"} /\ b = <<"check", a[2]>>
  \/ a[1] = "load" /\ b = <<"tune", a[2]>>
  \/ a[1] = "tune" /\ b = <<"announce", a[2]>>
  \/ a[1] = "services" /\ b = <<"attach", None>>

\* a is not the last step of a call.
Bound(a) ==
  \/ a[1] \in {"drop", "rewrite", "rewrite PMT", "load", "tune", "services"}
  \/ a[1] = "assign" /\ a[2][2] # None

\* b comes first in a call, or after the step it goes with.
Inner(b) ==
  b[1] \in {"drop", "assign", "avs on", "avs off", "rewrite", "rewrite PMT", "check", "add",
            "tune"}

WellFormed(q) ==
  /\ \A i \in 1..Len(q) : Bound(q[i]) => i < Len(q) /\ Opens(q[i], q[i + 1])
  /\ \A i \in 2..Len(q) : Inner(q[i]) => Opens(q[i - 1], q[i])

Typed ==
  /\ todo[User] \in Seq(UserSteps(Existing))
  /\ todo[Input] \in Seq(InputSteps(Existing))
  /\ todo = [t \in Thread |-> todo[t]]
  /\ exists \in Seq(Filter) /\ Primary \in Existing
  /\ service \in [Filter -> Service \cup {None}]
  /\ avsOnly \in [Filter -> BOOLEAN]
  /\ chosen \in [Filter -> SUBSET Stream]
  /\ patOf \in [Filter -> Service \cup {None}]
  /\ pmtOf \in [Filter -> Service \cup {None}]
  /\ info \in [Service -> SUBSET Stream]
  /\ pids = [f \in Filter |-> pids[f]]
  /\ currentMultiplex \in Mux \cup {None}
  /\ currentService \in Service \cup {None}
  /\ cached \in Mux \cup {None}
  /\ heard \subseteq Service /\ handles \subseteq Service

Formed == WellFormed(todo[User]) /\ WellFormed(todo[Input])

\* A filter that is destroyed, or not made yet.
Blank == \A f \in Filter \ Existing : service[f] = None /\ ~avsOnly[f] /\ pids[f] = {}

-----------------------------------------------------------------------------
(* The invariant.                                                          *)

\* A change of multiplex that nobody has been told yet.
Unsettled ==
  \/ lost
  \/ changed /\ ~Holds(todo[Input], <<"clear", None>>)
  \/ \E m \in Mux : Holds(todo[User], <<"announce", m>>)

Now(t, f) == todo[t] # <<>> /\ About(todo[t][1], f)

Coming(f) == \E t \in Thread : \E i \in 1..Len(todo[t]) : Begins(todo[t][i], f)

\* The cache holds the current multiplex, or the one about to be it.
TuneNext == todo[User] # <<>> /\ todo[User][1][1] = "tune"

CacheInStep ==
  /\ TuneNext => todo[User][1][2] = cached
  /\ ~TuneNext => cached = currentMultiplex

HeardInCache == heard \subseteq ServicesOf(cached)

ServicesInStep ==
  services = ServicesOf(cached) \/ Unsettled \/ Holds(todo[Input], <<"services", None>>)

\* Those made so far, while they are made, are of services that are there, unless
\* all are to be given up again.
HandlesInStep ==
  \/ handles = ServicesOf(cached) \/ Unsettled
  \/ /\ Holds(todo[Input], <<"attach", None>>)
     /\ Holds(todo[Input], <<"services", None>>) \/ handles \subseteq ServicesOf(cached)

TableNamed(f) ==
  service[f] # None => patOf[f] = service[f] /\ (avsOnly[f] => pmtOf[f] = service[f])

TablesNamed == \A f \in Filter : TableNamed(f)

ChosenWell(f) ==
  (avsOnly[f] /\ service[f] \in heard) =>
    \/ chosen[f] = info[service[f]] \cap FirstOfKind
    \/ Holds(todo[Input], <<"updated", <<f, service[f]>>>>)
    \/ Holds(todo[Input], <<"rewrite PMT", f>>)

ChosenInStep == \A f \in Existing : ChosenWell(f)

OneRebuilds == \A f \in Filter : (Now(User, f) /\ Now(Input, f)) => f \in mixed

\* t has removed the PIDs of f and will see to the new ones.
Emptied(t, f) ==
  /\ Now(t, f) /\ pids[f] = {}
  /\ todo[t][1] = <<"add", f>> =>
       service[f] # None /\ MuxOf[service[f]] = currentMultiplex

Fits(f) ==
  /\ \A t \in Thread : ~Now(t, f)
  /\ pids[f] = Wanted(f) \/ Holds(todo[Input], <<"updated", <<f, service[f]>>>>)

PidsInStep ==
  \A f \in Existing \ mixed :
    Coming(f) \/ Unsettled \/ (\E t \in Thread : Emptied(t, f)) \/ Fits(f)

IInv ==
  /\ Typed /\ Formed /\ Blank
  /\ CacheInStep /\ HeardInCache /\ ServicesInStep /\ HandlesInStep
  /\ TablesNamed /\ ChosenInStep /\ OneRebuilds /\ PidsInStep

-----------------------------------------------------------------------------
(* What a step does to the call it is of.                                  *)

\* The first step of a call is replaced by some others, or by none if it goes
\* with the second.
Stitched(S, q, new, r) ==
  /\ r \in Seq(S) /\ WellFormed(r)
  /\ \A x : Holds(r, x) => Holds(new, x) \/ Holds(q, x)
  /\ \A x : Holds(new, x) => Holds(r, x)
  /\ \A x : Holds(q, x) => x = q[1] \/ Holds(r, x)
  /\ new # <<>> => r # <<>> /\ r[1] = new[1]
  /\ new = <<>> => /\ r # <<>> /\ Inner(r[1]) => Opens(q[1], r[1])
                   /\ Bound(q[1]) => r # <<>> /\ Opens(q[1], r[1])

LEMMA Replaced ==
  ASSUME NEW S, NEW q \in Seq(S), q # <<>>, NEW new \in Seq(S), NEW r, r = new \o Tail(q),
         WellFormed(q), WellFormed(new),
         new # <<>> => \A b : ~Opens(q[1], b)
  PROVE  Stitched(S, q, new, r)
<1> DEFINE m == Len(new)
           n == Len(q)
<1>1. m \in Nat /\ n \in Nat /\ n > 0 /\ (new = <<>> <=> m = 0)
  BY EmptySeq, LenProperties
<1>2. Tail(q) \in Seq(S) /\ Len(Tail(q)) = n - 1 /\ \A i \in 1..n - 1 : Tail(q)[i] = q[i + 1]
  BY <1>1
<1>3. /\ r \in Seq(S) /\ Len(r) = m + n - 1
      /\ \A i \in 1..m : r[i] = new[i]
  BY <1>1, <1>2, ConcatProperties
<1>4. \A i \in 2..n : m + i - 1 \in 1..Len(r) /\ r[m + i - 1] = q[i]
  <2> SUFFICES ASSUME NEW i \in 2..n PROVE m + i - 1 \in 1..Len(r) /\ r[m + i - 1] = q[i]
    OBVIOUS
  <2>1. m + i - 1 \in 1..m + Len(Tail(q)) /\ ~(m + i - 1 <= m) /\ m + i - 1 - m = i - 1
    BY <1>1, <1>2
  <2>2. (new \o Tail(q))[m + i - 1] = Tail(q)[i - 1]
    <3>1. \A k \in 1..Len(new) + Len(Tail(q)) :
            (new \o Tail(q))[k] = IF k <= Len(new) THEN new[k] ELSE Tail(q)[k - Len(new)]
      BY <1>2, ConcatProperties
    <3> QED
      BY <2>1, <3>1
  <2>3. Tail(q)[i - 1] = q[i]
    <3>1. i - 1 \in 1..n - 1 /\ (i - 1) + 1 = i
      BY <1>1
    <3> QED
      BY <1>2, <3>1
  <2> QED
    BY <1>1, <1>3, <2>2, <2>3
<1>5. \A i \in 1..Len(r) : \/ i \in 1..m /\ r[i] = new[i]
                           \/ i > m /\ i - m + 1 \in 2..n /\ r[i] = q[i - m + 1]
  <2> SUFFICES ASSUME NEW i \in 1..Len(r), i \notin 1..m
               PROVE  i > m /\ i - m + 1 \in 2..n /\ r[i] = q[i - m + 1]
    BY <1>3
  <2>1. i > m /\ i - m + 1 \in 2..n /\ m + (i - m + 1) - 1 = i
    BY <1>1, <1>3
  <2> QED
    BY <1>4, <2>1
<1> HIDE DEF m, n
<1>6. \A x : Holds(r, x) => Holds(new, x) \/ Holds(q, x)
  BY <1>1, <1>5 DEF Holds, m, n
<1>7. \A x : Holds(new, x) => Holds(r, x)
  BY <1>1, <1>3 DEF Holds, m
<1>8. \A x : Holds(q, x) => x = q[1] \/ Holds(r, x)
  <2> SUFFICES ASSUME NEW x, NEW i \in 1..n, q[i] = x, i # 1 PROVE Holds(r, x)
    BY DEF Holds, n
  <2>1. i \in 2..n
    BY <1>1
  <2> QED
    BY <1>4, <2>1 DEF Holds
<1>9. new # <<>> => r # <<>> /\ r[1] = new[1]
  <2> SUFFICES ASSUME new # <<>> PROVE r # <<>> /\ r[1] = new[1]
    OBVIOUS
  <2>1. m > 0 /\ 1 \in 1..m /\ Len(r) > 0
    BY <1>1, <1>3
  <2> QED
    BY <1>3, <2>1, EmptySeq
<1>10. ASSUME new = <<>>
       PROVE  /\ r # <<>> /\ Inner(r[1]) => Opens(q[1], r[1])
              /\ Bound(q[1]) => r # <<>> /\ Opens(q[1], r[1])
  <2>1. m = 0 /\ Len(r) = n - 1
    BY <1>1, <1>3, <1>10
  <2>2. ASSUME r # <<>> PROVE n > 1 /\ 2 \in 2..n /\ r[1] = q[2]
    <3>1. Len(r) # 0
      BY <1>3, <2>2, EmptySeq
    <3>2. n > 1 /\ 2 \in 2..n /\ m + 2 - 1 = 1
      BY <1>1, <2>1, <3>1
    <3> QED
      BY <1>4, <3>2
  <2>3. r # <<>> /\ Inner(r[1]) => Opens(q[1], r[1])
    BY <2>2 DEF WellFormed, n
  <2>4. ASSUME Bound(q[1]) PROVE r # <<>> /\ Opens(q[1], r[1])
    <3>1. 1 \in 1..n
      BY <1>1
    <3>2. 1 < n /\ Opens(q[1], q[2])
      BY <2>4, <3>1 DEF WellFormed, n
    <3>3. r # <<>>
      <4>1. Len(r) # 0
        BY <1>1, <2>1, <3>2
      <4> QED
        BY <1>3, <4>1, EmptySeq
    <3> QED
      BY <2>2, <3>2, <3>3
  <2> QED
    BY <2>3, <2>4
<1>11. ASSUME NEW i \in 1..Len(r), Bound(r[i]) PROVE i < Len(r) /\ Opens(r[i], r[i + 1])
  <2>1. CASE i \in 1..m /\ r[i] = new[i]
    <3>1. i < m /\ Opens(new[i], new[i + 1])
      BY <1>11, <2>1 DEF WellFormed, m
    <3>2. i + 1 \in 1..m /\ i < Len(r)
      BY <1>1, <1>3, <2>1, <3>1
    <3> QED
      BY <1>3, <2>1, <3>1, <3>2
  <2>2. CASE i > m /\ i - m + 1 \in 2..n /\ r[i] = q[i - m + 1]
    <3>1. i - m + 1 \in 1..n /\ i \in Nat
      BY <1>1, <1>3, <2>2
    <3>2. i - m + 1 < n /\ Opens(q[i - m + 1], q[i - m + 1 + 1])
      BY <1>11, <2>2, <3>1 DEF WellFormed, n
    <3>3. i - m + 2 \in 2..n /\ m + (i - m + 2) - 1 = i + 1 /\ i - m + 1 + 1 = i - m + 2
      BY <1>1, <3>1, <3>2, <2>2
    <3>4. r[i + 1] = q[i - m + 2] /\ i + 1 \in 1..Len(r)
      BY <1>4, <3>3
    <3>5. i < Len(r)
      BY <1>1, <1>3, <3>1, <3>4
    <3> QED
      BY <2>2, <3>2, <3>3, <3>4, <3>5
  <2> QED
    BY <1>5, <2>1, <2>2
<1>12. ASSUME NEW i \in 2..Len(r), Inner(r[i]) PROVE Opens(r[i - 1], r[i])
  <2>0. i \in 1..Len(r) /\ i - 1 \in 1..Len(r) /\ i \in Nat
    BY <1>1, <1>3
  <2>1. CASE i \in 1..m /\ r[i] = new[i]
    <3>1. i \in 2..m /\ i - 1 \in 1..m
      BY <1>1, <2>0, <2>1
    <3> QED
      BY <1>3, <1>12, <2>1, <3>1 DEF WellFormed, m
  <2>2. CASE i > m /\ i - m + 1 \in 2..n /\ r[i] = q[i - m + 1]
    <3>1. Opens(q[i - m], q[i - m + 1])
      <4>1. PICK k \in 2..n : k = i - m + 1
        BY <2>2
      <4>2. Opens(q[k - 1], q[k])
        BY <1>12, <2>2, <4>1 DEF WellFormed, n
      <4>3. k - 1 = i - m
        BY <1>1, <2>0, <4>1
      <4> QED
        BY <4>1, <4>2, <4>3
    <3>2. CASE i = m + 1
      <4>1. i - m = 1 /\ m # 0
        BY <1>1, <2>0, <3>2
      <4> QED
        BY <1>1, <3>1, <4>1
    <3>3. CASE i # m + 1
      <4>1. i - m \in 2..n /\ m + (i - m) - 1 = i - 1
        BY <1>1, <2>0, <2>2, <3>3
      <4> QED
        BY <1>4, <2>2, <3>1, <4>1
    <3> QED
      BY <3>2, <3>3
  <2> QED
    BY <1>5, <2>0, <2>1, <2>2
<1> QED
  BY <1>3, <1>6, <1>7, <1>8, <1>9, <1>10, <1>11, <1>12 DEF WellFormed, Stitched

Steps(t) == IF t = User THEN UserSteps(Existing) ELSE InputSteps(Existing)

\* What can be said of the calls after t has taken the step "first" of its own,
\* which leaves it these ones to do.
Effect(t, first, new) ==
  /\ todo[t] # <<>> /\ todo[t][1] = first /\ Holds(todo[t], first) /\ first \in Steps(t)
  /\ todo'[User] \in Seq(UserSteps(Existing)) /\ todo'[Input] \in Seq(InputSteps(Existing))
  /\ todo' = [o \in Thread |-> todo'[o]]
  /\ Formed'
  /\ \A o \in Thread \ {t} : todo'[o] = todo[o]
  /\ \A y : Holds(todo'[t], y) => Holds(new, y) \/ Holds(todo[t], y)
  /\ \A y : Holds(new, y) => Holds(todo'[t], y)
  /\ \A y : Holds(todo[t], y) => y = first \/ Holds(todo'[t], y)
  /\ \A f : Coming(f) => Begins(first, f) \/ Coming(f)'
  /\ \A o \in Thread \ {t} : \A f : Now(o, f)' <=> Now(o, f)
  /\ new # <<>> => todo'[t] # <<>> /\ todo'[t][1] = new[1]
  /\ (new = <<>> /\ todo'[t] # <<>> /\ Inner(todo'[t][1])) => Opens(first, todo'[t][1])
  /\ new = <<>> => \A f : Now(t, f)' => Opens(first, todo'[t][1])
  /\ (new = <<>> /\ Bound(first)) => todo'[t] # <<>> /\ Opens(first, todo'[t][1])

LEMMA AboutIsInner == \A a, f : About(a, f) => Inner(a)
  BY DEF About, Inner

\* Only these steps go with one about a filter.
LEMMA OpensWhat ==
  ASSUME NEW step, NEW x, NEW b, Opens(<<step, x>>, b)
  PROVE  \/ step \in {"drop", "assign", "rewrite", "rewrite PMT"}
         \/ b[1] \in {"tune", "announce", "attach"}
<1> DEFINE a == <<step, x>>
<1>1. a[1] = step
  OBVIOUS
<1> HIDE DEF a
<1>2. b = <<"tune", a[2]>> => b[1] = "tune"
  OBVIOUS
<1>3. b = <<"announce", a[2]>> => b[1] = "announce"
  OBVIOUS
<1>4. b = <<"attach", None>> => b[1] = "attach"
  OBVIOUS
<1>5. Opens(a, b)
  BY DEF a
<1> QED
  BY <1>1, <1>2, <1>3, <1>4, <1>5 DEF Opens

LEMMA OpensTune ==
  ASSUME NEW step, NEW x, NEW b, Opens(<<step, x>>, b), b[1] = "tune"
  PROVE  step = "load"
<1> DEFINE a == <<step, x>>
<1>1. a[1] = step /\ Opens(a, b)
  OBVIOUS
<1> HIDE DEF a
<1>2. \A y : b # <<"check", y>> /\ b # <<"announce", y>> /\ b # <<"attach", y>>
  OBVIOUS
<1> QED
  BY <1>1, <1>2 DEF Opens

LEMMA AboutOne == \A a, f, g : About(a, f) /\ About(a, g) => f = g
  BY DEF About

LEMMA CallsTyped == Typed => \A t \in Thread : todo[t] \in Seq(Steps(t))
  BY TuningAssumption DEF Typed, Thread, Steps

LEMMA Stepped ==
  ASSUME Typed, Formed, NEW t \in Thread, NEW step, NEW x, Doing(t, step, x),
         NEW new \in Seq(Steps(t)), Then(t, new), WellFormed(new),
         new # <<>> => \A b : ~Opens(<<step, x>>, b)
  PROVE  Effect(t, <<step, x>>, new)
<1> DEFINE first == <<step, x>>
           q == todo[t]
           r == new \o Tail(q)
<1>1. q \in Seq(Steps(t)) /\ q # <<>> /\ WellFormed(q)
  BY CallsTyped, TuningAssumption DEF Doing, Idle, Formed, Thread
<1>2. Len(q) \in Nat /\ Len(q) # 0 /\ q[1] = first /\ first \in Steps(t)
  <2>1. Len(q) \in Nat /\ Len(q) # 0
    BY <1>1, EmptySeq
  <2>2. Head(q) = q[1] /\ q[1] \in Steps(t)
    BY <1>1, <2>1
  <2> QED
    BY <2>1, <2>2 DEF Doing
<1>3. Holds(q, first)
  <2>1. 1 \in 1..Len(q)
    BY <1>2
  <2> QED
    BY <1>2, <2>1 DEF Holds
<1>4. todo' = [todo EXCEPT ![t] = r]
  BY DEF Then
<1>5. todo = [o \in Thread |-> todo[o]]
  BY DEF Typed
<1>6. todo'[t] = r /\ todo' = [o \in Thread |-> todo'[o]] /\ \A o \in Thread \ {t} : todo'[o] = todo[o]
  BY <1>4, <1>5
<1>7. Stitched(Steps(t), q, new, r)
  <2> HIDE DEF q, r
  <2>1. new # <<>> => \A b : ~Opens(q[1], b)
    BY <1>2
  <2>2. r = new \o Tail(q)
    BY DEF r
  <2>3. q \in Seq(Steps(t)) /\ q # <<>> /\ WellFormed(q) /\ WellFormed(new)
    BY <1>1
  <2> QED
    BY <2>1, <2>2, <2>3, Replaced, Zenon
<1> HIDE DEF q, r, first
<1> USE DEF Stitched
<1>8. /\ todo'[User] \in Seq(UserSteps(Existing)) /\ todo'[Input] \in Seq(InputSteps(Existing))
      /\ WellFormed(todo'[User]) /\ WellFormed(todo'[Input])
  <2>1. \A o \in Thread : todo'[o] \in Seq(Steps(o)) /\ WellFormed(todo'[o])
    <3>1. \A o \in Thread : todo[o] \in Seq(Steps(o)) /\ WellFormed(todo[o])
      BY CallsTyped DEF Formed, Thread
    <3> QED
      BY <1>6, <1>7, <3>1
  <2> QED
    BY <2>1, TuningAssumption DEF Thread, Steps
<1>9. ASSUME NEW f, Coming(f) PROVE Begins(first, f) \/ Coming(f)'
  <2>1. PICK o \in Thread : \E i \in 1..Len(todo[o]) : Begins(todo[o][i], f)
    BY <1>9 DEF Coming
  <2>2. PICK i \in 1..Len(todo[o]) : Begins(todo[o][i], f)
    BY <2>1
  <2>3. CASE o # t
    BY <1>6, <2>2, <2>3 DEF Coming
  <2>4. CASE o = t
    <3>1. Holds(q, todo[t][i])
      BY <2>2, <2>4 DEF Holds, q
    <3>2. CASE todo[t][i] = first
      BY <2>2, <2>4, <3>2
    <3>3. CASE Holds(r, todo[t][i])
      <4>1. PICK j \in 1..Len(r) : r[j] = todo[t][i]
        BY <3>3 DEF Holds
      <4> QED
        BY <1>6, <2>2, <2>4, <4>1 DEF Coming
    <3> QED
      BY <1>2, <1>7, <3>1, <3>2, <3>3
  <2> QED
    BY <2>3, <2>4
<1>10. \A o \in Thread \ {t} : \A f : Now(o, f)' <=> Now(o, f)
  BY <1>6 DEF Now
<1>11. /\ (new = <<>> /\ todo'[t] # <<>> /\ Inner(todo'[t][1])) => Opens(first, todo'[t][1])
       /\ new = <<>> => \A f : Now(t, f)' => Opens(first, todo'[t][1])
  BY <1>2, <1>6, <1>7, AboutIsInner DEF Now
<1> QED
  BY <1>1, <1>2, <1>3, <1>6, <1>7, <1>8, <1>9, <1>10, <1>11 DEF Effect, Formed, q, first

-----------------------------------------------------------------------------
(* What a step keeps because it leaves alone what it is about.             *)

\* Of the cache and the current multiplex, the steps that do not touch them.
LEMMA CacheKept ==
  ASSUME IInv, NEW t \in Thread, NEW step, NEW x, NEW new, Effect(t, <<step, x>>, new),
         UNCHANGED <<cached, currentMultiplex>>, step \notin {"tune", "load"},
         new = <<>> \/ new[1][1] # "tune"
  PROVE  CacheInStep'
<1>0. User \in Thread
  BY DEF Thread
<1>1. CASE t # User
  BY <1>0, <1>1 DEF Effect, IInv, CacheInStep, TuneNext
<1>2. CASE t = User
  <2>1. ~TuneNext
    BY <1>2 DEF Effect, TuneNext
  <2>2. CASE new # <<>>
    <3>1. ~TuneNext'
      BY <1>2, <2>2 DEF Effect, TuneNext
    <3> QED
      BY <2>1, <3>1 DEF IInv, CacheInStep
  <2>3. CASE new = <<>>
    <3>1. ASSUME TuneNext' PROVE FALSE
      <4>1. Opens(<<step, x>>, todo'[User][1]) /\ todo'[User][1][1] = "tune"
        BY <1>2, <2>3, <3>1 DEF Effect, TuneNext, Inner
      <4> QED
        BY <4>1, OpensTune
    <3> QED
      BY <2>1, <3>1 DEF IInv, CacheInStep
  <2> QED
    BY <2>2, <2>3
<1> QED
  BY <1>1, <1>2

\* A change that nobody has been told yet is not forgotten by steps that do not
\* tell it.
LEMMA UnsettledKept ==
  ASSUME NEW t \in Thread, NEW step, NEW x, NEW new, Effect(t, <<step, x>>, new),
         UNCHANGED <<lost, changed>>, step \notin {"announce", "clear"},
         ~Holds(new, <<"clear", None>>), Unsettled
  PROVE  Unsettled'
<1>1. User \in Thread /\ Input \in Thread
  BY DEF Thread
<1>2. \A y : y # <<step, x>> /\ Holds(todo[User], y) => Holds(todo'[User], y)
  BY <1>1 DEF Effect
<1>3. Holds(todo'[Input], <<"clear", None>>) => Holds(todo[Input], <<"clear", None>>)
  <2>1. CASE t = Input
    BY <2>1 DEF Effect
  <2>2. CASE t # Input
    BY <1>1, <2>2 DEF Effect
  <2> QED
    BY <2>1, <2>2
<1>4. CASE lost
  BY <1>4 DEF Unsettled
<1>5. CASE changed /\ ~Holds(todo[Input], <<"clear", None>>)
  BY <1>3, <1>5 DEF Unsettled
<1>6. ASSUME NEW m \in Mux, Holds(todo[User], <<"announce", m>>) PROVE Unsettled'
  <2>1. <<"announce", m>> # <<step, x>>
    OBVIOUS
  <2>2. Holds(todo'[User], <<"announce", m>>)
    BY <1>2, <1>6, <2>1
  <2> QED
    BY <2>2 DEF Unsettled
<1> QED
  BY <1>4, <1>5, <1>6 DEF Unsettled

\* Of the tables, the steps that do not touch them.
LEMMA TablesKept ==
  ASSUME IInv, NEW t \in Thread, NEW step, NEW x, NEW new, Effect(t, <<step, x>>, new),
         UNCHANGED <<cached, currentMultiplex, services, handles, heard, lost, changed>>,
         step \notin {"announce", "clear", "services", "attach", "tune", "load"},
         ~Holds(new, <<"clear", None>>), new = <<>> \/ new[1][1] # "tune"
  PROVE  /\ Unsettled => Unsettled'
         /\ CacheInStep' /\ HeardInCache' /\ ServicesInStep' /\ HandlesInStep'
<1>1. \A o \in Thread : \A k, y : k \in {"announce", "clear", "services", "attach"} =>
        (Holds(todo[o], <<k, y>>) => Holds(todo'[o], <<k, y>>))
  <2> SUFFICES ASSUME NEW o \in Thread, NEW k, NEW y,
                      k \in {"announce", "clear", "services", "attach"},
                      Holds(todo[o], <<k, y>>)
               PROVE  Holds(todo'[o], <<k, y>>)
    OBVIOUS
  <2>1. <<k, y>> # <<step, x>>
    OBVIOUS
  <2> QED
    BY <2>1 DEF Effect
<1>2. User \in Thread /\ Input \in Thread
  BY DEF Thread
<1>4. ASSUME Unsettled PROVE Unsettled'
  BY <1>4, UnsettledKept
<1>5. CacheInStep'
  BY CacheKept
<1>6. HeardInCache'
  BY DEF IInv, HeardInCache, ServicesOf
<1>7. ServicesInStep'
  BY <1>1, <1>2, <1>4 DEF IInv, ServicesInStep, ServicesOf
<1>8. HandlesInStep'
  BY <1>1, <1>2, <1>4 DEF IInv, HandlesInStep, ServicesOf
<1> QED
  BY <1>4, <1>5, <1>6, <1>7, <1>8

\* Of what the filters have chosen, the steps that are not about an update.
LEMMA ChosenKept ==
  ASSUME IInv, NEW t \in Thread, NEW step, NEW x, NEW new, Effect(t, <<step, x>>, new),
         UNCHANGED <<exists, service, avsOnly, chosen, info, heard>>,
         step \notin {"updated", "rewrite PMT"}
  PROVE  ChosenInStep'
<1> SUFFICES ASSUME NEW f \in Existing, avsOnly[f] /\ service[f] \in heard
             PROVE  \/ chosen[f] = info[service[f]] \cap FirstOfKind
                    \/ Holds(todo'[Input], <<"updated", <<f, service[f]>>>>)
                    \/ Holds(todo'[Input], <<"rewrite PMT", f>>)
  BY DEF ChosenInStep, ChosenWell, Existing
<1>1. Input \in Thread
  BY DEF Thread
<1>2. \A y : y # <<step, x>> /\ Holds(todo[Input], y) => Holds(todo'[Input], y)
  BY <1>1 DEF Effect
<1>3. /\ Holds(todo[Input], <<"updated", <<f, service[f]>>>>)
           => Holds(todo'[Input], <<"updated", <<f, service[f]>>>>)
      /\ Holds(todo[Input], <<"rewrite PMT", f>>) => Holds(todo'[Input], <<"rewrite PMT", f>>)
  <2>1. <<"updated", <<f, service[f]>>>> # <<step, x>> /\ <<"rewrite PMT", f>> # <<step, x>>
    OBVIOUS
  <2> QED
    BY <1>2, <2>1
<1>4. \/ chosen[f] = info[service[f]] \cap FirstOfKind
      \/ Holds(todo[Input], <<"updated", <<f, service[f]>>>>)
      \/ Holds(todo[Input], <<"rewrite PMT", f>>)
  BY DEF IInv, ChosenInStep, ChosenWell
<1> QED
  BY <1>3, <1>4

\* Of the filters themselves, the steps that do not touch them.
LEMMA FiltersKept ==
  ASSUME IInv, UNCHANGED <<exists, service, avsOnly, pids, patOf, pmtOf>>
  PROVE  Blank' /\ TablesNamed'
  BY DEF IInv, Blank, TablesNamed, TableNamed, Existing

\* Of who is rebuilding what, the steps that are about no filter.
LEMMA NobodyChanges ==
  ASSUME IInv, NEW t \in Thread, NEW step, NEW x, NEW new, Effect(t, <<step, x>>, new),
         mixed' = mixed,
         step \in {"disable", "enable", "find", "load", "tune", "announce", "current",
                   "follow", "services", "attach", "clear"},
         new = <<>> \/ ~Inner(new[1]) \/ new[1][1] = "drop"
  PROVE  /\ \A f : ~Now(t, f)
         /\ \A o \in Thread : \A f : Now(o, f)' <=> Now(o, f)
         /\ \A f : Coming(f) => Coming(f)'
         /\ OneRebuilds'
<1>1. \A f : ~Now(t, f) /\ ~Now(t, f)' /\ ~Begins(<<step, x>>, f)
  <2> SUFFICES ASSUME NEW f PROVE ~Now(t, f) /\ ~Now(t, f)' /\ ~Begins(<<step, x>>, f)
    OBVIOUS
  <2>1. ~Begins(<<step, x>>, f)
    BY DEF Begins
  <2>2. ~Now(t, f)
    <3>1. ~About(<<step, x>>, f)
      BY DEF About
    <3> QED
      BY <3>1 DEF Now, Effect
  <2>3. ASSUME new # <<>>, Now(t, f)' PROVE FALSE
    <3>1. About(new[1], f)
      BY <2>3 DEF Now, Effect
    <3> QED
      BY <2>3, <3>1, AboutIsInner DEF About
  <2>4. ASSUME new = <<>>, Now(t, f)' PROVE FALSE
    <3>1. Opens(<<step, x>>, todo'[t][1]) /\ About(todo'[t][1], f)
      BY <2>4 DEF Now, Effect
    <3>2. \A b : Opens(<<step, x>>, b) => ~About(b, f)
      BY OpensWhat DEF About
    <3> QED
      BY <3>1, <3>2
  <2> QED
    BY <2>1, <2>2, <2>3, <2>4
<1>2. \A o \in Thread : \A f : Now(o, f)' <=> Now(o, f)
  BY <1>1 DEF Effect
<1>3. \A f : Coming(f) => Coming(f)'
  BY <1>1 DEF Effect
<1>4. OneRebuilds'
  BY <1>2 DEF IInv, OneRebuilds, Thread
<1> QED
  BY <1>1, <1>2, <1>3, <1>4

\* Of the PIDs, those that leave alone what they depend on, too.
LEMMA PidsKept ==
  ASSUME IInv, NEW t \in Thread, NEW step, NEW x, NEW new, Effect(t, <<step, x>>, new),
         UNCHANGED <<exists, service, avsOnly, pids, chosen, info, currentMultiplex, mixed>>,
         step \in {"disable", "enable", "find", "load", "tune", "announce", "current",
                   "follow", "services", "attach", "clear"},
         new = <<>> \/ ~Inner(new[1]) \/ new[1][1] = "drop",
         Unsettled => Unsettled'
  PROVE  OneRebuilds' /\ PidsInStep'
<1>1. /\ \A f : ~Now(t, f)
      /\ \A o \in Thread : \A f : Now(o, f)' <=> Now(o, f)
      /\ \A f : Coming(f) => Coming(f)'
      /\ OneRebuilds'
  BY NobodyChanges
<1>2. \A o \in Thread : \A f : Now(o, f)' <=> Now(o, f)
  BY <1>1
<1>3. \A f : Coming(f) => Coming(f)'
  BY <1>1
<1>4. OneRebuilds'
  BY <1>1
<1>5. ASSUME NEW f \in Existing \ mixed
      PROVE  Coming(f)' \/ Unsettled' \/ (\E o \in Thread : Emptied(o, f)') \/ Fits(f)'
  <2>1. CASE Coming(f) \/ Unsettled
    BY <1>3, <2>1
  <2>2. ASSUME NEW o \in Thread, Emptied(o, f) PROVE Emptied(o, f)'
    <3>1. o # t
      BY <1>1, <2>2 DEF Emptied
    <3> QED
      BY <1>2, <2>2, <3>1 DEF Emptied, Effect
  <2>3. ASSUME Fits(f) PROVE Fits(f)'
    <3>1. Holds(todo[Input], <<"updated", <<f, service[f]>>>>)
            => Holds(todo'[Input], <<"updated", <<f, service[f]>>>>)
      <4>1. <<step, x>> # <<"updated", <<f, service[f]>>>>
        OBVIOUS
      <4> QED
        BY <4>1 DEF Effect, Thread
    <3>2. Wanted(f)' = Wanted(f)
      BY DEF Wanted, PidsOf, PidPAT, PidPMT
    <3> QED
      BY <1>2, <2>3, <3>1, <3>2 DEF Fits
  <2>4. Coming(f) \/ Unsettled \/ (\E o \in Thread : Emptied(o, f)) \/ Fits(f)
    BY DEF IInv, PidsInStep
  <2> QED
    BY <2>1, <2>2, <2>3, <2>4
<1>6. PidsInStep'
  BY <1>5 DEF PidsInStep, Existing
<1> QED
  BY <1>4, <1>6

LEMMA ExistingFilters == Typed => Existing \subseteq Filter
<1> SUFFICES ASSUME Typed PROVE Existing \subseteq Filter
  OBVIOUS
<1>1. Existing = {exists[i] : i \in 1..Len(exists)}
  BY LenProperties DEF Existing, ToSet, Typed
<1> QED
  BY <1>1 DEF Typed

\* Of the PIDs, the steps that rebuild one filter.
Continues(t, f) ==
  (Emptied(t, f) /\ ~Unsettled) => Emptied(t, f)' \/ (~Now(t, f)' /\ pids'[f] = Wanted(f)')

LEMMA RebuildKept ==
  ASSUME IInv, NEW t \in Thread, NEW step, NEW x, NEW new, Effect(t, <<step, x>>, new),
         NEW f \in Existing, About(<<step, x>>, f),
         UNCHANGED <<exists, info, currentMultiplex, mixed>>,
         \A g \in Filter \ {f} : /\ service'[g] = service[g] /\ avsOnly'[g] = avsOnly[g]
                                 /\ chosen'[g] = chosen[g] /\ pids'[g] = pids[g],
         Unsettled => Unsettled',
         new # <<>> => About(new[1], f), Continues(t, f)
  PROVE  OneRebuilds' /\ PidsInStep'
<1>1. \A g : g # f => ~Now(t, g) /\ ~Now(t, g)'
  <2> SUFFICES ASSUME NEW g, g # f PROVE ~Now(t, g) /\ ~Now(t, g)'
    OBVIOUS
  <2>1. ~Now(t, g)
    BY AboutOne DEF Now, Effect
  <2>2. ASSUME new # <<>>, Now(t, g)' PROVE FALSE
    BY <2>2, AboutOne DEF Now, Effect
  <2>3. ASSUME new = <<>>, Now(t, g)' PROVE FALSE
    <3>1. Opens(<<step, x>>, todo'[t][1]) /\ About(todo'[t][1], g)
      BY <2>3 DEF Now, Effect
    <3>2. \A b : Opens(<<step, x>>, b) /\ About(b, g) => g = f
      <4> SUFFICES ASSUME NEW b, Opens(<<step, x>>, b), About(b, g) PROVE g = f
        OBVIOUS
      <4>1. PICK a : a = <<step, x>>
        OBVIOUS
      <4>2. a[1] # "drop" /\ a[1] \notin {"load", "tune", "services"}
        BY <4>1 DEF About
      <4>3. CASE a[1] = "assign" /\ b = <<"check", a[2][1]>>
        BY <4>1, <4>3 DEF About
      <4>4. CASE a[1] \in {"rewrite", "rewrite PMT"} /\ b = <<"check", a[2]>>
        BY <4>1, <4>4 DEF About
      <4> QED
        BY <4>1, <4>2, <4>3, <4>4 DEF Opens
    <3> QED
      BY <2>3, <3>1, <3>2
  <2> QED
    BY <2>1, <2>2, <2>3
<1>2. Now(t, f)
  BY DEF Now, Effect
<1>3. \A o \in Thread \ {t} : \A g : Now(o, g)' <=> Now(o, g)
  BY DEF Effect
<1>4. \A o \in Thread : \A g : Now(o, g)' => Now(o, g)
  BY <1>1, <1>2, <1>3
<1>5. OneRebuilds'
  BY <1>4 DEF IInv, OneRebuilds, Thread
<1>6. Existing \subseteq Filter
  BY ExistingFilters DEF IInv
<1>7. \A g : ~Begins(<<step, x>>, g)
  <2>1. step # "drop" /\ step # "callback"
    BY DEF About
  <2> QED
    BY <2>1 DEF Begins
<1>8. \A g : Coming(g) => Coming(g)'
  BY <1>7 DEF Effect
<1>9. ASSUME NEW g \in Existing \ mixed
      PROVE  Coming(g)' \/ Unsettled' \/ (\E o \in Thread : Emptied(o, g)') \/ Fits(g)'
  <2>1. CASE Coming(g) \/ Unsettled
    BY <1>8, <2>1
  <2>2. ASSUME g # f, NEW o \in Thread, Emptied(o, g) PROVE Emptied(o, g)'
    <3>1. o # t
      BY <1>1, <2>2 DEF Emptied
    <3>2. service'[g] = service[g] /\ pids'[g] = pids[g]
      BY <1>6, <2>2
    <3> QED
      BY <1>3, <2>2, <3>1, <3>2 DEF Emptied, Effect
  <2>3. ASSUME g # f, Fits(g) PROVE Fits(g)'
    <3>1. Holds(todo[Input], <<"updated", <<g, service[g]>>>>)
            => Holds(todo'[Input], <<"updated", <<g, service[g]>>>>)
      <4>1. <<step, x>> # <<"updated", <<g, service[g]>>>>
        BY DEF About
      <4> QED
        BY <4>1 DEF Effect, Thread
    <3>2. /\ service'[g] = service[g] /\ avsOnly'[g] = avsOnly[g] /\ chosen'[g] = chosen[g]
          /\ pids'[g] = pids[g]
      BY <1>6, <2>3
    <3>3. Wanted(g)' = Wanted(g)
      BY <3>2 DEF Wanted, PidsOf, PidPAT, PidPMT
    <3> QED
      BY <1>4, <2>3, <3>1, <3>2, <3>3 DEF Fits
  <2>4. ASSUME g = f, NEW o \in Thread, Emptied(o, f)
        PROVE  (\E n \in Thread : Emptied(n, f)') \/ Fits(f)' \/ Unsettled'
    <3>1. o = t
      <4>1. f \in Filter /\ f \notin mixed
        BY <1>6, <2>4
      <4> QED
        BY <1>2, <2>4, <4>1 DEF Emptied, IInv, OneRebuilds, Thread
    <3>2. CASE Unsettled
      BY <3>2
    <3>3. CASE Emptied(t, f)'
      BY <3>3
    <3>4. CASE ~Now(t, f)' /\ pids'[f] = Wanted(f)'
      <4>1. \A n \in Thread : ~Now(n, f)'
        <5>1. f \in Filter /\ f \notin mixed
          BY <1>6, <2>4
        <5> QED
          BY <1>2, <1>4, <3>4, <5>1 DEF IInv, OneRebuilds, Thread
      <4> QED
        BY <3>4, <4>1 DEF Fits
    <3> QED
      BY <2>4, <3>1, <3>2, <3>3, <3>4 DEF Continues
  <2>5. ~Fits(f)
    BY <1>2 DEF Fits
  <2>6. Coming(g) \/ Unsettled \/ (\E o \in Thread : Emptied(o, g)) \/ Fits(g)
    BY DEF IInv, PidsInStep
  <2> QED
    BY <2>1, <2>2, <2>3, <2>4, <2>5, <2>6
<1>10. PidsInStep'
  BY <1>9 DEF PidsInStep, Existing
<1> QED
  BY <1>5, <1>10

-----------------------------------------------------------------------------
(* The calls that are made.                                                *)

LEMMA NoSteps == WellFormed(<<>>) /\ \A y : ~Holds(<<>>, y)
  BY DEF WellFormed, Holds

LEMMA OneStep ==
  ASSUME NEW a, ~Bound(a)
  PROVE  WellFormed(<<a>>) /\ <<a>> # <<>> /\ \A y : Holds(<<a>>, y) => y = a
  BY DEF WellFormed, Holds

LEMMA PairIn ==
  ASSUME NEW S, NEW a \in S, NEW b \in S
  PROVE  <<a, b>> \in Seq(S)
  OBVIOUS

LEMMA TwoSteps ==
  ASSUME NEW a, NEW b, Bound(a) => Opens(a, b), Inner(b) => Opens(a, b), ~Bound(b)
  PROVE  /\ WellFormed(<<a, b>>) /\ <<a, b>> # <<>>
         /\ \A y : Holds(<<a, b>>, y) => y \in {a, b}
<1> DEFINE q == <<a, b>>
<1>1. Len(q) = 2 /\ q[1] = a /\ q[2] = b /\ q # <<>>
  OBVIOUS
<1> HIDE DEF q
<1>2. ASSUME NEW i \in 1..Len(q), Bound(q[i]) PROVE i < Len(q) /\ Opens(q[i], q[i + 1])
  <2>1. i = 1
    BY <1>1, <1>2
  <2> QED
    BY <1>1, <1>2, <2>1
<1>3. ASSUME NEW i \in 2..Len(q), Inner(q[i]) PROVE Opens(q[i - 1], q[i])
  <2>1. i = 2
    BY <1>1
  <2> QED
    BY <1>1, <1>3, <2>1
<1>4. \A y : Holds(q, y) => y \in {a, b}
  BY <1>1 DEF Holds
<1> QED
  BY <1>1, <1>2, <1>3, <1>4 DEF WellFormed, q

LEMMA ThreeSteps ==
  ASSUME NEW a, NEW b, NEW c, Bound(a) => Opens(a, b), Inner(b) => Opens(a, b),
         Bound(b) => Opens(b, c), Inner(c) => Opens(b, c), ~Bound(c)
  PROVE  /\ WellFormed(<<a, b, c>>) /\ <<a, b, c>> # <<>>
         /\ \A y : Holds(<<a, b, c>>, y) => y \in {a, b, c}
<1> DEFINE q == <<a, b, c>>
<1>1. Len(q) = 3 /\ q[1] = a /\ q[2] = b /\ q[3] = c /\ q # <<>>
  OBVIOUS
<1> HIDE DEF q
<1>2. ASSUME NEW i \in 1..Len(q), Bound(q[i]) PROVE i < Len(q) /\ Opens(q[i], q[i + 1])
  <2>1. i = 1 \/ i = 2
    BY <1>1, <1>2
  <2> QED
    BY <1>1, <1>2, <2>1
<1>3. ASSUME NEW i \in 2..Len(q), Inner(q[i]) PROVE Opens(q[i - 1], q[i])
  <2>1. (i = 2 /\ i - 1 = 1) \/ (i = 3 /\ i - 1 = 2)
    BY <1>1
  <2> QED
    BY <1>1, <1>3, <2>1
<1>4. \A y : Holds(q, y) => y \in {a, b, c}
  BY <1>1 DEF Holds
<1> QED
  BY <1>1, <1>2, <1>3, <1>4 DEF WellFormed, q

\* One part of a call after another.
Joint(S, p, q, r) ==
  /\ r \in Seq(S) /\ WellFormed(r)
  /\ \A y : Holds(r, y) <=> Holds(p, y) \/ Holds(q, y)
  /\ p # <<>> => r # <<>> /\ r[1] = p[1]

LEMMA Joined ==
  ASSUME NEW S, NEW p \in Seq(S), NEW q \in Seq(S), WellFormed(p), WellFormed(q),
         q # <<>> => ~Inner(q[1])
  PROVE  Joint(S, p, q, p \o q)
<1> DEFINE r == p \o q
           m == Len(p)
           n == Len(q)
<1>1. m \in Nat /\ n \in Nat /\ (p = <<>> <=> m = 0) /\ (q = <<>> <=> n = 0)
  BY EmptySeq, LenProperties
<1>2. /\ r \in Seq(S) /\ Len(r) = m + n
      /\ \A i \in 1..m + n : r[i] = IF i <= m THEN p[i] ELSE q[i - m]
  BY ConcatProperties
<1> HIDE DEF r, m, n
<1>3. \A i \in 1..m : i \in 1..Len(r) /\ r[i] = p[i]
  BY <1>1, <1>2
<1>4. \A i \in 1..n : m + i \in 1..Len(r) /\ r[m + i] = q[i]
  <2> SUFFICES ASSUME NEW i \in 1..n PROVE m + i \in 1..Len(r) /\ r[m + i] = q[i]
    OBVIOUS
  <2>1. PICK k \in 1..m + n : k = m + i
    BY <1>1
  <2>2. ~(k <= m) /\ k - m = i
    BY <1>1, <2>1
  <2>3. r[k] = q[i]
    BY <1>2, <2>2
  <2> QED
    BY <1>2, <2>1, <2>3
<1>5. \A i \in 1..Len(r) : (i \in 1..m /\ r[i] = p[i]) \/ (i - m \in 1..n /\ r[i] = q[i - m])
  BY <1>1, <1>2
<1>6. \A y : Holds(r, y) <=> Holds(p, y) \/ Holds(q, y)
  <2> SUFFICES ASSUME NEW y PROVE Holds(r, y) <=> Holds(p, y) \/ Holds(q, y)
    OBVIOUS
  <2>1. Holds(r, y) => Holds(p, y) \/ Holds(q, y)
    BY <1>5 DEF Holds, m, n
  <2>2. Holds(p, y) => Holds(r, y)
    BY <1>3 DEF Holds, m
  <2>3. Holds(q, y) => Holds(r, y)
    BY <1>4 DEF Holds, n
  <2> QED
    BY <2>1, <2>2, <2>3
<1>7. p # <<>> => r # <<>> /\ r[1] = p[1]
  <2> SUFFICES ASSUME p # <<>> PROVE r # <<>> /\ r[1] = p[1]
    OBVIOUS
  <2>1. m > 0 /\ 1 \in 1..m /\ Len(r) # 0
    BY <1>1, <1>2
  <2> QED
    BY <1>2, <1>3, <2>1, EmptySeq
<1>8. ASSUME NEW i \in 1..Len(r), Bound(r[i]) PROVE i < Len(r) /\ Opens(r[i], r[i + 1])
  <2>1. CASE i \in 1..m /\ r[i] = p[i]
    <3>1. i < m /\ Opens(p[i], p[i + 1])
      BY <1>8, <2>1 DEF WellFormed, m
    <3>2. i + 1 \in 1..m
      BY <1>1, <2>1, <3>1
    <3> QED
      BY <1>1, <1>2, <1>3, <2>1, <3>1, <3>2
  <2>2. CASE i - m \in 1..n /\ r[i] = q[i - m]
    <3>1. PICK j \in 1..n : j = i - m
      BY <2>2
    <3>2. j < n /\ Opens(q[j], q[j + 1])
      BY <1>8, <2>2, <3>1 DEF WellFormed, n
    <3>3. j + 1 \in 1..n /\ m + (j + 1) = i + 1 /\ i \in Nat
      BY <1>1, <1>2, <3>1, <3>2
    <3>4. r[i + 1] = q[j + 1]
      BY <1>4, <3>3
    <3>5. i < Len(r)
      BY <1>1, <1>2, <3>1, <3>2, <3>3
    <3> QED
      BY <2>2, <3>1, <3>2, <3>4, <3>5
  <2> QED
    BY <1>5, <2>1, <2>2
<1>9. ASSUME NEW i \in 2..Len(r), Inner(r[i]) PROVE Opens(r[i - 1], r[i])
  <2>0. i \in 1..Len(r) /\ i \in Nat
    BY <1>1, <1>2
  <2>1. CASE i \in 1..m /\ r[i] = p[i]
    <3>1. i \in 2..m /\ i - 1 \in 1..m
      BY <1>1, <2>0, <2>1
    <3> QED
      BY <1>3, <1>9, <2>1, <3>1 DEF WellFormed, m
  <2>2. CASE i - m \in 1..n /\ r[i] = q[i - m]
    <3>1. PICK j \in 1..n : j = i - m
      BY <2>2
    <3>2. j # 1
      BY <1>1, <1>9, <2>2, <3>1
    <3>3. j \in 2..n /\ j - 1 \in 1..n /\ m + (j - 1) = i - 1
      BY <1>1, <2>0, <3>1, <3>2
    <3>4. Opens(q[j - 1], q[j])
      BY <1>9, <2>2, <3>1, <3>3 DEF WellFormed, n
    <3> QED
      BY <1>4, <2>2, <3>1, <3>3, <3>4
  <2> QED
    BY <1>5, <2>0, <2>1, <2>2
<1> QED
  BY <1>2, <1>6, <1>7, <1>8, <1>9 DEF WellFormed, Joint, r

\* Every filter is told once.
Tells(S, step, x, q) ==
  /\ q \in Seq(S) /\ WellFormed(q)
  /\ \A y : Holds(q, y) => y[1] = step
  /\ \A f \in Existing : Holds(q, <<step, <<f, x>>>>)
  /\ \A i \in 1..Len(q) : q[i][1] = step

LEMMA EachTold ==
  ASSUME NEW S, exists \in Seq(Filter), NEW step, NEW x, step \in {"callback", "updated"},
         \A f \in Existing : <<step, <<f, x>>>> \in S
  PROVE  Tells(S, step, x, ForEach(step, x))
<1> DEFINE q == ForEach(step, x)
<1>1. Len(exists) \in Nat /\ Existing = {exists[i] : i \in 1..Len(exists)}
  BY LenProperties DEF Existing, ToSet
<1>2. q = [i \in 1..Len(exists) |-> <<step, <<exists[i], x>>>>]
  BY DEF ForEach
<1>3. \A i \in 1..Len(exists) : q[i] = <<step, <<exists[i], x>>>> /\ q[i] \in S /\ q[i][1] = step
  BY <1>1, <1>2
<1>4. q \in Seq(S) /\ Len(q) = Len(exists)
  BY <1>1, <1>2, <1>3
<1> HIDE DEF q
<1>5. \A a : a[1] = step => ~Bound(a) /\ ~Inner(a)
  BY DEF Bound, Inner
<1>6. WellFormed(q)
  <2>1. \A i \in 2..Len(q) : i \in 1..Len(exists)
    BY <1>1, <1>4
  <2> QED
    BY <1>3, <1>4, <1>5, <2>1 DEF WellFormed
<1>7. \A y : Holds(q, y) => y[1] = step
  BY <1>3, <1>4 DEF Holds
<1>8. \A f \in Existing : Holds(q, <<step, <<f, x>>>>)
  <2> SUFFICES ASSUME NEW i \in 1..Len(exists) PROVE Holds(q, <<step, <<exists[i], x>>>>)
    BY <1>1
  <2> QED
    BY <1>3, <1>4 DEF Holds
<1> QED
  BY <1>3, <1>4, <1>6, <1>7, <1>8 DEF q, Tells

-----------------------------------------------------------------------------
(* Who takes which step, and with what.                                    *)

LEMMA StepArguments ==
  ASSUME NEW t \in Thread, NEW step, NEW x, <<step, x>> \in Steps(t)
  PROVE  /\ step \in {"disable", "enable", "follow", "find", "current", "load", "tune",
                      "announce", "avs on", "avs off", "assign"} => t = User
         /\ step \in {"services", "attach", "clear", "callback", "updated", "rewrite",
                      "rewrite PMT"} => t = Input
         /\ step \in {"drop", "avs on", "avs off", "check", "add", "rewrite",
                      "rewrite PMT"} => x \in Existing
         /\ step = "assign" => x \in Existing \X (Service \cup {None})
         /\ step = "callback" => x \in Existing \X BOOLEAN
         /\ step = "updated" => x \in Existing \X Service
<1>1. t = User \/ t = Input
  BY DEF Thread
<1>2. CASE t = User
  <2>1. <<step, x>> \in UserSteps(Existing)
    BY <1>2 DEF Steps
  <2> QED
    BY <1>2, <2>1 DEF UserSteps
<1>3. CASE t = Input
  <2>1. <<step, x>> \in InputSteps(Existing)
    BY <1>3, TuningAssumption DEF Steps
  <2> QED
    BY <1>3, <2>1 DEF InputSteps
<1> QED
  BY <1>1, <1>2, <1>3

LEMMA StepsMade ==
  /\ \A t \in Thread, f \in Existing :
       {<<"drop", f>>, <<"check", f>>, <<"add", f>>} \subseteq Steps(t)
  /\ \A f \in Existing, s \in Service \cup {None} :
       {<<"assign", <<f, s>>>>, <<"avs on", f>>, <<"avs off", f>>} \subseteq Steps(User)
  /\ \A f \in Existing : {<<"rewrite", f>>, <<"rewrite PMT", f>>} \subseteq Steps(Input)
  /\ \A f \in Existing, b \in BOOLEAN : <<"callback", <<f, b>>>> \in Steps(Input)
  /\ \A f \in Existing, s \in Service : <<"updated", <<f, s>>>> \in Steps(Input)
  /\ {<<"services", None>>, <<"attach", None>>, <<"clear", None>>} \subseteq Steps(Input)
  /\ {<<"disable", None>>, <<"enable", None>>, <<"follow", None>>} \subseteq Steps(User)
  /\ \A s \in Service : {<<"find", s>>, <<"current", s>>} \subseteq Steps(User)
  /\ \A m \in Mux : {<<"load", m>>, <<"tune", m>>, <<"announce", m>>} \subseteq Steps(User)
<1>1. Steps(User) = UserSteps(Existing) /\ Steps(Input) = InputSteps(Existing)
  BY TuningAssumption DEF Steps
<1>2. \A t \in Thread : Steps(t) = Steps(User) \/ Steps(t) = Steps(Input)
  BY DEF Thread
<1>3. \A f \in Existing :
        /\ {<<"drop", f>>, <<"check", f>>, <<"add", f>>} \subseteq Steps(User)
        /\ {<<"avs on", f>>, <<"avs off", f>>} \subseteq Steps(User)
  BY <1>1 DEF UserSteps
<1>4. \A f \in Existing :
        /\ {<<"drop", f>>, <<"check", f>>, <<"add", f>>} \subseteq Steps(Input)
        /\ {<<"rewrite", f>>, <<"rewrite PMT", f>>} \subseteq Steps(Input)
  BY <1>1 DEF InputSteps
<1>5. \A f \in Existing, s \in Service \cup {None} : <<"assign", <<f, s>>>> \in Steps(User)
  BY <1>1 DEF UserSteps
<1>6. \A f \in Existing, b \in BOOLEAN : <<"callback", <<f, b>>>> \in Steps(Input)
  BY <1>1 DEF InputSteps
<1>7. \A f \in Existing, s \in Service : <<"updated", <<f, s>>>> \in Steps(Input)
  BY <1>1 DEF InputSteps
<1>8. {<<"services", None>>, <<"attach", None>>, <<"clear", None>>} \subseteq Steps(Input)
  BY <1>1 DEF InputSteps
<1>9. {<<"disable", None>>, <<"enable", None>>, <<"follow", None>>} \subseteq Steps(User)
  BY <1>1 DEF UserSteps
<1>10. \A s \in Service : {<<"find", s>>, <<"current", s>>} \subseteq Steps(User)
  BY <1>1 DEF UserSteps
<1>11. \A m \in Mux : {<<"load", m>>, <<"tune", m>>, <<"announce", m>>} \subseteq Steps(User)
  BY <1>1 DEF UserSteps
<1>12. \A t \in Thread, f \in Existing :
         {<<"drop", f>>, <<"check", f>>, <<"add", f>>} \subseteq Steps(t)
  BY <1>2, <1>3, <1>4
<1>13. \A f \in Existing, s \in Service \cup {None} :
         {<<"assign", <<f, s>>>>, <<"avs on", f>>, <<"avs off", f>>} \subseteq Steps(User)
  BY <1>3, <1>5
<1> QED
  BY <1>4, <1>6, <1>7, <1>8, <1>9, <1>10, <1>11, <1>12, <1>13

LEMMA DoingTyped ==
  ASSUME Typed, NEW t \in Thread, NEW step, NEW x, Doing(t, step, x)
  PROVE  <<step, x>> \in Steps(t)
<1>1. todo[t] \in Seq(Steps(t)) /\ todo[t] # <<>>
  BY CallsTyped DEF Doing, Idle
<1>2. Len(todo[t]) \in Nat /\ Len(todo[t]) # 0
  BY <1>1, EmptySeq
<1>3. Head(todo[t]) = todo[t][1] /\ todo[t][1] \in Steps(t)
  BY <1>1, <1>2
<1> QED
  BY <1>3 DEF Doing

\* What can be said of the calls after t has begun one.
Begun(t, new) ==
  /\ todo[t] = <<>> /\ todo'[t] = new
  /\ todo'[User] \in Seq(UserSteps(Existing)) /\ todo'[Input] \in Seq(InputSteps(Existing))
  /\ todo' = [o \in Thread |-> todo'[o]]
  /\ Formed'
  /\ \A o \in Thread \ {t} : todo'[o] = todo[o]
  /\ \A o \in Thread : \A y : Holds(todo[o], y) => Holds(todo'[o], y)
  /\ \A f : Coming(f) => Coming(f)'
  /\ \A o \in Thread \ {t} : \A f : Now(o, f)' <=> Now(o, f)
  /\ \A f : ~Now(t, f)

LEMMA Called ==
  ASSUME Typed, Formed, NEW t \in Thread, NEW new \in Seq(Steps(t)), Call(t, new),
         WellFormed(new)
  PROVE  Begun(t, new)
<1>1. todo[t] = <<>> /\ todo' = [todo EXCEPT ![t] = new]
  BY DEF Call, Idle
<1>2. todo = [o \in Thread |-> todo[o]]
  BY DEF Typed
<1>3. /\ todo'[t] = new /\ todo' = [o \in Thread |-> todo'[o]]
      /\ \A o \in Thread \ {t} : todo'[o] = todo[o]
  BY <1>1, <1>2
<1>4. \A o \in Thread : todo'[o] \in Seq(Steps(o)) /\ WellFormed(todo'[o])
  <2>1. \A o \in Thread : todo[o] \in Seq(Steps(o)) /\ WellFormed(todo[o])
    BY CallsTyped DEF Formed, Thread
  <2> QED
    BY <1>3, <2>1
<1>5. /\ todo'[User] \in Seq(UserSteps(Existing)) /\ todo'[Input] \in Seq(InputSteps(Existing))
      /\ Formed'
  BY <1>4, TuningAssumption DEF Thread, Steps, Formed
<1>6. \A o \in Thread : \A i \in 1..Len(todo[o]) : o # t
  BY <1>1
<1>7. \A o \in Thread : \A y : Holds(todo[o], y) => Holds(todo'[o], y)
  BY <1>3, <1>6 DEF Holds
<1>8. \A f : Coming(f) => Coming(f)'
  BY <1>3, <1>6 DEF Coming
<1>9. /\ \A o \in Thread \ {t} : \A f : Now(o, f)' <=> Now(o, f)
      /\ \A f : ~Now(t, f)
  BY <1>1, <1>3 DEF Now
<1> QED
  BY <1>1, <1>3, <1>5, <1>7, <1>8, <1>9 DEF Begun

-----------------------------------------------------------------------------
(* The steps of Tuning.                                                    *)

\* One that changes nothing but what is to be done, and the current service.
LEMMA PlainStep ==
  ASSUME IInv, NEW t \in Thread, NEW step, NEW x, NEW new, Effect(t, <<step, x>>, new),
         step \in {"disable", "enable", "find", "current", "follow"},
         new = <<>> \/ ~Inner(new[1]) \/ new[1][1] = "drop",
         ~Holds(new, <<"clear", None>>), currentService' \in Service \cup {None},
         UNCHANGED <<cached, currentMultiplex, changed, filters, tables, mixed, lost>>
  PROVE  IInv'
<1>1. /\ UNCHANGED <<exists, service, avsOnly, pids, chosen, patOf, pmtOf>>
      /\ UNCHANGED <<info, services, handles, heard>>
  BY DEF filters, tables
<1>2. /\ Unsettled => Unsettled'
      /\ CacheInStep' /\ HeardInCache' /\ ServicesInStep' /\ HandlesInStep'
  <2>1. new = <<>> \/ new[1][1] # "tune"
    BY DEF Inner
  <2> QED
    BY <1>1, <2>1, TablesKept
<1>3. ChosenInStep'
  BY <1>1, ChosenKept
<1>4. Blank' /\ TablesNamed'
  BY <1>1, FiltersKept
<1>5. OneRebuilds' /\ PidsInStep'
  BY <1>1, <1>2, PidsKept
<1>6. Typed'
  BY <1>1 DEF Effect, IInv, Typed, Existing
<1>7. Formed'
  BY DEF Effect
<1> QED
  BY <1>2, <1>3, <1>4, <1>5, <1>6, <1>7 DEF IInv

LEMMA EnableKeeps ==
  ASSUME IInv, NEW t \in Thread, Enable(t), UNCHANGED <<filters, tables, mixed, lost>>
  PROVE  IInv'
<1>1. PICK on \in BOOLEAN : /\ Doing(t, IF on THEN "enable" ELSE "disable", None)
                            /\ Then(t, <<>>)
                            /\ UNCHANGED <<currentService, currentMultiplex, cached, changed>>
  BY DEF Enable
<1>2. PICK step : step = IF on THEN "enable" ELSE "disable"
  OBVIOUS
<1>3. step \in {"disable", "enable"} /\ Doing(t, step, None)
  BY <1>1, <1>2
<1>4. <<>> \in Seq(Steps(t))
  OBVIOUS
<1>5. Effect(t, <<step, None>>, <<>>)
  BY <1>1, <1>3, <1>4, NoSteps, Stepped DEF IInv
<1>6. currentService' \in Service \cup {None}
  BY <1>1 DEF IInv, Typed
<1> QED
  BY <1>1, <1>3, <1>5, <1>6, NoSteps, PlainStep

\* Only the decoders change, if anything.
LEMMA OnlyHandlesChange ==
  ASSUME IInv,
         UNCHANGED <<todo, currentService, currentMultiplex, cached, changed, filters, info,
                     services, heard, mixed, lost>>,
         handles' \subseteq Service, HandlesInStep'
  PROVE  IInv'
<1>1. UNCHANGED <<exists, service, avsOnly, pids, chosen, patOf, pmtOf>>
  BY DEF filters
<1>2. Typed' /\ Formed' /\ Blank'
  BY <1>1 DEF IInv, Typed, Formed, Blank, Existing
<1>3. /\ Unsettled' <=> Unsettled
      /\ \A f : Coming(f)' <=> Coming(f)
      /\ \A t, f : Now(t, f)' <=> Now(t, f)
  BY DEF Unsettled, Coming, Now
<1>4. CacheInStep' /\ HeardInCache' /\ ServicesInStep'
  BY <1>1, <1>3 DEF IInv, CacheInStep, TuneNext, HeardInCache, ServicesInStep, ServicesOf
<1>5. TablesNamed' /\ ChosenInStep' /\ OneRebuilds'
  BY <1>1, <1>3 DEF IInv, TablesNamed, TableNamed, ChosenInStep, ChosenWell, OneRebuilds, Existing
<1>6. \A f : Wanted(f)' = Wanted(f)
  BY <1>1 DEF Wanted, PidsOf, PidPAT, PidPMT
<1>7. PidsInStep'
  BY <1>1, <1>3, <1>6 DEF IInv, PidsInStep, Emptied, Fits, Existing
<1> QED
  BY <1>2, <1>4, <1>5, <1>7 DEF IInv

\* Nothing that the invariant speaks of changes.
LEMMA NothingChanges ==
  ASSUME IInv,
         UNCHANGED <<todo, currentService, currentMultiplex, cached, changed, filters, tables,
                     mixed, lost>>
  PROVE  IInv'
<1>1. UNCHANGED <<info, services, handles, heard>>
  BY DEF tables
<1>2. Unsettled' <=> Unsettled
  BY DEF Unsettled
<1>3. HandlesInStep' /\ handles' \subseteq Service
  BY <1>1, <1>2 DEF IInv, Typed, HandlesInStep, ServicesOf
<1> QED
  BY <1>1, <1>3, OnlyHandlesChange

LEMMA NoOpening ==
  ASSUME NEW step, NEW x, NEW b,
         step \notin {"drop", "assign", "rewrite", "rewrite PMT", "load", "tune", "services"}
  PROVE  ~Opens(<<step, x>>, b)
<1> DEFINE a == <<step, x>>
<1>1. a[1] = step
  OBVIOUS
<1> HIDE DEF a
<1>2. ~Opens(a, b)
  BY <1>1 DEF Opens
<1> QED
  BY <1>2 DEF a

LEMMA FindKeeps ==
  ASSUME IInv, NEW t \in Thread, FindMultiplex(t), UNCHANGED <<filters, tables, mixed, lost>>
  PROVE  IInv'
<1>1. PICK s \in Service :
        /\ Doing(t, "find", s)
        /\ \/ MuxOf[s] \notin rows /\ Crash(t)
           \/ /\ Then(t, (IF currentMultiplex = MuxOf[s] THEN <<>> ELSE TuneSteps(MuxOf[s]))
                           \o <<<<"current", s>>, <<"follow", None>>, <<"enable", None>>>>)
              /\ UNCHANGED <<currentService, currentMultiplex, cached, changed>>
  BY DEF FindMultiplex
<1>2. CASE Crash(t)
  BY <1>2, NothingChanges DEF Crash
<1>3. ASSUME NEW p, p = IF currentMultiplex = MuxOf[s] THEN <<>> ELSE TuneSteps(MuxOf[s]),
             NEW q, q = <<<<"current", s>>, <<"follow", None>>, <<"enable", None>>>>,
             Then(t, p \o q),
             UNCHANGED <<currentService, currentMultiplex, cached, changed>>
      PROVE  IInv'
  <2>1. t = User
    BY <1>1, DoingTyped, StepArguments DEF IInv
  <2>2. MuxOf[s] \in Mux
    BY TuningAssumption
  <2>3. p \in Seq(Steps(t)) /\ WellFormed(p) /\ ~Holds(p, <<"clear", None>>)
        /\ (p # <<>> => p[1] = <<"load", MuxOf[s]>>)
    <3>1. CASE p = <<>>
      BY <3>1, NoSteps
    <3>2. CASE p = TuneSteps(MuxOf[s])
      <4>1. PICK a, b, c : /\ a = <<"load", MuxOf[s]>> /\ b = <<"tune", MuxOf[s]>>
                           /\ c = <<"announce", MuxOf[s]>>
        OBVIOUS
      <4>2. p = <<a, b, c>>
        BY <3>2, <4>1 DEF TuneSteps
      <4>3. {a, b, c} \subseteq Steps(t)
        BY <2>1, <2>2, <4>1, StepsMade
      <4>4. Bound(a) /\ Bound(b) /\ ~Bound(c) /\ Opens(a, b) /\ Opens(b, c)
        BY <4>1 DEF Bound, Opens
      <4>5. WellFormed(p) /\ \A y : Holds(p, y) => y \in {a, b, c}
        BY <4>2, <4>4, ThreeSteps
      <4>6. p \in Seq(Steps(t))
        BY <4>2, <4>3
      <4>7. p[1] = a
        BY <4>2
      <4>8. <<"clear", None>> \notin {a, b, c}
        BY <4>1
      <4> QED
        BY <4>1, <4>5, <4>6, <4>7, <4>8
    <3> QED
      BY <1>3, <3>1, <3>2
  <2>4. /\ q \in Seq(Steps(t)) /\ WellFormed(q) /\ ~Holds(q, <<"clear", None>>)
        /\ q # <<>> /\ q[1] = <<"current", s>>
    <3>1. PICK a, b, c : /\ a = <<"current", s>> /\ b = <<"follow", None>>
                         /\ c = <<"enable", None>>
      OBVIOUS
    <3>2. q = <<a, b, c>>
      BY <1>3, <3>1
    <3>3. {a, b, c} \subseteq Steps(t)
      BY <2>1, <3>1, StepsMade
    <3>4. ~Bound(a) /\ ~Bound(b) /\ ~Bound(c) /\ ~Inner(b) /\ ~Inner(c)
      BY <3>1 DEF Bound, Inner
    <3>5. WellFormed(q) /\ \A y : Holds(q, y) => y \in {a, b, c}
      BY <3>2, <3>4, ThreeSteps
    <3>6. q \in Seq(Steps(t)) /\ q[1] = a /\ q # <<>>
      BY <3>2, <3>3
    <3>7. <<"clear", None>> \notin {a, b, c}
      BY <3>1
    <3> QED
      BY <3>1, <3>5, <3>6, <3>7
  <2>5. ~Inner(<<"current", s>>) /\ ~Inner(<<"load", MuxOf[s]>>)
    BY DEF Inner
  <2>6. /\ p \o q \in Seq(Steps(t)) /\ WellFormed(p \o q) /\ ~Holds(p \o q, <<"clear", None>>)
        /\ p # <<>> => (p \o q)[1] = p[1]
    <3>1. Joint(Steps(t), p, q, p \o q)
      BY <2>3, <2>4, <2>5, Joined
    <3> QED
      BY <2>3, <2>4, <3>1 DEF Joint
  <2>7. p = <<>> => (p \o q)[1] = q[1]
    BY <2>4
  <2>8. \A b : ~Opens(<<"find", s>>, b)
    BY NoOpening
  <2>9. PICK new : new = p \o q
    OBVIOUS
  <2>10. Effect(t, <<"find", s>>, new)
    BY <1>1, <1>3, <2>6, <2>8, <2>9, Stepped DEF IInv
  <2>11. ~Inner(new[1])
    BY <2>3, <2>4, <2>5, <2>6, <2>7, <2>9
  <2>12. currentService' \in Service \cup {None}
    BY <1>3 DEF IInv, Typed
  <2> QED
    BY <1>3, <2>6, <2>9, <2>10, <2>11, <2>12, PlainStep
<1> QED
  BY <1>1, <1>2, <1>3

LEMMA SetCurrentKeeps ==
  ASSUME IInv, NEW t \in Thread, SetCurrent(t), UNCHANGED <<filters, tables, mixed, lost>>
  PROVE  IInv'
<1>1. PICK s \in Service : /\ Doing(t, "current", s) /\ Then(t, <<>>)
                           /\ currentService' = IF cached = MuxOf[s] THEN s ELSE None
                           /\ UNCHANGED <<currentMultiplex, cached, changed>>
  BY DEF SetCurrent
<1>2. <<>> \in Seq(Steps(t))
  OBVIOUS
<1>3. Effect(t, <<"current", s>>, <<>>)
  BY <1>1, <1>2, NoSteps, Stepped DEF IInv
<1>4. currentService' \in Service \cup {None}
  BY <1>1
<1> QED
  BY <1>1, <1>3, <1>4, NoSteps, PlainStep

\* What a new service of a filter makes of a call.
Given(q, S, f) ==
  /\ q \in Seq(S) /\ WellFormed(q) /\ ~Holds(q, <<"clear", None>>)
  /\ q # <<>> /\ q[1] = <<"drop", f>>

LEMMA ServiceIsGiven ==
  ASSUME NEW f \in Existing, NEW s \in Service \cup {None}
  PROVE  Given(ServiceSetSteps(f, s), Steps(User), f)
<1>1. PICK a, b, c : a = <<"drop", f>> /\ b = <<"assign", <<f, s>>>> /\ c = <<"check", f>>
  OBVIOUS
<1>2. {a, b, c} \subseteq Steps(User) /\ <<"clear", None>> \notin {a, b, c}
  <2>1. User \in Thread
    BY DEF Thread
  <2> QED
    BY <1>1, <2>1, StepsMade
<1>3. Opens(a, b) /\ Bound(a) /\ ~Bound(c)
  BY <1>1 DEF Opens, Bound
<1>4. CASE s = None
  <2>1. ServiceSetSteps(f, s) = <<a, b>>
    BY <1>1, <1>4 DEF ServiceSetSteps
  <2>2. ~Bound(b)
    BY <1>1, <1>4 DEF Bound
  <2>3. WellFormed(<<a, b>>) /\ \A y : Holds(<<a, b>>, y) => y \in {a, b}
    BY <1>3, <2>2, TwoSteps
  <2>4. <<a, b>> \in Seq(Steps(User)) /\ <<a, b>>[1] = a /\ <<a, b>> # <<>>
    BY <1>2
  <2> QED
    BY <1>1, <1>2, <2>1, <2>3, <2>4 DEF Given
<1>5. CASE s # None
  <2>1. ServiceSetSteps(f, s) = <<a, b, c>>
    BY <1>1, <1>5 DEF ServiceSetSteps
  <2>2. Opens(b, c)
    BY <1>1, <1>5 DEF Opens
  <2>3. WellFormed(<<a, b, c>>) /\ \A y : Holds(<<a, b, c>>, y) => y \in {a, b, c}
    BY <1>3, <2>2, ThreeSteps
  <2>4. <<a, b, c>> \in Seq(Steps(User)) /\ <<a, b, c>>[1] = a /\ <<a, b, c>> # <<>>
    BY <1>2
  <2> QED
    BY <1>1, <1>2, <2>1, <2>3, <2>4 DEF Given
<1> QED
  BY <1>4, <1>5

LEMMA FollowKeeps ==
  ASSUME IInv, NEW t \in Thread, Follow(t)
  PROVE  IInv'
<1>1. /\ Doing(t, "follow", None) /\ Then(t, ServiceSetSteps(Primary, currentService))
      /\ UNCHANGED <<currentService, currentMultiplex, cached, changed, filters, tables, mixed,
                     lost>>
  BY DEF Follow
<1>2. t = User
  BY <1>1, DoingTyped, StepArguments DEF IInv
<1>3. PICK new : new = ServiceSetSteps(Primary, currentService)
  OBVIOUS
<1>4. Given(new, Steps(t), Primary)
  BY <1>2, <1>3, ServiceIsGiven DEF IInv, Typed
<1>5. \A b : ~Opens(<<"follow", None>>, b)
  BY NoOpening
<1>6. Effect(t, <<"follow", None>>, new)
  BY <1>1, <1>3, <1>4, <1>5, Stepped DEF IInv, Given
<1>7. currentService' \in Service \cup {None}
  BY <1>1 DEF IInv, Typed
<1>8. new[1][1] = "drop" /\ ~Holds(new, <<"clear", None>>)
  BY <1>4 DEF Given
<1> QED
  BY <1>1, <1>6, <1>7, <1>8, PlainStep

LEMMA TuneAnnounces ==
  ASSUME NEW S, NEW q \in Seq(S), WellFormed(q), q # <<>>, NEW m, q[1] = <<"tune", m>>
  PROVE  Holds(q, <<"announce", m>>)
<1>1. Len(q) \in Nat /\ Len(q) # 0
  BY EmptySeq
<1>2. 1 \in 1..Len(q) /\ Bound(q[1])
  BY <1>1 DEF Bound
<1>3. 1 < Len(q) /\ Opens(q[1], q[2])
  BY <1>2 DEF WellFormed
<1>4. q[2] = <<"announce", m>> /\ 2 \in 1..Len(q)
  BY <1>1, <1>3 DEF Opens
<1> QED
  BY <1>4 DEF Holds

LEMMA LoadKeeps ==
  ASSUME IInv, NEW t \in Thread, LoadCache(t), heard' = {},
         UNCHANGED <<filters, info, services, handles, mixed, lost>>
  PROVE  IInv'
<1>1. PICK m \in Mux : /\ Doing(t, "load", m) /\ Then(t, <<>>) /\ cached' = m
                       /\ UNCHANGED <<currentService, currentMultiplex, changed>>
  BY DEF LoadCache
<1>2. t = User
  BY <1>1, DoingTyped, StepArguments DEF IInv
<1>3. <<>> \in Seq(Steps(t))
  OBVIOUS
<1>4. Effect(t, <<"load", m>>, <<>>)
  BY <1>1, <1>3, NoSteps, Stepped DEF IInv
<1>5. UNCHANGED <<exists, service, avsOnly, pids, chosen, patOf, pmtOf>>
  BY DEF filters
<1>6. todo'[User] # <<>> /\ todo'[User][1] = <<"tune", m>>
  <2>1. Bound(<<"load", m>>)
    BY DEF Bound
  <2>2. todo'[User] # <<>> /\ Opens(<<"load", m>>, todo'[User][1])
    BY <1>2, <1>4, <2>1 DEF Effect
  <2> QED
    BY <2>2 DEF Opens
<1>7. Holds(todo'[User], <<"announce", m>>)
  BY <1>4, <1>6, TuneAnnounces DEF Effect, Formed
<1>8. Unsettled'
  BY <1>7 DEF Unsettled
<1>9. CacheInStep' /\ HeardInCache'
  BY <1>1, <1>6 DEF CacheInStep, TuneNext, HeardInCache
<1>10. ServicesInStep' /\ HandlesInStep'
  BY <1>8 DEF ServicesInStep, HandlesInStep
<1>11. Blank' /\ TablesNamed'
  BY <1>5, FiltersKept
<1>12. ChosenInStep'
  BY DEF ChosenInStep, ChosenWell
<1>13. OneRebuilds' /\ PidsInStep'
  BY <1>1, <1>4, <1>5, <1>8, PidsKept
<1>14. Typed' /\ Formed'
  BY <1>1, <1>4, <1>5 DEF Effect, IInv, Typed, Existing
<1> QED
  BY <1>8, <1>9, <1>10, <1>11, <1>12, <1>13, <1>14 DEF IInv

LEMMA TuneKeeps ==
  ASSUME IInv, NEW t \in Thread, TuneMultiplex(t), UNCHANGED <<filters, tables, mixed, lost>>
  PROVE  IInv'
<1>1. PICK m \in Mux : /\ Doing(t, "tune", m) /\ Then(t, <<>>) /\ currentMultiplex' = m
                       /\ UNCHANGED <<currentService, cached, changed>>
  BY DEF TuneMultiplex
<1>2. t = User
  BY <1>1, DoingTyped, StepArguments DEF IInv
<1>3. <<>> \in Seq(Steps(t))
  OBVIOUS
<1>4. Effect(t, <<"tune", m>>, <<>>)
  BY <1>1, <1>3, NoSteps, Stepped DEF IInv
<1>5. /\ UNCHANGED <<exists, service, avsOnly, pids, chosen, patOf, pmtOf>>
      /\ UNCHANGED <<info, services, handles, heard>>
  BY DEF filters, tables
<1>6. todo'[User] # <<>> /\ todo'[User][1] = <<"announce", m>>
  <2>1. Bound(<<"tune", m>>)
    BY DEF Bound
  <2>2. todo'[User] # <<>> /\ Opens(<<"tune", m>>, todo'[User][1])
    BY <1>2, <1>4, <2>1 DEF Effect
  <2> QED
    BY <2>2 DEF Opens
<1>7. Holds(todo'[User], <<"announce", m>>)
  <2>1. Len(todo'[User]) \in Nat /\ Len(todo'[User]) # 0
    BY <1>4, <1>6, EmptySeq DEF Effect
  <2>2. 1 \in 1..Len(todo'[User])
    BY <2>1
  <2> QED
    BY <1>6, <2>2 DEF Holds
<1>8. Unsettled'
  BY <1>7 DEF Unsettled
<1>9. CacheInStep' /\ HeardInCache'
  <2>1. cached = m
    BY <1>2, <1>4 DEF Effect, IInv, CacheInStep, TuneNext
  <2>2. ~TuneNext'
    BY <1>6 DEF TuneNext
  <2> QED
    BY <1>1, <1>5, <2>1, <2>2 DEF IInv, CacheInStep, HeardInCache, ServicesOf
<1>10. ServicesInStep' /\ HandlesInStep'
  BY <1>8 DEF ServicesInStep, HandlesInStep
<1>11. Blank' /\ TablesNamed'
  BY <1>5, FiltersKept
<1>12. ChosenInStep'
  <2>1. UNCHANGED <<exists, service, avsOnly, chosen, info, heard>>
    BY <1>5
  <2>2. PICK step : step = "tune"
    OBVIOUS
  <2>3. Effect(t, <<step, m>>, <<>>) /\ step \notin {"updated", "rewrite PMT"}
    BY <1>4, <2>2
  <2> QED
    BY <2>1, <2>3, ChosenKept
<1>13. OneRebuilds'
  BY <1>1, <1>4, NobodyChanges
<1>14. PidsInStep'
  BY <1>8 DEF PidsInStep
<1>15. Typed' /\ Formed'
  BY <1>1, <1>4, <1>5 DEF Effect, IInv, Typed, Existing
<1> QED
  BY <1>9, <1>10, <1>11, <1>12, <1>13, <1>14, <1>15 DEF IInv

LEMMA AnnounceKeeps ==
  ASSUME IInv, NEW t \in Thread, Announce(t),
         lost' = (lost \/ \E i \in 1..Len(todo[Input]) : todo[Input][i][1] = "clear"),
         UNCHANGED <<filters, tables, mixed>>
  PROVE  IInv'
<1>1. PICK m \in Mux : /\ Doing(t, "announce", m) /\ Then(t, <<>>) /\ changed' = TRUE
                       /\ UNCHANGED <<currentService, currentMultiplex, cached>>
  BY DEF Announce
<1>2. t = User
  BY <1>1, DoingTyped, StepArguments DEF IInv
<1>3. <<>> \in Seq(Steps(t))
  OBVIOUS
<1>4. Effect(t, <<"announce", m>>, <<>>)
  BY <1>1, <1>3, NoSteps, Stepped DEF IInv
<1>5. /\ UNCHANGED <<exists, service, avsOnly, pids, chosen, patOf, pmtOf>>
      /\ UNCHANGED <<info, services, handles, heard>>
  BY DEF filters, tables
<1>6. todo'[Input] = todo[Input]
  BY <1>2, <1>4, TuningAssumption DEF Effect, Thread
<1>7. Unsettled'
  <2>1. CASE \E i \in 1..Len(todo[Input]) : todo[Input][i][1] = "clear"
    <3>1. lost'
      BY <2>1
    <3> QED
      BY <3>1 DEF Unsettled
  <2>2. CASE ~\E i \in 1..Len(todo[Input]) : todo[Input][i][1] = "clear"
    <3>1. ~Holds(todo'[Input], <<"clear", None>>)
      BY <1>6, <2>2 DEF Holds
    <3> QED
      BY <1>1, <3>1 DEF Unsettled
  <2> QED
    BY <2>1, <2>2
<1>8. CacheInStep'
  BY <1>1, <1>4, CacheKept
<1>9. HeardInCache'
  BY <1>1, <1>5 DEF IInv, HeardInCache, ServicesOf
<1>10. ServicesInStep' /\ HandlesInStep'
  BY <1>7 DEF ServicesInStep, HandlesInStep
<1>11. Blank' /\ TablesNamed'
  BY <1>5, FiltersKept
<1>12. ChosenInStep'
  <2>1. UNCHANGED <<exists, service, avsOnly, chosen, info, heard>>
    BY <1>5
  <2>2. PICK step : step = "announce"
    OBVIOUS
  <2>3. Effect(t, <<step, m>>, <<>>) /\ step \notin {"updated", "rewrite PMT"}
    BY <1>4, <2>2
  <2> QED
    BY <2>1, <2>3, ChosenKept
<1>13. OneRebuilds' /\ PidsInStep'
  BY <1>1, <1>4, <1>5, <1>7, PidsKept
<1>14. Typed' /\ Formed'
  BY <1>1, <1>4, <1>5 DEF Effect, IInv, Typed, Existing
<1> QED
  BY <1>8, <1>9, <1>10, <1>11, <1>12, <1>13, <1>14 DEF IInv

-----------------------------------------------------------------------------
(* The steps of rebuilding a filter.                                       *)

\* What the other filters have chosen is not concerned.
OthersChosen(first, f) ==
  \A g \in Existing \ {f} :
    /\ service'[g] = service[g] /\ avsOnly'[g] = avsOnly[g] /\ chosen'[g] = chosen[g]
    /\ first # <<"updated", <<g, service[g]>>>> /\ first # <<"rewrite PMT", g>>

LEMMA ChosenOfOne ==
  ASSUME IInv, NEW t \in Thread, NEW first, NEW new, Effect(t, first, new), NEW f \in Existing,
         UNCHANGED <<exists, info, heard>>,
         OthersChosen(first, f),
         ChosenWell(f)'
  PROVE  ChosenInStep'
<1> SUFFICES ASSUME NEW g \in Existing, g # f, avsOnly[g] /\ service[g] \in heard
             PROVE  \/ chosen[g] = info[service[g]] \cap FirstOfKind
                    \/ Holds(todo'[Input], <<"updated", <<g, service[g]>>>>)
                    \/ Holds(todo'[Input], <<"rewrite PMT", g>>)
  BY DEF ChosenInStep, ChosenWell, OthersChosen, Existing
<1>1. Input \in Thread
  BY DEF Thread
<1>2. \A y : y # first /\ Holds(todo[Input], y) => Holds(todo'[Input], y)
  BY <1>1 DEF Effect
<1>3. \/ chosen[g] = info[service[g]] \cap FirstOfKind
      \/ Holds(todo[Input], <<"updated", <<g, service[g]>>>>)
      \/ Holds(todo[Input], <<"rewrite PMT", g>>)
  BY DEF IInv, ChosenInStep, ChosenWell
<1> QED
  BY <1>2, <1>3 DEF OthersChosen

\* What a filter chooses from the program info is right as long as its service
\* has been heard.
LEMMA ChosenFromCache ==
  ASSUME IInv, NEW s \in heard
  PROVE  ProgramInfo(s) \cap FirstOfKind = info[s] \cap FirstOfKind
  BY DEF IInv, HeardInCache, ServicesOf, ProgramInfo

LEMMA OpensCheck ==
  ASSUME NEW step, NEW x, NEW b, Opens(<<step, x>>, b)
  PROVE  /\ step \in {"rewrite", "rewrite PMT"} => b = <<"check", x>>
         /\ step = "assign" => b = <<"check", x[1]>>
         /\ step \notin {"avs on", "avs off", "check", "add"}
<1> DEFINE a == <<step, x>>
<1>1. a[1] = step /\ a[2] = x /\ Opens(a, b)
  OBVIOUS
<1> HIDE DEF a
<1> QED
  BY <1>1 DEF Opens


\* A step of rebuilding f that leaves its PIDs, and the other filters.
OnlyFilter(f) ==
  /\ UNCHANGED <<currentService, currentMultiplex, cached, changed, exists, pids, tables,
                 mixed, lost>>
  /\ service' \in [Filter -> Service \cup {None}] /\ avsOnly' \in [Filter -> BOOLEAN]
  /\ chosen' \in [Filter -> SUBSET Stream] /\ patOf' \in [Filter -> Service \cup {None}]
  /\ pmtOf' \in [Filter -> Service \cup {None}]
  /\ \A g \in Filter \ {f} :
       /\ service'[g] = service[g] /\ avsOnly'[g] = avsOnly[g] /\ chosen'[g] = chosen[g]
       /\ patOf'[g] = patOf[g] /\ pmtOf'[g] = pmtOf[g]

\* What must be so of f after it.
Ready(t, f) ==
  /\ TableNamed(f)' /\ ChosenWell(f)'
  /\ (Now(t, f)' /\ todo'[t][1] = <<"add", f>>)
       => service'[f] # None /\ MuxOf[service'[f]] = currentMultiplex
  /\ ~Now(t, f)' => Wanted(f)' = {}

LEMMA OneFilterStep ==
  ASSUME IInv, NEW t \in Thread, NEW step, NEW x, NEW new, Effect(t, <<step, x>>, new),
         NEW f \in Existing, About(<<step, x>>, f), OnlyFilter(f), Ready(t, f),
         new = <<>> \/ new = <<<<"check", f>>>> \/ new = <<<<"add", f>>>>
  PROVE  IInv'
<1>1. UNCHANGED <<info, services, handles, heard>>
  BY DEF tables, OnlyFilter
<1>2. Existing \subseteq Filter
  BY ExistingFilters DEF IInv
<1>3. step \in {"avs on", "avs off", "rewrite", "rewrite PMT", "check", "add", "assign"}
  BY DEF About
<1>4. /\ ~Holds(new, <<"clear", None>>) /\ (new = <<>> \/ new[1][1] # "tune")
      /\ new # <<>> => About(new[1], f)
  <2>1. CASE new = <<>>
    BY <2>1, NoSteps
  <2>2. ASSUME NEW k \in {"check", "add"}, new = <<<<k, f>>>>
        PROVE  /\ ~Holds(new, <<"clear", None>>) /\ (new = <<>> \/ new[1][1] # "tune")
               /\ new # <<>> => About(new[1], f)
    <3>1. new[1] = <<k, f>>
      BY <2>2
    <3>2. About(<<k, f>>, f) /\ ~Bound(<<k, f>>)
      BY DEF About, Bound
    <3>3. \A y : Holds(new, y) => y = <<k, f>>
      BY <2>2, <3>2, OneStep
    <3>4. k # "clear" /\ k # "tune"
      OBVIOUS
    <3>5. <<"clear", None>> # <<k, f>> /\ new[1][1] # "tune"
      BY <3>1, <3>4
    <3> QED
      BY <3>1, <3>2, <3>3, <3>5
  <2>3. new = <<<<"check", f>>>> \/ new = <<<<"add", f>>>>
          => \E k \in {"check", "add"} : new = <<<<k, f>>>>
    OBVIOUS
  <2> QED
    BY <2>1, <2>2, <2>3
<1>5. /\ Unsettled => Unsettled'
      /\ CacheInStep' /\ HeardInCache' /\ ServicesInStep' /\ HandlesInStep'
  BY <1>1, <1>3, <1>4, TablesKept DEF OnlyFilter
<1>6. OneRebuilds' /\ PidsInStep'
  <2>1. Continues(t, f)
    BY DEF Continues, Emptied, OnlyFilter, Ready
  <2>2. UNCHANGED <<exists, info, currentMultiplex, mixed>>
    BY <1>1 DEF OnlyFilter
  <2>3. \A g \in Filter \ {f} : /\ service'[g] = service[g] /\ avsOnly'[g] = avsOnly[g]
                                /\ chosen'[g] = chosen[g] /\ pids'[g] = pids[g]
    BY DEF OnlyFilter
  <2> QED
    BY <1>4, <1>5, <2>1, <2>2, <2>3, RebuildKept
<1>7. ChosenInStep'
  <2>1. \A g \in Existing \ {f} : <<step, x>> # <<"updated", <<g, service[g]>>>>
    BY <1>3
  <2>2. \A g \in Existing \ {f} : <<step, x>> # <<"rewrite PMT", g>>
    BY DEF About
  <2>3. PICK first : first = <<step, x>>
    OBVIOUS
  <2>4. OthersChosen(first, f)
    BY <1>2, <2>1, <2>2, <2>3 DEF OthersChosen, OnlyFilter
  <2>5. Effect(t, first, new)
    BY <2>3
  <2> QED
    <3>1. UNCHANGED <<exists, info, heard>> /\ ChosenWell(f)'
      BY <1>1 DEF OnlyFilter, Ready
    <3> QED
      BY <2>4, <2>5, <3>1, ChosenOfOne
<1>8. Typed' /\ Formed'
  BY <1>1 DEF OnlyFilter, Effect, IInv, Typed, Existing
<1>9. Blank'
  BY <1>2 DEF OnlyFilter, IInv, Blank, Existing
<1>10. TablesNamed'
  BY DEF OnlyFilter, Ready, TableNamed, IInv, TablesNamed
<1> QED
  BY <1>5, <1>6, <1>7, <1>8, <1>9, <1>10 DEF IInv

LEMMA AssignKeeps ==
  ASSUME IInv, NEW t \in Thread, Assign(t)
  PROVE  IInv'
<1>1. PICK f \in Filter, s \in Service \cup {None} :
        /\ Doing(t, "assign", <<f, s>>)
        /\ service' = [service EXCEPT ![f] = s]
        /\ IF s # None THEN RewritePAT(f, s) ELSE UNCHANGED patOf
        /\ IF s # None /\ avsOnly[f] THEN RewritePMT(f, s) ELSE UNCHANGED <<chosen, pmtOf>>
        /\ Then(t, <<>>)
        /\ UNCHANGED avsOnly
        /\ OnlyTables
  BY DEF Assign
<1>2. f \in Existing
  <2>1. PICK x : x = <<f, s>>
    OBVIOUS
  <2>2. <<"assign", x>> \in Steps(t)
    BY <1>1, <2>1, DoingTyped DEF IInv
  <2>3. x \in Existing \X (Service \cup {None})
    BY <2>2, StepArguments
  <2> QED
    BY <2>1, <2>3
<1>3. Effect(t, <<"assign", <<f, s>>>>, <<>>)
  <2>1. <<>> \in Seq(Steps(t))
    OBVIOUS
  <2> QED
    BY <1>1, <2>1, NoSteps, Stepped DEF IInv
<1>4. About(<<"assign", <<f, s>>>>, f)
  BY DEF About
<1>5. /\ service \in [Filter -> Service \cup {None}] /\ avsOnly \in [Filter -> BOOLEAN]
      /\ chosen \in [Filter -> SUBSET Stream] /\ patOf \in [Filter -> Service \cup {None}]
      /\ pmtOf \in [Filter -> Service \cup {None}]
  BY DEF IInv, Typed
<1>6. OnlyFilter(f)
  <2>1. UNCHANGED <<currentService, currentMultiplex, cached, changed, exists, pids, tables,
                    mixed, lost>>
    BY <1>1 DEF OnlyTables
  <2>2. CASE s # None /\ avsOnly[f]
    <3>1. ProgramInfo(s) \cap FirstOfKind \in SUBSET Stream
      BY FiltersAssumption
    <3> QED
      BY <1>1, <1>5, <2>1, <2>2, <3>1 DEF OnlyFilter, RewritePAT, RewritePMT
  <2>3. CASE ~(s # None /\ avsOnly[f])
    BY <1>1, <1>5, <2>1, <2>3 DEF OnlyFilter, RewritePAT
  <2> QED
    BY <2>2, <2>3
<1>7. service'[f] = s /\ avsOnly'[f] = avsOnly[f]
  BY <1>1, <1>5
<1>8. TableNamed(f)'
  <2>1. s # None => patOf'[f] = s /\ (avsOnly[f] => pmtOf'[f] = s)
    BY <1>1, <1>5 DEF RewritePAT, RewritePMT
  <2> QED
    BY <1>7, <2>1 DEF TableNamed
<1>9. ChosenWell(f)'
  <2>1. info' = info /\ heard' = heard
    BY <1>1 DEF OnlyTables, tables
  <2>2. ASSUME avsOnly[f], s \in heard PROVE chosen'[f] = info[s] \cap FirstOfKind
    <3>1. s # None
      BY <2>2, TuningAssumption DEF IInv, Typed
    <3>2. chosen'[f] = ProgramInfo(s) \cap FirstOfKind
      BY <1>1, <1>5, <2>2, <3>1 DEF RewritePMT
    <3> QED
      BY <2>2, <3>2, ChosenFromCache
  <2> QED
    BY <1>7, <2>1, <2>2 DEF ChosenWell
<1>10. Now(t, f)' => todo'[t][1] = <<"check", f>>
  <2> SUFFICES ASSUME Now(t, f)' PROVE todo'[t][1] = <<"check", f>>
    OBVIOUS
  <2>1. PICK x : x = <<f, s>>
    OBVIOUS
  <2>2. Opens(<<"assign", x>>, todo'[t][1])
    BY <1>3, <2>1 DEF Effect
  <2>3. todo'[t][1] = <<"check", x[1]>>
    BY <2>2, OpensCheck
  <2> QED
    BY <2>1, <2>3
<1>11. ~Now(t, f)' => s = None
  <2> SUFFICES ASSUME s # None PROVE Now(t, f)'
    OBVIOUS
  <2>1. Bound(<<"assign", <<f, s>>>>)
    BY DEF Bound
  <2>2. todo'[t] # <<>> /\ Opens(<<"assign", <<f, s>>>>, todo'[t][1])
    BY <1>3, <2>1 DEF Effect
  <2>3. todo'[t][1] = <<"check", f>>
    BY <2>2, OpensCheck
  <2> QED
    BY <2>2, <2>3 DEF Now, About
<1>12. Ready(t, f)
  BY <1>7, <1>8, <1>9, <1>10, <1>11 DEF Ready, Wanted
<1> QED
  BY <1>2, <1>3, <1>4, <1>6, <1>12, OneFilterStep

LEMMA AssignAVSOnlyKeeps ==
  ASSUME IInv, NEW t \in Thread, AssignAVSOnly(t)
  PROVE  IInv'
<1>1. PICK f \in Filter, on \in BOOLEAN :
        /\ Doing(t, IF on THEN "avs on" ELSE "avs off", f)
        /\ avsOnly' = [avsOnly EXCEPT ![f] = on]
        /\ IF service[f] # None /\ on THEN RewritePMT(f, service[f])
           ELSE UNCHANGED <<chosen, pmtOf>>
        /\ Then(t, IF service[f] = None THEN <<>> ELSE <<<<"check", f>>>>)
        /\ UNCHANGED <<service, patOf>>
        /\ OnlyTables
  BY DEF AssignAVSOnly
<1>2. PICK step : step = IF on THEN "avs on" ELSE "avs off"
  OBVIOUS
<1>3. step \in {"avs on", "avs off"} /\ Doing(t, step, f)
  BY <1>1, <1>2
<1>4. f \in Existing
  BY <1>3, DoingTyped, StepArguments DEF IInv
<1>5. PICK new : new = IF service[f] = None THEN <<>> ELSE <<<<"check", f>>>>
  OBVIOUS
<1>6. new \in Seq(Steps(t)) /\ WellFormed(new)
  <2>1. CASE new = <<>>
    BY <2>1, NoSteps
  <2>2. CASE new = <<<<"check", f>>>>
    <3>1. <<"check", f>> \in Steps(t) /\ ~Bound(<<"check", f>>)
      BY <1>4, StepsMade DEF Bound
    <3> QED
      BY <2>2, <3>1, OneStep
  <2> QED
    BY <1>5, <2>1, <2>2
<1>7. \A b : ~Opens(<<step, f>>, b)
  BY <1>3, NoOpening
<1>8. Effect(t, <<step, f>>, new)
  BY <1>1, <1>3, <1>5, <1>6, <1>7, Stepped DEF IInv
<1>9. About(<<step, f>>, f)
  BY <1>3 DEF About
<1>10. /\ service \in [Filter -> Service \cup {None}] /\ avsOnly \in [Filter -> BOOLEAN]
       /\ chosen \in [Filter -> SUBSET Stream] /\ patOf \in [Filter -> Service \cup {None}]
       /\ pmtOf \in [Filter -> Service \cup {None}]
  BY DEF IInv, Typed
<1>11. OnlyFilter(f)
  <2>1. UNCHANGED <<currentService, currentMultiplex, cached, changed, exists, pids, tables,
                    mixed, lost>>
    BY <1>1 DEF OnlyTables
  <2>2. CASE service[f] # None /\ on
    <3>1. ProgramInfo(service[f]) \cap FirstOfKind \in SUBSET Stream
      BY FiltersAssumption
    <3> QED
      BY <1>1, <1>10, <2>1, <2>2, <3>1 DEF OnlyFilter, RewritePMT
  <2>3. CASE ~(service[f] # None /\ on)
    BY <1>1, <1>10, <2>1, <2>3 DEF OnlyFilter
  <2> QED
    BY <2>2, <2>3
<1>12. service'[f] = service[f] /\ avsOnly'[f] = on
  BY <1>1, <1>10
<1>13. TableNamed(f)'
  <2>1. service[f] # None => patOf'[f] = service[f] /\ (on => pmtOf'[f] = service[f])
    BY <1>1, <1>10 DEF RewritePMT, IInv, TablesNamed, TableNamed
  <2> QED
    BY <1>12, <2>1 DEF TableNamed
<1>14. ChosenWell(f)'
  <2> SUFFICES ASSUME on, service[f] \in heard
               PROVE  chosen'[f] = info[service[f]] \cap FirstOfKind
    BY <1>1, <1>12 DEF ChosenWell, OnlyTables, tables
  <2>1. service[f] # None
    BY TuningAssumption DEF IInv, Typed
  <2>2. chosen'[f] = ProgramInfo(service[f]) \cap FirstOfKind
    BY <1>1, <1>10, <2>1 DEF RewritePMT
  <2> QED
    BY <2>2, ChosenFromCache
<1>15. ~(Now(t, f)' /\ todo'[t][1] = <<"add", f>>)
  <2>1. CASE new = <<>>
    BY <1>7, <1>8, <2>1 DEF Effect
  <2>2. CASE new = <<<<"check", f>>>>
    <3>1. new # <<>> /\ new[1] = <<"check", f>>
      BY <2>2
    <3>2. todo'[t][1] = <<"check", f>>
      BY <1>8, <3>1 DEF Effect
    <3> QED
      BY <3>2
  <2> QED
    BY <1>5, <2>1, <2>2
<1>16. ~Now(t, f)' => service[f] = None
  <2> SUFFICES ASSUME service[f] # None PROVE Now(t, f)'
    OBVIOUS
  <2>1. new # <<>> /\ new[1] = <<"check", f>>
    BY <1>5
  <2>2. todo'[t] # <<>> /\ todo'[t][1] = <<"check", f>>
    BY <1>8, <2>1 DEF Effect
  <2> QED
    BY <2>2 DEF Now, About
<1>17. Ready(t, f)
  BY <1>12, <1>13, <1>14, <1>15, <1>16 DEF Ready, Wanted
<1> QED
  BY <1>4, <1>5, <1>8, <1>9, <1>11, <1>17, OneFilterStep

\* A table is rewritten and the filters are then checked.
LEMMA CheckFollows ==
  ASSUME NEW t \in Thread, NEW step \in {"rewrite", "rewrite PMT"}, NEW f,
         Effect(t, <<step, f>>, <<>>)
  PROVE  Now(t, f)' /\ todo'[t][1] = <<"check", f>>
<1>1. Bound(<<step, f>>)
  BY DEF Bound
<1>2. todo'[t] # <<>> /\ Opens(<<step, f>>, todo'[t][1])
  BY <1>1 DEF Effect
<1>3. todo'[t][1] = <<"check", f>>
  BY <1>2, OpensCheck
<1>4. About(<<"check", f>>, f)
  BY DEF About
<1> QED
  BY <1>2, <1>3, <1>4 DEF Now

LEMMA RewriteKeeps ==
  ASSUME IInv, NEW t \in Thread, Rewrite(t)
  PROVE  IInv'
<1>1. PICK f \in Filter :
        /\ Doing(t, "rewrite", f)
        /\ IF service[f] # None THEN RewritePAT(f, service[f]) ELSE UNCHANGED patOf
        /\ IF service[f] # None /\ avsOnly[f] THEN RewritePMT(f, service[f])
           ELSE UNCHANGED <<chosen, pmtOf>>
        /\ Then(t, <<>>)
        /\ UNCHANGED <<service, avsOnly>>
        /\ OnlyTables
  BY DEF Rewrite
<1>2. f \in Existing
  BY <1>1, DoingTyped, StepArguments DEF IInv
<1>3. Effect(t, <<"rewrite", f>>, <<>>)
  <2>1. <<>> \in Seq(Steps(t))
    OBVIOUS
  <2> QED
    BY <1>1, <2>1, NoSteps, Stepped DEF IInv
<1>4. About(<<"rewrite", f>>, f)
  BY DEF About
<1>5. /\ service \in [Filter -> Service \cup {None}] /\ avsOnly \in [Filter -> BOOLEAN]
      /\ chosen \in [Filter -> SUBSET Stream] /\ patOf \in [Filter -> Service \cup {None}]
      /\ pmtOf \in [Filter -> Service \cup {None}]
  BY DEF IInv, Typed
<1>6. OnlyFilter(f)
  <2>1. UNCHANGED <<currentService, currentMultiplex, cached, changed, exists, pids, tables,
                    mixed, lost>>
    BY <1>1 DEF OnlyTables
  <2>2. CASE service[f] # None /\ avsOnly[f]
    <3>1. ProgramInfo(service[f]) \cap FirstOfKind \in SUBSET Stream
      BY FiltersAssumption
    <3> QED
      BY <1>1, <1>5, <2>1, <2>2, <3>1 DEF OnlyFilter, RewritePAT, RewritePMT
  <2>3. CASE ~(service[f] # None /\ avsOnly[f])
    BY <1>1, <1>5, <2>1, <2>3 DEF OnlyFilter, RewritePAT
  <2> QED
    BY <2>2, <2>3
<1>7. TableNamed(f)'
  BY <1>1, <1>5 DEF RewritePAT, RewritePMT, TableNamed
<1>8. ChosenWell(f)'
  <2>1. info' = info /\ heard' = heard
    BY <1>1 DEF OnlyTables, tables
  <2>2. ASSUME avsOnly[f], service[f] \in heard
        PROVE  chosen'[f] = info[service[f]] \cap FirstOfKind
    <3>1. service[f] # None
      BY <2>2, TuningAssumption DEF IInv, Typed
    <3>2. chosen'[f] = ProgramInfo(service[f]) \cap FirstOfKind
      BY <1>1, <1>5, <2>2, <3>1 DEF RewritePMT
    <3> QED
      BY <2>2, <3>2, ChosenFromCache
  <2> QED
    BY <1>1, <2>1, <2>2 DEF ChosenWell
<1>9. Ready(t, f)
  <2>1. Now(t, f)' /\ todo'[t][1] = <<"check", f>>
    BY <1>3, CheckFollows
  <2> QED
    BY <1>7, <1>8, <2>1 DEF Ready
<1> QED
  BY <1>2, <1>3, <1>4, <1>6, <1>9, OneFilterStep

LEMMA PidsUpdatedRewriteKeeps ==
  ASSUME IInv, NEW t \in Thread, PidsUpdatedRewrite(t)
  PROVE  IInv'
<1>1. PICK f \in Filter : /\ Doing(t, "rewrite PMT", f)
                          /\ RewritePMT(f, service[f])
                          /\ Then(t, <<>>)
                          /\ UNCHANGED <<service, avsOnly, patOf>>
                          /\ OnlyTables
  BY DEF PidsUpdatedRewrite
<1>2. f \in Existing
  BY <1>1, DoingTyped, StepArguments DEF IInv
<1>3. Effect(t, <<"rewrite PMT", f>>, <<>>)
  <2>1. <<>> \in Seq(Steps(t))
    OBVIOUS
  <2> QED
    BY <1>1, <2>1, NoSteps, Stepped DEF IInv
<1>4. About(<<"rewrite PMT", f>>, f)
  BY DEF About
<1>5. /\ service \in [Filter -> Service \cup {None}] /\ avsOnly \in [Filter -> BOOLEAN]
      /\ chosen \in [Filter -> SUBSET Stream] /\ patOf \in [Filter -> Service \cup {None}]
      /\ pmtOf \in [Filter -> Service \cup {None}]
  BY DEF IInv, Typed
<1>6. OnlyFilter(f)
  <2>1. UNCHANGED <<currentService, currentMultiplex, cached, changed, exists, pids, tables,
                    mixed, lost>>
    BY <1>1 DEF OnlyTables
  <2>2. ProgramInfo(service[f]) \cap FirstOfKind \in SUBSET Stream
    BY FiltersAssumption
  <2> QED
    BY <1>1, <1>5, <2>1, <2>2 DEF OnlyFilter, RewritePMT
<1>7. TableNamed(f)'
  BY <1>1, <1>5 DEF IInv, TablesNamed, RewritePMT, TableNamed
<1>8. ChosenWell(f)'
  <2>1. info' = info /\ heard' = heard
    BY <1>1 DEF OnlyTables, tables
  <2>2. chosen'[f] = ProgramInfo(service[f]) \cap FirstOfKind
    BY <1>1, <1>5 DEF RewritePMT
  <2> QED
    BY <1>1, <2>1, <2>2, ChosenFromCache DEF ChosenWell
<1>9. Ready(t, f)
  <2>1. Now(t, f)' /\ todo'[t][1] = <<"check", f>>
    BY <1>3, CheckFollows
  <2> QED
    BY <1>7, <1>8, <2>1 DEF Ready
<1> QED
  BY <1>2, <1>3, <1>4, <1>6, <1>9, OneFilterStep

LEMMA CheckKeeps ==
  ASSUME IInv, NEW t \in Thread, CheckMultiplex(t)
  PROVE  IInv'
<1>1. PICK f \in Filter :
        /\ Doing(t, "check", f)
        /\ Then(t, IF /\ currentMultiplex # None
                      /\ service[f] # None
                      /\ MuxOf[service[f]] = currentMultiplex
                   THEN <<<<"add", f>>>> ELSE <<>>)
        /\ UNCHANGED <<service, avsOnly, chosen, patOf, pmtOf>>
        /\ OnlyTables
  BY DEF CheckMultiplex
<1>2. f \in Existing
  BY <1>1, DoingTyped, StepArguments DEF IInv
<1>3. PICK new : new = IF /\ currentMultiplex # None
                          /\ service[f] # None
                          /\ MuxOf[service[f]] = currentMultiplex
                       THEN <<<<"add", f>>>> ELSE <<>>
  OBVIOUS
<1>4. new \in Seq(Steps(t)) /\ WellFormed(new)
  <2>1. CASE new = <<>>
    BY <2>1, NoSteps
  <2>2. CASE new = <<<<"add", f>>>>
    <3>1. <<"add", f>> \in Steps(t) /\ ~Bound(<<"add", f>>)
      BY <1>2, StepsMade DEF Bound
    <3> QED
      BY <2>2, <3>1, OneStep
  <2> QED
    BY <1>3, <2>1, <2>2
<1>5. \A b : ~Opens(<<"check", f>>, b)
  BY NoOpening
<1>6. Effect(t, <<"check", f>>, new)
  BY <1>1, <1>3, <1>4, <1>5, Stepped DEF IInv
<1>7. About(<<"check", f>>, f)
  BY DEF About
<1>8. OnlyFilter(f)
  BY <1>1 DEF OnlyFilter, OnlyTables, IInv, Typed
<1>9. TableNamed(f)'
  BY <1>1 DEF IInv, TablesNamed, TableNamed
<1>10. ChosenWell(f)'
  <2>1. info' = info /\ heard' = heard
    BY <1>1 DEF OnlyTables, tables
  <2>2. \A y : y # <<"check", f>> /\ Holds(todo[Input], y) => Holds(todo'[Input], y)
    BY <1>6 DEF Effect, Thread
  <2>3. /\ <<"updated", <<f, service[f]>>>> # <<"check", f>>
        /\ <<"rewrite PMT", f>> # <<"check", f>>
    OBVIOUS
  <2>4. ChosenWell(f)
    BY <1>2 DEF IInv, ChosenInStep
  <2> QED
    BY <1>1, <2>1, <2>2, <2>3, <2>4 DEF ChosenWell
<1>11. CASE new = <<>>
  <2>1. ~(currentMultiplex # None /\ service[f] # None /\ MuxOf[service[f]] = currentMultiplex)
    BY <1>3, <1>11
  <2>2. Wanted(f)' = {}
    BY <1>1, <2>1 DEF Wanted, OnlyTables
  <2>3. ~Now(t, f)'
    BY <1>5, <1>6, <1>11 DEF Effect
  <2>4. Ready(t, f)
    BY <1>9, <1>10, <2>2, <2>3 DEF Ready
  <2> QED
    BY <1>2, <1>6, <1>7, <1>8, <1>11, <2>4, OneFilterStep
<1>12. CASE new # <<>>
  <2>1. /\ service[f] # None /\ MuxOf[service[f]] = currentMultiplex
        /\ new = <<<<"add", f>>>> /\ new[1] = <<"add", f>>
    BY <1>3, <1>12
  <2>2. todo'[t] # <<>> /\ todo'[t][1] = <<"add", f>>
    BY <1>6, <1>12, <2>1 DEF Effect
  <2>3. Now(t, f)'
    BY <2>2 DEF Now, About
  <2>4. Ready(t, f)
    BY <1>1, <1>9, <1>10, <2>1, <2>3 DEF Ready, OnlyTables
  <2> QED
    BY <1>2, <1>6, <1>7, <1>8, <2>1, <2>4, OneFilterStep
<1> QED
  BY <1>11, <1>12

LEMMA AddKeeps ==
  ASSUME IInv, NEW t \in Thread, AddFilters(t)
  PROVE  IInv'
<1>1. PICK f \in Filter :
        /\ Doing(t, "add", f)
        /\ pids' = [pids EXCEPT ![f] = @ \cup
                       PidsOf(service[f], IF avsOnly[f] THEN chosen[f]
                                          ELSE ProgramInfo(service[f]))]
        /\ Then(t, <<>>)
        /\ UNCHANGED <<currentService, currentMultiplex, cached, changed, exists, service,
                       avsOnly, chosen, patOf, pmtOf, tables, mixed, lost>>
  BY DEF AddFilters
<1>2. f \in Existing
  BY <1>1, DoingTyped, StepArguments DEF IInv
<1>3. Effect(t, <<"add", f>>, <<>>)
  <2>1. <<>> \in Seq(Steps(t))
    OBVIOUS
  <2> QED
    BY <1>1, <2>1, NoSteps, Stepped DEF IInv
<1>4. About(<<"add", f>>, f)
  BY DEF About
<1>5. UNCHANGED <<info, services, handles, heard>>
  BY <1>1 DEF tables
<1>6. pids = [g \in Filter |-> pids[g]]
  BY DEF IInv, Typed
<1>7. /\ pids' = [g \in Filter |-> pids'[g]]
      /\ \A g \in Filter \ {f} : pids'[g] = pids[g]
      /\ pids'[f] = pids[f] \cup PidsOf(service[f], IF avsOnly[f] THEN chosen[f]
                                                    ELSE ProgramInfo(service[f]))
  BY <1>1, <1>6
<1>8. /\ Unsettled => Unsettled'
      /\ CacheInStep' /\ HeardInCache' /\ ServicesInStep' /\ HandlesInStep'
  BY <1>1, <1>3, <1>5, NoSteps, TablesKept
<1>9. ~Now(t, f)'
  BY <1>3, OpensCheck DEF Effect
<1>10. Continues(t, f)
  <2> SUFFICES ASSUME Emptied(t, f), ~Unsettled PROVE pids'[f] = Wanted(f)'
    BY <1>9 DEF Continues
  <2>1. service[f] # None /\ MuxOf[service[f]] = currentMultiplex /\ pids[f] = {}
    BY <1>3 DEF Emptied, Effect
  <2>2. service[f] \in Service /\ currentMultiplex # None
    BY <2>1, TuningAssumption DEF IInv, Typed
  <2>3. ~TuneNext
    <3> SUFFICES ASSUME TuneNext PROVE FALSE
      OBVIOUS
    <3>1. todo[User] \in Seq(Steps(User)) /\ WellFormed(todo[User]) /\ todo[User] # <<>>
      BY CallsTyped DEF IInv, Formed, TuneNext, Thread
    <3>2. PICK m : m = todo[User][1][2]
      OBVIOUS
    <3>3. todo[User][1] = <<"tune", m>> /\ m \in Mux
      <4>1. Len(todo[User]) \in Nat /\ Len(todo[User]) # 0
        BY <3>1, EmptySeq
      <4>2. todo[User][1] \in UserSteps(Existing)
        BY <3>1, <4>1 DEF Steps
      <4>3. \A y \in UserSteps(Existing) : y = <<y[1], y[2]>> /\ (y[1] = "tune" => y[2] \in Mux)
        <5> SUFFICES ASSUME NEW y \in UserSteps(Existing)
                     PROVE  y = <<y[1], y[2]>> /\ (y[1] = "tune" => y[2] \in Mux)
          OBVIOUS
        <5>1. CASE y \in {"disable", "enable", "follow"} \X {None}
          BY <5>1
        <5>2. CASE y \in {"find", "current"} \X Service
          BY <5>2
        <5>3. CASE y \in {"load", "tune", "announce"} \X Mux
          BY <5>3
        <5>4. CASE y \in {"drop", "avs on", "avs off", "check", "add"} \X Existing
          <6>1. \A A, B, z : z \in A \X B => z = <<z[1], z[2]>> /\ z[1] \in A
            OBVIOUS
          <6>2. y = <<y[1], y[2]>> /\ y[1] \in {"drop", "avs on", "avs off", "check", "add"}
            BY <5>4, <6>1, Zenon
          <6> QED
            BY <6>2
        <5>5. CASE y \in {"assign"} \X (Existing \X (Service \cup {None}))
          BY <5>5
        <5> QED
          BY <5>1, <5>2, <5>3, <5>4, <5>5 DEF UserSteps
      <4> QED
        BY <3>2, <4>2, <4>3 DEF TuneNext
    <3>4. Holds(todo[User], <<"announce", m>>)
      BY <3>1, <3>3, TuneAnnounces
    <3> QED
      BY <3>3, <3>4 DEF Unsettled
  <2>4. ProgramInfo(service[f]) = info[service[f]]
    BY <2>1, <2>3 DEF IInv, CacheInStep, ProgramInfo
  <2>5. Wanted(f) = PidsOf(service[f], IF avsOnly[f] THEN chosen[f] ELSE info[service[f]])
    BY <2>1, <2>2 DEF Wanted
  <2>6. Wanted(f)' = Wanted(f)
    BY <1>1, <1>5 DEF Wanted, PidsOf, PidPAT, PidPMT
  <2> QED
    BY <1>7, <2>1, <2>4, <2>5, <2>6
<1>11. OneRebuilds' /\ PidsInStep'
  BY <1>1, <1>2, <1>3, <1>4, <1>5, <1>7, <1>8, <1>10, RebuildKept
<1>12. ChosenInStep'
  <2>1. UNCHANGED <<exists, service, avsOnly, chosen, info, heard>>
    BY <1>1, <1>5
  <2>2. PICK step : step = "add"
    OBVIOUS
  <2>3. Effect(t, <<step, f>>, <<>>) /\ step \notin {"updated", "rewrite PMT"}
    BY <1>3, <2>2
  <2> QED
    BY <2>1, <2>3, ChosenKept
<1>13. Existing' = Existing
  BY <1>1 DEF Existing
<1>14. Typed' /\ Formed'
  BY <1>1, <1>3, <1>5, <1>7, <1>13 DEF Effect, IInv, Typed
<1>15. Blank'
  BY <1>1, <1>2, <1>7, <1>13 DEF IInv, Blank
<1>16. TablesNamed'
  BY <1>1 DEF IInv, TablesNamed, TableNamed
<1> QED
  BY <1>8, <1>11, <1>12, <1>14, <1>15, <1>16 DEF IInv

LEMMA PidsUpdatedKeeps ==
  ASSUME IInv, NEW t \in Thread, PidsUpdated(t)
  PROVE  IInv'
<1>1. PICK f \in Filter, s \in Service :
        /\ Doing(t, "updated", <<f, s>>)
        /\ Then(t, IF service[f] = s
                   THEN <<<<"drop", f>>, <<"rewrite PMT", f>>, <<"check", f>>>> ELSE <<>>)
        /\ UNCHANGED <<service, avsOnly, chosen, patOf, pmtOf>>
        /\ OnlyTables
  BY DEF PidsUpdated
<1>2. PICK x : x = <<f, s>>
  OBVIOUS
<1>3. <<"updated", x>> \in Steps(t)
  BY <1>1, <1>2, DoingTyped DEF IInv
<1>4. t = Input /\ x \in Existing \X Service
  BY <1>3, StepArguments
<1>5. f \in Existing
  BY <1>2, <1>4
<1>6. PICK a, b, c : a = <<"drop", f>> /\ b = <<"rewrite PMT", f>> /\ c = <<"check", f>>
  OBVIOUS
<1>7. PICK new : new = IF service[f] = s THEN <<a, b, c>> ELSE <<>>
  OBVIOUS
<1>8. /\ new \in Seq(Steps(t)) /\ WellFormed(new) /\ ~Holds(new, <<"clear", None>>)
      /\ new # <<>> => new[1] = a
  <2>1. CASE new = <<>>
    BY <2>1, NoSteps
  <2>2. CASE new = <<a, b, c>>
    <3>1. {a, b, c} \subseteq Steps(t) /\ <<"clear", None>> \notin {a, b, c}
      BY <1>4, <1>5, <1>6, StepsMade
    <3>2. Opens(a, b) /\ Opens(b, c) /\ ~Bound(c)
      BY <1>6 DEF Opens, Bound
    <3>3. WellFormed(<<a, b, c>>) /\ \A y : Holds(<<a, b, c>>, y) => y \in {a, b, c}
      BY <3>2, ThreeSteps
    <3>4. <<a, b, c>> \in Seq(Steps(t)) /\ <<a, b, c>>[1] = a
      BY <3>1
    <3> QED
      BY <2>2, <3>1, <3>3, <3>4
  <2> QED
    BY <1>7, <2>1, <2>2
<1>9. \A y : ~Opens(<<"updated", x>>, y)
  BY NoOpening
<1>10. Effect(t, <<"updated", x>>, new)
  <2>1. Doing(t, "updated", x) /\ Then(t, new)
    BY <1>1, <1>2, <1>6, <1>7
  <2> QED
    BY <1>8, <1>9, <2>1, Stepped DEF IInv
<1>11. /\ UNCHANGED <<currentService, currentMultiplex, cached, changed, exists, service, avsOnly>>
       /\ UNCHANGED <<pids, chosen, patOf, pmtOf, mixed, lost>>
       /\ UNCHANGED <<info, services, handles, heard>>
  BY <1>1 DEF OnlyTables, tables
<1>12. /\ Unsettled => Unsettled'
       /\ CacheInStep' /\ HeardInCache' /\ ServicesInStep' /\ HandlesInStep'
  <2>0. a[1] = "drop"
    BY <1>6
  <2>1. new = <<>> \/ new[1][1] # "tune"
    <3>1. CASE new = <<>>
      BY <3>1
    <3>2. CASE new # <<>>
      BY <1>8, <2>0, <3>2
    <3> QED
      BY <3>1, <3>2
  <2>2. UNCHANGED <<cached, currentMultiplex, services, handles, heard, lost, changed>>
    BY <1>11
  <2> QED
    BY <1>8, <1>10, <2>1, <2>2, TablesKept
<1>13. \A g : <<"updated", x>> # <<"updated", <<g, service[g]>>>>
         => (Holds(todo[Input], <<"updated", <<g, service[g]>>>>)
               => Holds(todo'[Input], <<"updated", <<g, service[g]>>>>))
  BY <1>4, <1>10 DEF Effect
<1>14. service[f] = s => \A y : y \in {a, b} => Holds(todo'[Input], y)
  <2> SUFFICES ASSUME service[f] = s, NEW y \in {a, b} PROVE Holds(todo'[Input], y)
    OBVIOUS
  <2>1. new = <<a, b, c>>
    BY <1>7
  <2>2. Holds(new, y)
    <3>1. Len(new) = 3 /\ new[1] = a /\ new[2] = b
      BY <2>1
    <3> QED
      BY <3>1 DEF Holds
  <2> QED
    BY <1>4, <1>10, <2>2 DEF Effect
<1>15. ChosenInStep'
  <2>1. PICK first : first = <<"updated", x>>
    OBVIOUS
  <2>2. OthersChosen(first, f)
    BY <1>2, <1>11, <2>1 DEF OthersChosen
  <2>3. ChosenWell(f)'
    <3>1. CASE service[f] = s
      BY <1>6, <1>14, <3>1 DEF ChosenWell
    <3>2. CASE service[f] # s
      <4>1. <<"updated", x>> # <<"updated", <<f, service[f]>>>>
        BY <1>2, <3>2
      <4>2. Holds(todo[Input], <<"rewrite PMT", f>>) => Holds(todo'[Input], <<"rewrite PMT", f>>)
        <5>1. <<"updated", x>> # <<"rewrite PMT", f>>
          OBVIOUS
        <5> QED
          BY <1>4, <1>10, <5>1 DEF Effect
      <4> QED
        BY <1>5, <1>11, <1>13, <4>1, <4>2 DEF IInv, ChosenInStep, ChosenWell
    <3> QED
      BY <3>1, <3>2
  <2>4. UNCHANGED <<exists, info, heard>> /\ Effect(t, first, new)
    BY <1>10, <1>11, <2>1
  <2> QED
    BY <1>5, <2>2, <2>3, <2>4, ChosenOfOne
<1>16. \A g : ~Now(t, g) /\ ~Now(t, g)' /\ ~Begins(<<"updated", x>>, g)
  <2> SUFFICES ASSUME NEW g PROVE ~Now(t, g) /\ ~Now(t, g)' /\ ~Begins(<<"updated", x>>, g)
    OBVIOUS
  <2>1. ~Begins(<<"updated", x>>, g) /\ ~About(<<"updated", x>>, g) /\ ~About(a, g)
    BY <1>6 DEF Begins, About
  <2>2. ~Now(t, g)
    BY <1>10, <2>1 DEF Now, Effect
  <2>3. CASE new # <<>>
    BY <1>8, <1>10, <2>1, <2>2, <2>3 DEF Now, Effect
  <2>4. CASE new = <<>>
    BY <1>9, <1>10, <2>1, <2>2, <2>4 DEF Effect
  <2> QED
    BY <2>1, <2>2, <2>3, <2>4
<1>17. \A o \in Thread : \A g : Now(o, g)' <=> Now(o, g)
  BY <1>10, <1>16 DEF Effect
<1>18. OneRebuilds'
  BY <1>11, <1>17 DEF IInv, OneRebuilds, Thread
<1>19. ASSUME NEW g \in Existing \ mixed
       PROVE  Coming(g)' \/ Unsettled' \/ (\E o \in Thread : Emptied(o, g)') \/ Fits(g)'
  <2>1. CASE Coming(g) \/ Unsettled
    BY <1>10, <1>12, <1>16, <2>1 DEF Effect
  <2>2. ASSUME NEW o \in Thread, Emptied(o, g) PROVE Emptied(o, g)'
    <3>1. o # t
      BY <1>16, <2>2 DEF Emptied
    <3> QED
      BY <1>10, <1>11, <1>17, <2>2, <3>1 DEF Emptied, Effect
  <2>3. ASSUME Fits(g) PROVE Fits(g)' \/ Coming(g)'
    <3>1. Wanted(g)' = Wanted(g)
      BY <1>11 DEF Wanted, PidsOf, PidPAT, PidPMT
    <3>2. CASE <<"updated", x>> # <<"updated", <<g, service[g]>>>>
      BY <1>11, <1>13, <1>17, <2>3, <3>1, <3>2 DEF Fits
    <3>3. CASE <<"updated", x>> = <<"updated", <<g, service[g]>>>>
      <4>1. g = f /\ service[f] = s
        BY <1>2, <3>3
      <4>2. PICK i \in 1..Len(todo'[Input]) : todo'[Input][i] = a
        BY <1>14, <4>1 DEF Holds
      <4>3. Begins(a, g)
        BY <1>6, <4>1 DEF Begins
      <4> QED
        BY <1>4, <4>2, <4>3 DEF Coming
    <3> QED
      BY <3>2, <3>3
  <2> QED
    BY <2>1, <2>2, <2>3 DEF IInv, PidsInStep
<1>20. PidsInStep'
  BY <1>11, <1>19 DEF PidsInStep, Existing
<1>21. Blank' /\ TablesNamed'
  BY <1>11, FiltersKept
<1>22. Typed' /\ Formed'
  BY <1>10, <1>11 DEF Effect, IInv, Typed, Existing
<1> QED
  BY <1>12, <1>15, <1>18, <1>20, <1>21, <1>22 DEF IInv

-----------------------------------------------------------------------------
(* The steps that begin to rebuild a filter.                               *)

LEMMA EmptyingKeeps ==
  ASSUME IInv, NEW t \in Thread, NEW step \in {"drop", "callback"}, NEW x, NEW new,
         Effect(t, <<step, x>>, new), NEW f \in Existing, Begins(<<step, x>>, f),
         RemoveAllFilters(t, f), Now(t, f)', todo'[t][1] # <<"add", f>>,
         ~Holds(new, <<"clear", None>>), new = <<>> \/ new[1][1] # "tune"
  PROVE  IInv'
<1>1. /\ UNCHANGED <<currentService, currentMultiplex, cached, changed, exists, service, avsOnly>>
      /\ UNCHANGED <<chosen, patOf, pmtOf, info, services, handles, heard, lost>>
      /\ pids' = [pids EXCEPT ![f] = {}]
      /\ mixed' = IF \E o \in Thread \ {t} : Rebuilding(o, f)
                  THEN mixed \cup {f} ELSE mixed \ {f}
  BY DEF RemoveAllFilters, tables
<1>2. f \in Filter /\ Existing \subseteq Filter
  BY ExistingFilters DEF IInv
<1>3. pids = [g \in Filter |-> pids[g]]
  BY DEF IInv, Typed
<1>4. /\ pids' = [g \in Filter |-> pids'[g]] /\ pids'[f] = {}
      /\ \A g \in Filter \ {f} : pids'[g] = pids[g]
  BY <1>1, <1>2, <1>3
<1>5. \A g : ~Now(t, g)
  <2>1. \A g : ~About(<<step, x>>, g)
    BY DEF About
  <2> QED
    BY <2>1 DEF Now, Effect
<1>6. \A g : g # f => ~Now(t, g)' /\ ~Begins(<<step, x>>, g)
  <2> SUFFICES ASSUME NEW g, g # f PROVE ~Now(t, g)' /\ ~Begins(<<step, x>>, g)
    OBVIOUS
  <2>1. ~Now(t, g)'
    BY AboutOne DEF Now
  <2>2. ~Begins(<<step, x>>, g)
    <3>1. PICK a : a = <<step, x>>
      OBVIOUS
    <3>2. CASE a = <<"drop", f>>
      <4>1. a[1] = "drop" /\ a[2] = f /\ <<"drop", g>>[2] = g
        BY <3>2
      <4>2. a # <<"drop", g>>
        BY <3>2
      <4> QED
        BY <3>1, <4>1, <4>2 DEF Begins
    <3>3. CASE a[1] = "callback" /\ a[2][1] = f
      <4>1. a # <<"drop", g>>
        BY <3>3
      <4> QED
        BY <3>1, <3>3, <4>1 DEF Begins
    <3> QED
      BY <3>1, <3>2, <3>3 DEF Begins
  <2> QED
    BY <2>1, <2>2
<1>7. /\ Unsettled => Unsettled'
      /\ CacheInStep' /\ HeardInCache' /\ ServicesInStep' /\ HandlesInStep'
  BY <1>1, TablesKept
<1>8. ChosenInStep'
  BY <1>1, ChosenKept
<1>9. OneRebuilds'
  <2> SUFFICES ASSUME NEW g \in Filter, Now(User, g)', Now(Input, g)' PROVE g \in mixed'
    BY DEF OneRebuilds
  <2>1. g = f
    BY <1>6 DEF Thread
  <2>2. PICK o \in Thread : o # t
    BY TuningAssumption DEF Thread
  <2>3. Now(o, f)
    BY <2>1, <2>2 DEF Effect, Thread
  <2>4. Rebuilding(o, f)
    <3>1. todo[o] \in Seq(Steps(o)) /\ todo[o] # <<>> /\ About(todo[o][1], f)
      BY <2>3, CallsTyped DEF Now, IInv
    <3>2. Len(todo[o]) \in Nat /\ Len(todo[o]) # 0
      BY <3>1, EmptySeq
    <3>3. 1 \in 1..Len(todo[o])
      BY <3>2
    <3>4. ASSUME NEW a, About(a, f) PROVE ~Begins(a, f)
      <4>1. a[1] # "drop" /\ a[1] # "callback"
        BY <3>4 DEF About
      <4>2. <<"drop", f>>[1] = "drop"
        OBVIOUS
      <4> QED
        BY <4>1, <4>2 DEF Begins
    <3>5. \A j \in 1..1 : ~Begins(todo[o][j], f)
      BY <3>1, <3>4
    <3> QED
      BY <3>1, <3>3, <3>5 DEF Rebuilding
  <2> QED
    BY <1>1, <2>1, <2>2, <2>4
<1>10. ASSUME NEW g \in Existing \ mixed'
       PROVE  Coming(g)' \/ Unsettled' \/ (\E o \in Thread : Emptied(o, g)') \/ Fits(g)'
  <2>1. CASE g = f
    BY <1>4, <2>1 DEF Emptied
  <2>2. CASE g # f
    <3>1. g \in Filter /\ g \notin mixed /\ pids'[g] = pids[g]
      BY <1>1, <1>2, <1>4, <1>10, <2>2
    <3>2. CASE Coming(g) \/ Unsettled
      BY <1>6, <1>7, <2>2, <3>2 DEF Effect
    <3>3. ASSUME NEW o \in Thread, Emptied(o, g) PROVE Emptied(o, g)'
      <4>1. o # t
        BY <1>5, <3>3 DEF Emptied
      <4> QED
        BY <1>1, <3>1, <3>3, <4>1 DEF Emptied, Effect
    <3>4. ASSUME Fits(g) PROVE Fits(g)'
      <4>1. Holds(todo[Input], <<"updated", <<g, service[g]>>>>)
              => Holds(todo'[Input], <<"updated", <<g, service[g]>>>>)
        <5>1. <<step, x>> # <<"updated", <<g, service[g]>>>>
          OBVIOUS
        <5> QED
          BY <5>1 DEF Effect, Thread
      <4>2. Wanted(g)' = Wanted(g)
        BY <1>1 DEF Wanted, PidsOf, PidPAT, PidPMT
      <4>3. \A o \in Thread : ~Now(o, g)'
        BY <1>6, <2>2, <3>4 DEF Fits, Effect
      <4> QED
        BY <1>1, <3>1, <3>4, <4>1, <4>2, <4>3 DEF Fits
    <3> QED
      BY <3>1, <3>2, <3>3, <3>4 DEF IInv, PidsInStep
  <2> QED
    BY <2>1, <2>2
<1>11. PidsInStep'
  BY <1>1, <1>10 DEF PidsInStep, Existing
<1>12. Typed' /\ Formed'
  BY <1>1, <1>4 DEF Effect, IInv, Typed, Existing
<1>13. Blank' /\ TablesNamed'
  BY <1>1, <1>4 DEF IInv, Blank, TablesNamed, TableNamed, Existing
<1> QED
  BY <1>7, <1>8, <1>9, <1>11, <1>12, <1>13 DEF IInv

LEMMA OpensDrop ==
  ASSUME NEW f, NEW b, Opens(<<"drop", f>>, b)
  PROVE  About(b, f) /\ b[1] # "add"
<1> DEFINE a == <<"drop", f>>
<1>1. a[1] = "drop" /\ a[2] = f /\ Opens(a, b)
  OBVIOUS
<1> HIDE DEF a
<1> QED
  BY <1>1 DEF Opens, About

LEMMA DropKeeps ==
  ASSUME IInv, NEW t \in Thread, Drop(t)
  PROVE  IInv'
<1>1. PICK f \in Filter : Doing(t, "drop", f) /\ RemoveAllFilters(t, f) /\ Then(t, <<>>)
  BY DEF Drop
<1>2. f \in Existing
  BY <1>1, DoingTyped, StepArguments DEF IInv
<1>3. Effect(t, <<"drop", f>>, <<>>)
  <2>1. <<>> \in Seq(Steps(t))
    OBVIOUS
  <2> QED
    BY <1>1, <2>1, NoSteps, Stepped DEF IInv
<1>4. todo'[t] # <<>> /\ Opens(<<"drop", f>>, todo'[t][1])
  <2>1. Bound(<<"drop", f>>)
    BY DEF Bound
  <2> QED
    BY <1>3, <2>1 DEF Effect
<1>5. Now(t, f)' /\ todo'[t][1] # <<"add", f>>
  BY <1>4, OpensDrop DEF Now
<1>6. PICK step \in {"drop", "callback"} : step = "drop"
  OBVIOUS
<1>7. Begins(<<step, f>>, f)
  BY <1>6 DEF Begins
<1> QED
  BY <1>1, <1>2, <1>3, <1>5, <1>6, <1>7, NoSteps, EmptyingKeeps

LEMMA CallbackKeeps ==
  ASSUME IInv, NEW t \in Thread, Callback(t)
  PROVE  IInv'
<1>1. PICK f \in Filter, structure \in BOOLEAN :
        /\ Doing(t, "callback", <<f, structure>>)
        /\ RemoveAllFilters(t, f)
        /\ Then(t, IF structure THEN <<<<"rewrite", f>>, <<"check", f>>>> ELSE <<<<"check", f>>>>)
  BY DEF Callback
<1>2. PICK x : x = <<f, structure>>
  OBVIOUS
<1>3. <<"callback", x>> \in Steps(t)
  BY <1>1, <1>2, DoingTyped DEF IInv
<1>4. t = Input /\ x \in Existing \X BOOLEAN
  BY <1>3, StepArguments
<1>5. f \in Existing
  BY <1>2, <1>4
<1>6. PICK a, b : a = <<"rewrite", f>> /\ b = <<"check", f>>
  OBVIOUS
<1>7. PICK new : new = IF structure THEN <<a, b>> ELSE <<b>>
  OBVIOUS
<1>8. /\ new \in Seq(Steps(t)) /\ WellFormed(new) /\ new # <<>>
      /\ \A y : Holds(new, y) => y \in {a, b}
      /\ new[1] \in {a, b}
  <2>0. {a, b} \subseteq Steps(t)
    BY <1>4, <1>5, <1>6, StepsMade
  <2>1. CASE new = <<a, b>>
    <3>1. Opens(a, b) /\ ~Bound(b)
      BY <1>6 DEF Opens, Bound
    <3>2. WellFormed(<<a, b>>) /\ \A y : Holds(<<a, b>>, y) => y \in {a, b}
      BY <3>1, TwoSteps
    <3>3. <<a, b>> \in Seq(Steps(t)) /\ <<a, b>>[1] = a /\ <<a, b>> # <<>>
      BY <2>0
    <3> QED
      BY <2>1, <3>2, <3>3
  <2>2. CASE new = <<b>>
    <3>1. ~Bound(b)
      BY <1>6 DEF Bound
    <3>2. WellFormed(<<b>>) /\ \A y : Holds(<<b>>, y) => y = b
      BY <3>1, OneStep
    <3>3. <<b>> \in Seq(Steps(t)) /\ <<b>>[1] = b /\ <<b>> # <<>>
      BY <2>0
    <3> QED
      BY <2>2, <3>2, <3>3
  <2> QED
    BY <1>7, <2>1, <2>2
<1>9. \A y : ~Opens(<<"callback", x>>, y)
  BY NoOpening
<1>10. Effect(t, <<"callback", x>>, new)
  <2>1. Doing(t, "callback", x) /\ Then(t, new)
    BY <1>1, <1>2, <1>6, <1>7
  <2> QED
    BY <1>8, <1>9, <2>1, Stepped DEF IInv
<1>11. \A y \in {a, b} : About(y, f) /\ y[1] \notin {"add", "tune", "clear"}
  <2>1. a[1] = "rewrite" /\ a[2] = f /\ b[1] = "check" /\ b[2] = f
    BY <1>6
  <2> QED
    BY <2>1 DEF About
<1>12. Now(t, f)' /\ todo'[t][1] # <<"add", f>>
  <2>1. todo'[t] # <<>> /\ todo'[t][1] \in {a, b}
    BY <1>8, <1>10 DEF Effect
  <2> QED
    BY <1>11, <2>1 DEF Now
<1>13. ~Holds(new, <<"clear", None>>) /\ new[1][1] # "tune"
  BY <1>8, <1>11
<1>14. PICK step \in {"drop", "callback"} : step = "callback"
  OBVIOUS
<1>15. Begins(<<step, x>>, f)
  BY <1>2, <1>14 DEF Begins
<1> QED
  BY <1>1, <1>5, <1>10, <1>12, <1>13, <1>14, <1>15, EmptyingKeeps

-----------------------------------------------------------------------------
(* The steps of the PMT processor.                                         *)

LEMMA TakeServicesKeeps ==
  ASSUME IInv, NEW t \in Thread, TakeServices(t)
  PROVE  IInv'
<1>1. /\ Doing(t, "services", None) /\ Then(t, <<>>)
      /\ services' = ServicesOf(cached) /\ handles' = {}
      /\ UNCHANGED <<currentService, currentMultiplex, cached, changed, filters, info, heard,
                     mixed, lost>>
  BY DEF TakeServices
<1>2. t = Input
  BY <1>1, DoingTyped, StepArguments DEF IInv
<1>3. Effect(t, <<"services", None>>, <<>>)
  <2>1. <<>> \in Seq(Steps(t))
    OBVIOUS
  <2> QED
    BY <1>1, <2>1, NoSteps, Stepped DEF IInv
<1>4. UNCHANGED <<exists, service, avsOnly, pids, chosen, patOf, pmtOf>>
  BY <1>1 DEF filters
<1>5. Unsettled => Unsettled'
  BY <1>1, <1>3, NoSteps, UnsettledKept
<1>6. Holds(todo'[Input], <<"attach", None>>)
  <2>1. Bound(<<"services", None>>)
    BY DEF Bound
  <2>2. todo'[Input] # <<>> /\ Opens(<<"services", None>>, todo'[Input][1])
    BY <1>2, <1>3, <2>1 DEF Effect
  <2>3. todo'[Input][1] = <<"attach", None>>
    BY <2>2 DEF Opens
  <2>4. Len(todo'[Input]) \in Nat /\ Len(todo'[Input]) # 0
    BY <1>3, <2>2, EmptySeq DEF Effect
  <2>5. 1 \in 1..Len(todo'[Input])
    BY <2>4
  <2> QED
    BY <2>3, <2>5 DEF Holds
<1>7. ServicesInStep' /\ HandlesInStep'
  BY <1>1, <1>6 DEF ServicesInStep, HandlesInStep, ServicesOf
<1>8. CacheInStep' /\ HeardInCache'
  <2>1. CacheInStep'
    BY <1>1, <1>3, CacheKept
  <2> QED
    BY <1>1, <2>1 DEF IInv, HeardInCache, ServicesOf
<1>9. ChosenInStep'
  <2>1. PICK step : step = "services"
    OBVIOUS
  <2>2. Effect(t, <<step, None>>, <<>>) /\ step \notin {"updated", "rewrite PMT"}
    BY <1>3, <2>1
  <2> QED
    BY <1>1, <1>4, <2>2, ChosenKept
<1>10. OneRebuilds' /\ PidsInStep'
  BY <1>1, <1>3, <1>4, <1>5, PidsKept
<1>11. Blank' /\ TablesNamed'
  BY <1>4, FiltersKept
<1>12. Typed' /\ Formed'
  BY <1>1, <1>3, <1>4 DEF Effect, IInv, Typed, Existing
<1> QED
  BY <1>7, <1>8, <1>9, <1>10, <1>11, <1>12 DEF IInv

\* What is to be attached is to be done, and on the input thread.
LEMMA ToAttach ==
  ASSUME IInv, NEW t \in Thread, Doing(t, "attach", None)
  PROVE  t = Input /\ Holds(todo[Input], <<"attach", None>>)
<1>1. t = Input
  BY DoingTyped, StepArguments DEF IInv
<1>2. todo[Input] \in Seq(Steps(Input)) /\ todo[Input] # <<>>
  BY <1>1, CallsTyped DEF IInv, Doing, Idle
<1>3. 1 \in 1..Len(todo[Input]) /\ Head(todo[Input]) = todo[Input][1]
  BY <1>2
<1> QED
  BY <1>1, <1>3 DEF Holds, Doing

LEMMA AttachPMTKeeps ==
  ASSUME IInv, NEW t \in Thread, AttachPMT(t)
  PROVE  IInv'
<1>1. /\ Doing(t, "attach", None)
      /\ UNCHANGED <<todo, currentService, currentMultiplex, cached, changed, filters, info,
                     services, heard, mixed, lost>>
  BY DEF AttachPMT, tuning
<1>2. PICK s \in ServicesOf(cached) \ handles : handles' = handles \cup {s}
  BY DEF AttachPMT
<1>3. handles' \subseteq Service
  BY <1>2 DEF IInv, Typed, ServicesOf
<1>4. Unsettled' <=> Unsettled
  BY <1>1 DEF Unsettled
<1>5. Holds(todo'[Input], <<"attach", None>>)
  BY <1>1, ToAttach
<1>6. handles \subseteq ServicesOf(cached) => handles' \subseteq ServicesOf(cached)'
  BY <1>1, <1>2 DEF ServicesOf
<1>7. HandlesInStep'
  BY <1>1, <1>4, <1>5, <1>6 DEF IInv, HandlesInStep
<1> QED
  BY <1>1, <1>3, <1>7, OnlyHandlesChange

LEMMA AttachNothingKeeps ==
  ASSUME IInv, NEW t \in Thread, AttachNothing(t)
  PROVE  IInv'
  BY NothingChanges DEF AttachNothing, Crash

LEMMA AttachedPMTsKeeps ==
  ASSUME IInv, NEW t \in Thread, AttachedPMTs(t)
  PROVE  IInv'
<1>1. /\ Doing(t, "attach", None) /\ Then(t, <<>>)
      /\ ~(Cardinality(handles) < Cardinality(services))
      /\ UNCHANGED <<currentService, currentMultiplex, cached, changed, filters, info, services,
                     handles, heard, mixed, lost>>
  BY DEF AttachedPMTs, MoreToAttach, tables
<1>2. Effect(t, <<"attach", None>>, <<>>)
  <2>1. <<>> \in Seq(Steps(t))
    OBVIOUS
  <2> QED
    BY <1>1, <2>1, NoSteps, Stepped DEF IInv
<1>3. UNCHANGED <<exists, service, avsOnly, pids, chosen, patOf, pmtOf>>
  BY <1>1 DEF filters
<1>4. Unsettled => Unsettled'
  BY <1>1, <1>2, NoSteps, UnsettledKept
<1>5. Holds(todo[Input], <<"services", None>>) => Holds(todo'[Input], <<"services", None>>)
  <2>1. <<"services", None>> # <<"attach", None>>
    OBVIOUS
  <2> QED
    BY <1>2, <2>1 DEF Effect, Thread
<1>6. ServicesInStep' /\ HandlesInStep'
  <2>1. ServicesInStep'
    BY <1>1, <1>4, <1>5 DEF IInv, ServicesInStep, ServicesOf
  <2>2. CASE Unsettled
    BY <1>4, <2>1, <2>2 DEF HandlesInStep
  <2>3. CASE Holds(todo[Input], <<"services", None>>)
    <3>1. PICK i \in 1..Len(todo'[Input]) : todo'[Input][i] = <<"services", None>>
      BY <1>5, <2>3 DEF Holds
    <3>2. Bound(todo'[Input][i])
      BY <3>1 DEF Bound
    <3>3. WellFormed(todo'[Input])
      <4>1. t = Input
        BY <1>1, ToAttach
      <4> QED
        BY <1>2, <4>1 DEF Effect, Formed
    <3>4. i < Len(todo'[Input]) /\ Opens(todo'[Input][i], todo'[Input][i + 1])
      BY <3>2, <3>3 DEF WellFormed
    <3>5. todo'[Input][i + 1] = <<"attach", None>>
      BY <3>1, <3>4 DEF Opens
    <3>6. Len(todo'[Input]) \in Nat
      BY <1>1, <1>2, ToAttach DEF Effect
    <3>7. i + 1 \in 1..Len(todo'[Input])
      BY <3>4, <3>6
    <3>8. Holds(todo'[Input], <<"attach", None>>)
      BY <3>5, <3>7 DEF Holds
    <3> QED
      BY <1>5, <2>1, <2>3, <3>8 DEF HandlesInStep
  <2>4. CASE ~Unsettled /\ ~Holds(todo[Input], <<"services", None>>)
    <3>1. services = ServicesOf(cached) /\ handles \subseteq services
      BY <2>4 DEF IInv, ServicesInStep, HandlesInStep
    <3>2. IsFiniteSet(services)
      <4>1. IsFiniteSet(Service) /\ services \in SUBSET Service
        BY <3>1, FiltersAssumption DEF ServicesOf
      <4> QED
        BY <4>1, FS_Subset
    <3>3. Cardinality(services) \in Nat /\ Cardinality(handles) \in Nat
      <4>1. IsFiniteSet(handles)
        BY <3>1, <3>2, FS_Subset
      <4> QED
        BY <3>2, <4>1, FS_CardinalityType
    <3>4. Cardinality(handles) <= Cardinality(services)
      BY <3>1, <3>2, FS_Subset
    <3>5. Cardinality(services) = Cardinality(handles)
      BY <1>1, <3>3, <3>4
    <3>6. services = handles
      BY <3>1, <3>2, <3>5, FS_Subset
    <3> QED
      BY <1>1, <2>1, <3>1, <3>6 DEF HandlesInStep, ServicesOf
  <2> QED
    BY <2>1, <2>2, <2>3, <2>4
<1>7. CacheInStep' /\ HeardInCache'
  <2>1. CacheInStep'
    BY <1>1, <1>2, CacheKept
  <2> QED
    BY <1>1, <2>1 DEF IInv, HeardInCache, ServicesOf
<1>8. ChosenInStep'
  <2>1. PICK step : step = "attach"
    OBVIOUS
  <2>2. Effect(t, <<step, None>>, <<>>) /\ step \notin {"updated", "rewrite PMT"}
    BY <1>2, <2>1
  <2> QED
    BY <1>1, <1>3, <2>2, ChosenKept
<1>9. OneRebuilds' /\ PidsInStep'
  BY <1>1, <1>2, <1>3, <1>4, PidsKept
<1>10. Blank' /\ TablesNamed'
  BY <1>3, FiltersKept
<1>11. Typed' /\ Formed'
  BY <1>1, <1>2, <1>3 DEF Effect, IInv, Typed, Existing, ServicesOf
<1> QED
  BY <1>6, <1>7, <1>8, <1>9, <1>10, <1>11 DEF IInv

-----------------------------------------------------------------------------
(* Calls that begin.                                                       *)

\* Everything there is will be told.
Told ==
  /\ Holds(todo[Input], <<"services", None>>) /\ Holds(todo[Input], <<"attach", None>>)
  /\ \A f \in Existing : Coming(f)

\* One that changes nothing but what is to be done.
LEMMA CallKeeps ==
  ASSUME IInv, NEW t \in Thread, NEW new, Begun(t, new),
         new = <<>> \/ ~Inner(new[1]) \/ new[1][1] = "drop",
         UNCHANGED <<currentService, currentMultiplex, cached, filters, tables, mixed>>,
         Unsettled => Unsettled' \/ Told'
  PROVE  IInv'
<1>1. /\ UNCHANGED <<exists, service, avsOnly, pids, chosen, patOf, pmtOf>>
      /\ UNCHANGED <<info, services, handles, heard>>
  BY DEF filters, tables
<1>2. CacheInStep'
  <2>1. CASE t = User
    <3>1. ~TuneNext /\ ~TuneNext'
      BY <2>1 DEF Begun, TuneNext, Inner
    <3> QED
      BY <3>1 DEF IInv, CacheInStep
  <2>2. CASE t # User
    <3>1. todo'[User] = todo[User]
      BY <2>2 DEF Begun, Thread
    <3> QED
      BY <3>1 DEF IInv, CacheInStep, TuneNext
  <2> QED
    BY <2>1, <2>2
<1>3. HeardInCache'
  BY <1>1 DEF IInv, HeardInCache, ServicesOf
<1>4. \A y : Holds(todo[Input], y) => Holds(todo'[Input], y)
  BY DEF Begun, Thread
<1>5. ServicesInStep' /\ HandlesInStep'
  BY <1>1, <1>4 DEF IInv, ServicesInStep, HandlesInStep, ServicesOf, Told
<1>6. ChosenInStep'
  BY <1>1, <1>4 DEF IInv, ChosenInStep, ChosenWell, Existing
<1>7. \A f : ~Now(t, f) /\ ~Now(t, f)'
  <2> SUFFICES ASSUME NEW f PROVE ~Now(t, f)'
    BY DEF Begun
  <2>1. CASE new = <<>>
    BY <2>1 DEF Now, Begun
  <2>2. CASE new # <<>>
    <3>1. ~About(new[1], f)
      <4>1. CASE ~Inner(new[1])
        BY <4>1, AboutIsInner
      <4>2. CASE new[1][1] = "drop"
        BY <4>2 DEF About
      <4> QED
        BY <2>2, <4>1, <4>2
    <3> QED
      BY <3>1 DEF Now, Begun
  <2> QED
    BY <2>1, <2>2
<1>8. \A o \in Thread : \A f : Now(o, f)' <=> Now(o, f)
  BY <1>7 DEF Begun
<1>9. OneRebuilds'
  BY <1>8 DEF IInv, OneRebuilds, Thread
<1>10. ASSUME NEW f \in Existing \ mixed
       PROVE  Coming(f)' \/ Unsettled' \/ (\E o \in Thread : Emptied(o, f)') \/ Fits(f)'
  <2>1. CASE Coming(f) \/ Unsettled
    BY <1>1, <2>1 DEF Begun, Told, Existing
  <2>2. ASSUME NEW o \in Thread, Emptied(o, f) PROVE Emptied(o, f)'
    <3>1. o # t
      BY <1>7, <2>2 DEF Emptied
    <3> QED
      BY <1>1, <1>8, <2>2, <3>1 DEF Emptied, Begun
  <2>3. ASSUME Fits(f) PROVE Fits(f)'
    <3>1. Wanted(f)' = Wanted(f)
      BY <1>1 DEF Wanted, PidsOf, PidPAT, PidPMT
    <3> QED
      BY <1>1, <1>4, <1>8, <2>3, <3>1 DEF Fits
  <2> QED
    BY <2>1, <2>2, <2>3 DEF IInv, PidsInStep
<1>11. PidsInStep'
  BY <1>1, <1>10 DEF PidsInStep, Existing
<1>12. Blank' /\ TablesNamed'
  BY <1>1, FiltersKept
<1>13. Typed' /\ Formed'
  BY <1>1 DEF Begun, IInv, Typed, Existing
<1> QED
  BY <1>2, <1>3, <1>5, <1>6, <1>9, <1>11, <1>12, <1>13 DEF IInv

\* What has not been told stays so, unless it will be.
LEMMA StaysUnsettled ==
  ASSUME NEW t \in Thread, NEW new, Begun(t, new), UNCHANGED <<lost, changed>>,
         t = Input => ~Holds(new, <<"clear", None>>), Unsettled
  PROVE  Unsettled'
<1>1. User \in Thread /\ Input \in Thread
  BY DEF Thread
<1>2. Holds(todo'[Input], <<"clear", None>>) => Holds(todo[Input], <<"clear", None>>)
  BY <1>1 DEF Begun
<1>3. \A y : Holds(todo[User], y) => Holds(todo'[User], y)
  BY <1>1 DEF Begun
<1> QED
  BY <1>2, <1>3 DEF Unsettled

LEMMA SelectKeeps ==
  ASSUME IInv, Select
  PROVE  IInv'
<1>1. PICK s \in Service : SetCurrentService(User, s)
  BY DEF Select
<1>2. UNCHANGED <<currentService, currentMultiplex, cached, changed, filters, tables, mixed, lost>>
  BY DEF Select
<1>3. PICK a, b : a = <<"disable", None>> /\ b = <<"find", s>>
  OBVIOUS
<1>4. PICK new : new = <<a, b>>
  OBVIOUS
<1>5. User \in Thread
  BY DEF Thread
<1>6. {a, b} \subseteq Steps(User)
  BY <1>3, StepsMade
<1>7. ~Bound(a) /\ ~Bound(b) /\ ~Inner(a) /\ ~Inner(b)
  BY <1>3 DEF Bound, Inner
<1>8. new \in Seq(Steps(User)) /\ WellFormed(new) /\ new[1] = a
  BY <1>4, <1>6, <1>7, TwoSteps
<1>9. Call(User, new)
  BY <1>1, <1>3, <1>4 DEF SetCurrentService
<1>10. Begun(User, new)
  BY <1>5, <1>8, <1>9, Called DEF IInv
<1>11. User # Input
  BY TuningAssumption
<1> QED
  BY <1>2, <1>5, <1>7, <1>8, <1>10, <1>11, StaysUnsettled, CallKeeps

LEMMA SetSFServiceKeeps ==
  ASSUME IInv, SetSFService
  PROVE  IInv'
<1>1. PICK f \in Existing, s \in Service : Call(User, ServiceSetSteps(f, s))
  BY DEF SetSFService
<1>2. UNCHANGED <<currentService, currentMultiplex, cached, changed, filters, tables, mixed, lost>>
  BY DEF SetSFService
<1>3. User \in Thread /\ User # Input
  BY TuningAssumption DEF Thread
<1>4. PICK new : new = ServiceSetSteps(f, s)
  OBVIOUS
<1>5. Given(new, Steps(User), f)
  BY <1>4, ServiceIsGiven
<1>6. new[1][1] = "drop"
  BY <1>5 DEF Given
<1>7. Begun(User, new)
  BY <1>1, <1>3, <1>4, <1>5, Called DEF IInv, Given
<1> QED
  BY <1>2, <1>3, <1>6, <1>7, StaysUnsettled, CallKeeps

LEMMA SetSFAVSOnlyKeeps ==
  ASSUME IInv, SetSFAVSOnly
  PROVE  IInv'
<1>1. PICK f \in Existing :
        Call(User, <<<<"drop", f>>, <<IF avsOnly[f] THEN "avs off" ELSE "avs on", f>>>>)
  BY DEF SetSFAVSOnly
<1>2. UNCHANGED <<currentService, currentMultiplex, cached, changed, filters, tables, mixed, lost>>
  BY DEF SetSFAVSOnly
<1>3. User \in Thread /\ User # Input
  BY TuningAssumption DEF Thread
<1>4. PICK step \in {"avs on", "avs off"} : step = IF avsOnly[f] THEN "avs off" ELSE "avs on"
  OBVIOUS
<1>5. PICK a, b : a = <<"drop", f>> /\ b = <<step, f>>
  OBVIOUS
<1>6. PICK new : new = <<a, b>>
  OBVIOUS
<1>7. {a, b} \subseteq Steps(User)
  <2>1. {<<"avs on", f>>, <<"avs off", f>>} \subseteq Steps(User)
    <3>1. None \in Service \cup {None}
      OBVIOUS
    <3> QED
      BY <3>1, StepsMade
  <2>2. <<"drop", f>> \in Steps(User)
    BY <1>3, StepsMade
  <2> QED
    BY <1>4, <1>5, <2>1, <2>2
<1>8. Opens(a, b) /\ ~Bound(b) /\ a[1] = "drop"
  <2>1. a[1] = "drop" /\ a[2] = f /\ b[1] = step /\ b[2] = f
    BY <1>5
  <2> QED
    BY <1>4, <2>1 DEF Opens, Bound
<1>9. new \in Seq(Steps(User)) /\ WellFormed(new) /\ new[1] = a
  <2>1. WellFormed(<<a, b>>)
    BY <1>8, TwoSteps
  <2>2. <<a, b>> \in Seq(Steps(User))
    <3>1. a \in Steps(User) /\ b \in Steps(User)
      BY <1>7
    <3> QED
      BY <3>1, PairIn
  <2>3. <<a, b>>[1] = a
    OBVIOUS
  <2> QED
    BY <1>6, <2>1, <2>2, <2>3
<1>10. Begun(User, new)
  <2>1. Call(User, new)
    BY <1>1, <1>4, <1>5, <1>6
  <2> QED
    BY <1>3, <1>9, <2>1, Called DEF IInv
<1>11. new[1][1] = "drop"
  BY <1>8, <1>9
<1> QED
  BY <1>2, <1>3, <1>10, <1>11, StaysUnsettled, CallKeeps

-----------------------------------------------------------------------------
(* What the reader begins.                                                 *)

\* The calls that tell everybody.
Informs(q) ==
  /\ q \in Seq(Steps(Input)) /\ WellFormed(q)
  /\ q # <<>> /\ q[1] = <<"services", None>>
  /\ Holds(q, <<"services", None>>) /\ Holds(q, <<"attach", None>>)
  /\ \A f \in Existing : \E structure \in BOOLEAN : Holds(q, <<"callback", <<f, structure>>>>)

LEMMA Informed ==
  ASSUME IInv, NEW structure \in BOOLEAN
  PROVE  /\ Informs(Inform(structure))
         /\ ~Holds(Inform(structure), <<"clear", None>>)
<1>1. PICK a, b : a = <<"services", None>> /\ b = <<"attach", None>>
  OBVIOUS
<1>2. PICK p, q : p = <<a, b>> /\ q = ForEach("callback", structure)
  OBVIOUS
<1>3. PICK S : S = Steps(Input)
  OBVIOUS
<1>4. p \in Seq(S) /\ p # <<>> /\ p[1] = a /\ WellFormed(p) /\ \A y : Holds(p, y) <=> y \in {a, b}
  <2>1. {a, b} \subseteq S
    BY <1>1, <1>3, StepsMade
  <2>2. Opens(a, b) /\ ~Bound(b)
    BY <1>1 DEF Opens, Bound
  <2>3. WellFormed(<<a, b>>) /\ \A y : Holds(<<a, b>>, y) => y \in {a, b}
    BY <2>2, TwoSteps
  <2>4. Len(p) = 2 /\ p[1] = a /\ p[2] = b /\ p \in Seq(S) /\ p # <<>>
    BY <1>2, <2>1
  <2>5. Holds(p, a) /\ Holds(p, b)
    BY <2>4 DEF Holds
  <2> QED
    BY <1>2, <2>3, <2>4, <2>5
<1>5. /\ q \in Seq(S) /\ WellFormed(q)
      /\ \A y : Holds(q, y) => y[1] = "callback"
      /\ \A f \in Existing : Holds(q, <<"callback", <<f, structure>>>>)
      /\ \A i \in 1..Len(q) : q[i][1] = "callback"
  <2>1. \A f \in Existing : <<"callback", <<f, structure>>>> \in S
    BY <1>3, StepsMade
  <2>2. exists \in Seq(Filter)
    BY DEF IInv, Typed
  <2>3. PICK step \in {"callback", "updated"} : step = "callback"
    OBVIOUS
  <2>4. \A f \in Existing : <<step, <<f, structure>>>> \in S
    BY <2>1, <2>3
  <2>5. q = ForEach(step, structure)
    BY <1>2, <2>3
  <2>6. Tells(S, step, structure, q)
    BY <2>2, <2>3, <2>4, <2>5, EachTold
  <2> QED
    BY <2>3, <2>6 DEF Tells
<1>6. q # <<>> => ~Inner(q[1])
  <2> SUFFICES ASSUME q # <<>> PROVE ~Inner(q[1])
    OBVIOUS
  <2>1. Len(q) \in Nat /\ Len(q) # 0
    BY <1>5, EmptySeq
  <2>2. q[1][1] = "callback"
    BY <1>5, <2>1
  <2> QED
    BY <2>2 DEF Inner
<1>7. Joint(S, p, q, p \o q)
  BY <1>4, <1>5, <1>6, Joined
<1>8. Inform(structure) = p \o q
  BY <1>1, <1>2 DEF Inform
<1>9. <<"clear", None>> \notin {a, b}
  BY <1>1
<1> QED
  BY <1>1, <1>3, <1>4, <1>5, <1>7, <1>8, <1>9 DEF Joint, Informs

LEMMA InformsAll ==
  ASSUME NEW new, Begun(Input, new), Informs(new), UNCHANGED exists
  PROVE  Told'
<1>1. \A y : Holds(new, y) => Holds(todo'[Input], y)
  BY DEF Begun, Holds
<1>2. ASSUME NEW f \in Existing PROVE Coming(f)'
  <2>1. PICK structure \in BOOLEAN : Holds(new, <<"callback", <<f, structure>>>>)
    BY DEF Informs
  <2>2. PICK i \in 1..Len(todo'[Input]) : todo'[Input][i] = <<"callback", <<f, structure>>>>
    BY <1>1, <2>1 DEF Holds
  <2>3. Begins(todo'[Input][i], f)
    BY <2>2 DEF Begins
  <2> QED
    BY <2>2, <2>3 DEF Coming, Thread
<1> QED
  BY <1>1, <1>2 DEF Told, Informs, Existing

LEMMA NotifyKeeps ==
  ASSUME IInv, Notify
  PROVE  IInv'
<1>1. /\ Call(Input, Inform(FALSE) \o <<<<"clear", None>>>>)
      /\ UNCHANGED <<currentService, currentMultiplex, cached, filters, tables, mixed>>
  BY DEF Notify
<1>2. PICK p, a : p = Inform(FALSE) /\ a = <<"clear", None>>
  OBVIOUS
<1>3. PICK q : q = <<a>>
  OBVIOUS
<1>4. Informs(p)
  BY <1>2, Informed
<1>5. q \in Seq(Steps(Input)) /\ WellFormed(q) /\ (q # <<>> => ~Inner(q[1]))
  <2>1. a \in Steps(Input) /\ ~Bound(a) /\ ~Inner(a)
    BY <1>2, StepsMade DEF Bound, Inner
  <2>2. WellFormed(<<a>>)
    BY <2>1, OneStep
  <2>3. <<a>> \in Seq(Steps(Input)) /\ <<a>>[1] = a
    BY <2>1
  <2> QED
    BY <1>3, <2>1, <2>2, <2>3
<1>6. PICK new : new = p \o q
  OBVIOUS
<1>7. Joint(Steps(Input), p, q, new)
  BY <1>4, <1>5, <1>6, Joined DEF Informs
<1>8. Informs(new)
  BY <1>4, <1>7 DEF Joint, Informs
<1>9. Input \in Thread
  BY DEF Thread
<1>10. Begun(Input, new)
  BY <1>1, <1>2, <1>3, <1>6, <1>8, <1>9, Called DEF IInv, Informs
<1>11. Told'
  BY <1>1, <1>8, <1>10, InformsAll DEF filters
<1>12. ~Inner(new[1])
  BY <1>8 DEF Informs, Inner
<1> QED
  BY <1>1, <1>9, <1>10, <1>11, <1>12, CallKeeps

LEMMA ChangeStructureKeeps ==
  ASSUME IInv, ChangeStructure
  PROVE  IInv'
<1>1. /\ Call(Input, Inform(TRUE))
      /\ UNCHANGED <<currentService, currentMultiplex, cached, filters, tables, mixed>>
  BY DEF ChangeStructure
<1>2. PICK new : new = Inform(TRUE)
  OBVIOUS
<1>3. Informs(new)
  BY <1>2, Informed
<1>4. Input \in Thread
  BY DEF Thread
<1>5. Begun(Input, new)
  BY <1>1, <1>2, <1>3, <1>4, Called DEF IInv, Informs
<1>6. Told'
  BY <1>1, <1>3, <1>5, InformsAll DEF filters
<1>7. ~Inner(new[1])
  BY <1>3 DEF Informs, Inner
<1> QED
  BY <1>1, <1>4, <1>5, <1>6, <1>7, CallKeeps

LEMMA ClearChangedKeeps ==
  ASSUME IInv, ClearChanged
  PROVE  IInv'
<1>1. /\ Doing(Input, "clear", None) /\ Then(Input, <<>>) /\ changed' = FALSE
      /\ UNCHANGED <<currentService, currentMultiplex, cached, filters, tables, mixed, lost>>
  BY DEF ClearChanged
<1>2. Input \in Thread /\ User \in Thread /\ User # Input
  BY TuningAssumption DEF Thread
<1>3. Effect(Input, <<"clear", None>>, <<>>)
  <2>1. <<>> \in Seq(Steps(Input))
    OBVIOUS
  <2> QED
    BY <1>1, <1>2, <2>1, NoSteps, Stepped DEF IInv
<1>4. /\ UNCHANGED <<exists, service, avsOnly, pids, chosen, patOf, pmtOf>>
      /\ UNCHANGED <<info, services, handles, heard>>
  BY <1>1 DEF filters, tables
<1>5. Unsettled => Unsettled'
  <2>1. Holds(todo[Input], <<"clear", None>>) /\ todo'[User] = todo[User]
    BY <1>2, <1>3 DEF Effect
  <2> QED
    BY <1>1, <2>1 DEF Unsettled
<1>6. \A y : y # <<"clear", None>> /\ Holds(todo[Input], y) => Holds(todo'[Input], y)
  BY <1>2, <1>3 DEF Effect
<1>7. ServicesInStep' /\ HandlesInStep'
  <2>1. <<"services", None>> # <<"clear", None>> /\ <<"attach", None>> # <<"clear", None>>
    OBVIOUS
  <2> QED
    BY <1>1, <1>4, <1>5, <1>6, <2>1 DEF IInv, ServicesInStep, HandlesInStep, ServicesOf
<1>8. CacheInStep' /\ HeardInCache'
  <2>1. CacheInStep'
    BY <1>1, <1>2, <1>3, CacheKept
  <2> QED
    BY <1>1, <1>4, <2>1 DEF IInv, HeardInCache, ServicesOf
<1>9. ChosenInStep'
  <2>1. PICK step : step = "clear"
    OBVIOUS
  <2>2. Effect(Input, <<step, None>>, <<>>) /\ step \notin {"updated", "rewrite PMT"}
    BY <1>3, <2>1
  <2> QED
    BY <1>2, <1>4, <2>2, ChosenKept
<1>10. OneRebuilds' /\ PidsInStep'
  BY <1>1, <1>2, <1>3, <1>4, <1>5, PidsKept
<1>11. Blank' /\ TablesNamed'
  BY <1>4, FiltersKept
<1>12. Typed' /\ Formed'
  BY <1>1, <1>3, <1>4 DEF Effect, IInv, Typed, Existing
<1> QED
  BY <1>7, <1>8, <1>9, <1>10, <1>11, <1>12 DEF IInv

LEMMA ReceivePMTKeeps ==
  ASSUME IInv, ReceivePMT
  PROVE  IInv'
<1>0. PICK s \in handles : \E i \in Infos[s] :
        /\ cached = MuxOf[s]
        /\ Call(Input, ForEach("updated", s))
        /\ info' = [info EXCEPT ![s] = i]
        /\ heard' = heard \cup {s}
        /\ UNCHANGED <<currentService, currentMultiplex, cached, changed, filters, services,
                       handles, mixed, lost>>
  BY DEF ReceivePMT
<1>1. PICK i \in Infos[s] :
        /\ cached = MuxOf[s]
        /\ Call(Input, ForEach("updated", s))
        /\ info' = [info EXCEPT ![s] = i]
        /\ heard' = heard \cup {s}
        /\ UNCHANGED <<currentService, currentMultiplex, cached, changed, filters, services,
                       handles, mixed, lost>>
  BY <1>0
<1>2. UNCHANGED <<exists, service, avsOnly, pids, chosen, patOf, pmtOf>>
  BY <1>1 DEF filters
<1>3. s \in Service /\ Input \in Thread /\ User \in Thread /\ User # Input
  BY TuningAssumption DEF IInv, Typed, Thread
<1>4. PICK S, step, new : S = Steps(Input) /\ step = "updated" /\ new = ForEach(step, s)
  OBVIOUS
<1>5. Tells(S, step, s, new)
  <2>1. \A f \in Existing : <<step, <<f, s>>>> \in S
    BY <1>3, <1>4, StepsMade
  <2>2. exists \in Seq(Filter) /\ step \in {"callback", "updated"}
    BY <1>4 DEF IInv, Typed
  <2> QED
    BY <1>4, <2>1, <2>2, EachTold
<1>6. Begun(Input, new)
  BY <1>1, <1>3, <1>4, <1>5, Called DEF IInv, Tells
<1>7. \A f \in Existing : Holds(todo'[Input], <<"updated", <<f, s>>>>)
  BY <1>4, <1>5, <1>6 DEF Tells, Begun
<1>8. ~Holds(new, <<"clear", None>>) /\ \A f : ~Now(Input, f)'
  <2>1. ~Holds(new, <<"clear", None>>)
    BY <1>4, <1>5 DEF Tells
  <2>2. ASSUME NEW f, Now(Input, f)' PROVE FALSE
    <3>1. new # <<>> /\ About(new[1], f)
      BY <1>6, <2>2 DEF Now, Begun
    <3>2. Len(new) \in Nat /\ Len(new) # 0
      BY <1>5, <3>1, EmptySeq DEF Tells
    <3>3. new[1][1] = "updated"
      BY <1>4, <1>5, <3>2 DEF Tells
    <3> QED
      BY <3>1, <3>3 DEF About
  <2> QED
    BY <2>1, <2>2
<1>9. \A y : Holds(todo[Input], y) => Holds(todo'[Input], y)
  BY <1>3, <1>6 DEF Begun
<1>10. Unsettled => Unsettled'
  BY <1>1, <1>3, <1>6, <1>8, StaysUnsettled
<1>11. CacheInStep'
  BY <1>1, <1>3, <1>6 DEF Begun, IInv, CacheInStep, TuneNext
<1>12. HeardInCache'
  BY <1>1, <1>3 DEF IInv, HeardInCache, ServicesOf
<1>13. ServicesInStep' /\ HandlesInStep'
  BY <1>1, <1>9, <1>10 DEF IInv, ServicesInStep, HandlesInStep, ServicesOf
<1>14. info \in [Service -> SUBSET Stream] /\ i \subseteq Stream
  BY <1>1, <1>3, FiltersAssumption DEF IInv, Typed
<1>15. \A r \in Service : r # s => info'[r] = info[r]
  BY <1>1, <1>14
<1>16. ChosenInStep'
  <2> SUFFICES ASSUME NEW f \in Existing, avsOnly[f], service[f] \in heard \cup {s}
               PROVE  \/ chosen[f] = info'[service[f]] \cap FirstOfKind
                      \/ Holds(todo'[Input], <<"updated", <<f, service[f]>>>>)
                      \/ Holds(todo'[Input], <<"rewrite PMT", f>>)
    BY <1>1, <1>2 DEF ChosenInStep, ChosenWell, Existing
  <2>1. CASE service[f] = s
    BY <1>7, <2>1
  <2>2. CASE service[f] # s
    <3>1. service[f] \in heard /\ info'[service[f]] = info[service[f]]
      BY <1>15, <2>2 DEF IInv, Typed
    <3> QED
      BY <1>9, <3>1 DEF IInv, ChosenInStep, ChosenWell
  <2> QED
    BY <2>1, <2>2
<1>17. \A o \in Thread : \A f : Now(o, f)' <=> Now(o, f)
  BY <1>6, <1>8 DEF Begun
<1>18. OneRebuilds'
  BY <1>1, <1>17 DEF IInv, OneRebuilds, Thread
<1>19. ASSUME NEW f \in Existing \ mixed
       PROVE  Coming(f)' \/ Unsettled' \/ (\E o \in Thread : Emptied(o, f)') \/ Fits(f)'
  <2>1. CASE Coming(f) \/ Unsettled
    BY <1>6, <1>10, <2>1 DEF Begun
  <2>2. ASSUME NEW o \in Thread, Emptied(o, f) PROVE Emptied(o, f)'
    <3>1. o # Input
      BY <1>6, <2>2 DEF Emptied, Begun
    <3> QED
      BY <1>1, <1>2, <1>6, <1>17, <2>2, <3>1 DEF Emptied, Begun
  <2>3. ASSUME Fits(f) PROVE Fits(f)'
    <3>1. CASE service[f] = s
      BY <1>2, <1>7, <1>17, <2>3, <3>1 DEF Fits
    <3>2. CASE service[f] # s
      <4>1. f \in Filter
        BY ExistingFilters DEF IInv
      <4>2. service[f] # None => info'[service[f]] = info[service[f]]
        BY <1>15, <3>2, <4>1 DEF IInv, Typed
      <4>3. Wanted(f)' = Wanted(f)
        BY <1>1, <1>2, <4>2 DEF Wanted, PidsOf, PidPAT, PidPMT
      <4> QED
        BY <1>2, <1>9, <1>17, <2>3, <4>3 DEF Fits
    <3> QED
      BY <3>1, <3>2
  <2> QED
    BY <2>1, <2>2, <2>3 DEF IInv, PidsInStep
<1>20. PidsInStep'
  BY <1>1, <1>2, <1>19 DEF PidsInStep, Existing
<1>21. Blank' /\ TablesNamed'
  BY <1>2, FiltersKept
<1>22. Typed' /\ Formed'
  BY <1>1, <1>2, <1>3, <1>6, <1>14 DEF Begun, IInv, Typed, Existing
<1> QED
  BY <1>11, <1>12, <1>13, <1>16, <1>18, <1>20, <1>21, <1>22 DEF IInv

LEMMA EventsKeep ==
  ASSUME IInv, Events
  PROVE  IInv'
<1>1. CASE TakeBatch
  BY <1>1, NothingChanges DEF TakeBatch
<1>2. CASE EndBatch
  BY <1>2, NothingChanges DEF EndBatch
<1> QED
  BY <1>1, <1>2, NotifyKeeps, ClearChangedKeeps, ReceivePMTKeeps, ChangeStructureKeeps DEF Events

-----------------------------------------------------------------------------
(* Filters that come and go.                                               *)

LEMMA MembersAdded ==
  ASSUME NEW S, NEW q \in Seq(S), NEW e \in S
  PROVE  Append(q, e) \in Seq(S) /\ ToSet(Append(q, e)) = ToSet(q) \cup {e}
<1> DEFINE r == Append(q, e)
           n == Len(q)
<1>1. /\ r \in Seq(S) /\ Len(r) = n + 1 /\ n \in Nat
      /\ \A i \in 1..n : r[i] = q[i]
      /\ r[n + 1] = e
  BY AppendProperties
<1>2. ToSet(q) = {q[i] : i \in 1..n} /\ ToSet(r) = {r[i] : i \in 1..n + 1}
  BY <1>1, LenProperties DEF ToSet
<1> HIDE DEF r, n
<1>3. \A v : v \in ToSet(r) <=> v \in ToSet(q) \/ v = e
  BY <1>1, <1>2
<1> QED
  BY <1>1, <1>3 DEF r

LEMMA MembersRemoved ==
  ASSUME NEW S, NEW q \in Seq(S), NEW k \in 1..Len(q)
  PROVE  /\ RemoveAt(q, k) \in Seq(S)
         /\ ToSet(RemoveAt(q, k)) \subseteq ToSet(q)
         /\ ToSet(q) \subseteq ToSet(RemoveAt(q, k)) \cup {q[k]}
<1> DEFINE n     == Len(q)
           first == SubSeq(q, 1, k - 1)
           rest  == SubSeq(q, k + 1, n)
           r     == RemoveAt(q, k)
<1>1. n \in Nat /\ k \in Nat /\ k <= n
  OBVIOUS
<1>2. /\ first \in Seq(S) /\ Len(first) = k - 1
      /\ \A i \in 1..k - 1 : first[i] = q[i]
  BY <1>1
<1>3. /\ rest \in Seq(S) /\ Len(rest) = n - k
      /\ \A i \in 1..n - k : rest[i] = q[k + i]
  BY <1>1
<1>4. r = first \o rest
  BY DEF RemoveAt
<1> HIDE DEF first, rest, r
<1>5. /\ r \in Seq(S) /\ Len(r) = Len(first) + Len(rest)
      /\ \A i \in 1..Len(first) + Len(rest) :
           r[i] = IF i <= Len(first) THEN first[i] ELSE rest[i - Len(first)]
  BY <1>2, <1>3, <1>4, ConcatProperties
<1>6. ToSet(q) = {q[i] : i \in 1..n} /\ ToSet(r) = {r[i] : i \in 1..n - 1} /\ Len(r) = n - 1
  <2>1. Len(r) = n - 1
    BY <1>1, <1>2, <1>3, <1>5
  <2>2. DOMAIN q = 1..n /\ DOMAIN r = 1..Len(r)
    BY <1>5, LenProperties
  <2> QED
    BY <2>1, <2>2 DEF ToSet
<1> HIDE DEF n
<1>7. \A i \in 1..n - 1 : \E j \in 1..n : r[i] = q[j]
  <2> SUFFICES ASSUME NEW i \in 1..n - 1 PROVE \E j \in 1..n : r[i] = q[j]
    OBVIOUS
  <2>1. CASE i < k
    <3>1. i \in 1..k - 1 /\ i \in 1..n /\ i \in 1..(k - 1) + (n - k) /\ i <= k - 1
      BY <1>1, <2>1
    <3>2. r[i] = q[i]
      BY <1>2, <1>3, <1>5, <3>1
    <3> QED
      BY <3>1, <3>2
  <2>2. CASE ~(i < k)
    <3>1. PICK j \in 1..n - k : j = i - (k - 1)
      BY <1>1, <2>2
    <3>2. i \in 1..(k - 1) + (n - k) /\ ~(i <= k - 1) /\ k + j \in 1..n
      BY <1>1, <2>2, <3>1
    <3>3. r[i] = q[k + j]
      BY <1>2, <1>3, <1>5, <3>1, <3>2
    <3> QED
      BY <3>2, <3>3
  <2> QED
    BY <2>1, <2>2
<1>8. \A j \in 1..n : j # k => \E i \in 1..n - 1 : r[i] = q[j]
  <2> SUFFICES ASSUME NEW j \in 1..n, j # k PROVE \E i \in 1..n - 1 : r[i] = q[j]
    OBVIOUS
  <2>1. CASE j < k
    <3>1. j \in 1..k - 1 /\ j \in 1..n - 1 /\ j \in 1..(k - 1) + (n - k) /\ j <= k - 1
      BY <1>1, <2>1
    <3>2. r[j] = q[j]
      BY <1>2, <1>3, <1>5, <3>1
    <3> QED
      BY <3>1, <3>2
  <2>2. CASE ~(j < k)
    <3>1. PICK i \in 1..n - k : i = j - k
      BY <1>1, <2>2
    <3>2. PICK l \in 1..n - 1 : l = j - 1
      BY <1>1, <2>2
    <3>3. l \in 1..(k - 1) + (n - k) /\ ~(l <= k - 1) /\ l - (k - 1) = i /\ k + i = j
      BY <1>1, <2>2, <3>1, <3>2
    <3>4. r[l] = q[j]
      BY <1>2, <1>3, <1>5, <3>1, <3>3, ZenonT(40)
    <3> QED
      BY <3>4
  <2> QED
    BY <2>1, <2>2
<1>9. \A v : v \in ToSet(r) => v \in ToSet(q)
  BY <1>6, <1>7
<1>10. \A v : v \in ToSet(q) => v \in ToSet(r) \/ v = q[k]
  BY <1>6, <1>8
<1> QED
  BY <1>5, <1>9, <1>10 DEF r

\* Neither thread has a call, and the filters change at most at f.
LEMMA ComesOrGoes ==
  ASSUME IInv, Idle(User), Idle(Input), NEW f \in Filter,
         UNCHANGED <<todo, currentService, currentMultiplex, cached, changed, tables, lost>>,
         exists' \in Seq(Filter), Primary \in Existing',
         Existing' \subseteq Existing \cup {f}, Existing \subseteq Existing' \cup {f},
         service' = [service EXCEPT ![f] = None], avsOnly' = [avsOnly EXCEPT ![f] = FALSE],
         pids' = [pids EXCEPT ![f] = {}], chosen' \in [Filter -> SUBSET Stream],
         patOf' \in [Filter -> Service \cup {None}], pmtOf' \in [Filter -> Service \cup {None}],
         \A g \in Filter \ {f} :
           /\ chosen'[g] = chosen[g] /\ patOf'[g] = patOf[g] /\ pmtOf'[g] = pmtOf[g]
           /\ g \in mixed <=> g \in mixed'
  PROVE  IInv'
<1>1. UNCHANGED <<info, services, handles, heard>>
  BY DEF tables
<1>2. /\ service \in [Filter -> Service \cup {None}] /\ avsOnly \in [Filter -> BOOLEAN]
      /\ pids = [g \in Filter |-> pids[g]] /\ Existing \subseteq Filter
  BY ExistingFilters DEF IInv, Typed
<1>3. /\ service' \in [Filter -> Service \cup {None}] /\ service'[f] = None
      /\ \A g \in Filter \ {f} : service'[g] = service[g]
  BY <1>2
<1>4. /\ avsOnly' \in [Filter -> BOOLEAN] /\ ~avsOnly'[f]
      /\ \A g \in Filter \ {f} : avsOnly'[g] = avsOnly[g]
  BY <1>2
<1>5. /\ pids' = [g \in Filter |-> pids'[g]] /\ pids'[f] = {}
      /\ \A g \in Filter \ {f} : pids'[g] = pids[g]
  BY <1>2
<1>6. \A t \in Thread : todo[t] = <<>> /\ todo'[t] = <<>>
  BY DEF Idle, Thread
<1>7. \A t \in Thread : \A g : ~Now(t, g) /\ ~Now(t, g)'
  BY <1>6 DEF Now
<1>8. \A g : Coming(g)' <=> Coming(g)
  BY DEF Coming
<1>9. Unsettled' <=> Unsettled
  BY DEF Unsettled
<1>10. CacheInStep' /\ HeardInCache' /\ ServicesInStep' /\ HandlesInStep'
  BY <1>1, <1>9 DEF IInv, CacheInStep, TuneNext, HeardInCache, ServicesInStep, HandlesInStep, ServicesOf
<1>11. Typed'
  <2>1. todo'[User] = <<>> /\ todo'[Input] = <<>>
    BY <1>6 DEF Thread
  <2>2. /\ todo'[User] \in Seq(UserSteps(Existing)') /\ todo'[Input] \in Seq(InputSteps(Existing)')
    BY <2>1
  <2>3. todo' = [t \in Thread |-> todo'[t]]
    BY DEF IInv, Typed
  <2> QED
    BY <1>1, <1>3, <1>4, <1>5, <2>2, <2>3 DEF IInv, Typed
<1>12. Formed'
  BY DEF IInv, Formed
<1>13. Blank'
  BY <1>3, <1>4, <1>5 DEF IInv, Blank
<1>14. TablesNamed'
  BY <1>3, <1>4 DEF IInv, TablesNamed, TableNamed
<1>15. ChosenInStep'
  <2> SUFFICES ASSUME NEW g \in Existing', avsOnly'[g], service'[g] \in heard
               PROVE  \/ chosen'[g] = info[service'[g]] \cap FirstOfKind
                      \/ Holds(todo[Input], <<"updated", <<g, service'[g]>>>>)
                      \/ Holds(todo[Input], <<"rewrite PMT", g>>)
    BY <1>1 DEF ChosenInStep, ChosenWell
  <2>1. g # f /\ g \in Existing /\ g \in Filter
    BY <1>2, <1>4
  <2>2. service'[g] = service[g] /\ avsOnly'[g] = avsOnly[g] /\ chosen'[g] = chosen[g]
    BY <1>3, <1>4, <2>1
  <2> QED
    BY <2>1, <2>2 DEF IInv, ChosenInStep, ChosenWell
<1>16. OneRebuilds'
  BY <1>7 DEF OneRebuilds, Thread
<1>17. ASSUME NEW g \in Existing' \ mixed'
       PROVE  Coming(g)' \/ Unsettled' \/ (\E t \in Thread : Emptied(t, g)') \/ Fits(g)'
  <2>1. CASE g = f
    <3>1. Wanted(g)' = {}
      BY <1>3, <2>1 DEF Wanted
    <3> QED
      BY <1>5, <1>7, <2>1, <3>1 DEF Fits
  <2>2. CASE g # f
    <3>1. g \in Existing \ mixed /\ g \in Filter
      BY <1>2, <2>2
    <3>2. service'[g] = service[g] /\ avsOnly'[g] = avsOnly[g] /\ chosen'[g] = chosen[g]
          /\ pids'[g] = pids[g]
      BY <1>3, <1>4, <1>5, <2>2, <3>1
    <3>3. Wanted(g)' = Wanted(g)
      <4>1. PICK A : A = IF avsOnly[g] THEN chosen[g] ELSE info[service[g]]
        OBVIOUS
      <4>2. A = IF avsOnly'[g] THEN chosen'[g] ELSE info'[service'[g]]
        BY <1>1, <3>2, <4>1
      <4>3. PICK B : B = PidsOf(service[g], A)
        OBVIOUS
      <4>4. Wanted(g) = IF service[g] = None \/ currentMultiplex = None THEN {}
                        ELSE IF MuxOf[service[g]] # currentMultiplex THEN {} ELSE B
        BY <4>1, <4>3 DEF Wanted
      <4>5. B = PidsOf(service'[g], A)
        BY <3>2, <4>3
      <4>6. Wanted(g)' = IF service'[g] = None \/ currentMultiplex' = None THEN {}
                         ELSE IF MuxOf[service'[g]] # currentMultiplex' THEN {} ELSE B
        BY <4>2, <4>5 DEF Wanted
      <4> QED
        BY <3>2, <4>4, <4>6
    <3>4. Coming(g) \/ Unsettled \/ Fits(g)
      BY <1>7, <3>1 DEF IInv, PidsInStep, Emptied
    <3> QED
      BY <1>7, <1>8, <1>9, <3>2, <3>3, <3>4 DEF Fits
  <2> QED
    BY <2>1, <2>2
<1>18. PidsInStep'
  BY <1>17 DEF PidsInStep
<1> QED
  BY <1>10, <1>11, <1>12, <1>13, <1>14, <1>15, <1>16, <1>18 DEF IInv

LEMMA AddSFKeeps ==
  ASSUME IInv, AddSF
  PROVE  IInv'
<1>1. PICK f \in Filter \ Existing : exists' = Append(exists, f)
  BY DEF AddSF
<1>2. /\ Idle(User) /\ Idle(Input)
      /\ UNCHANGED <<tuning, service, avsOnly, pids, chosen, patOf, pmtOf, tables, mixed, lost>>
  BY DEF AddSF
<1>3. UNCHANGED <<todo, currentService, currentMultiplex, cached, changed>>
  BY <1>2 DEF tuning
<1>4. exists \in Seq(Filter) /\ Primary \in Existing
  BY DEF IInv, Typed
<1>5. exists' \in Seq(Filter) /\ Existing' = Existing \cup {f}
  BY <1>1, <1>4, MembersAdded DEF Existing
<1>6. service[f] = None /\ ~avsOnly[f] /\ pids[f] = {}
  BY <1>1 DEF IInv, Blank
<1>7. /\ service' = [service EXCEPT ![f] = None]
      /\ avsOnly' = [avsOnly EXCEPT ![f] = FALSE]
      /\ pids' = [pids EXCEPT ![f] = {}]
  <2>1. /\ service \in [Filter -> Service \cup {None}] /\ avsOnly \in [Filter -> BOOLEAN]
        /\ pids = [g \in Filter |-> pids[g]]
    BY DEF IInv, Typed
  <2>2. service = [service EXCEPT ![f] = None]
    BY <1>6, <2>1
  <2>3. avsOnly = [avsOnly EXCEPT ![f] = FALSE]
    BY <1>6, <2>1
  <2>4. pids = [pids EXCEPT ![f] = {}]
    BY <1>6, <2>1
  <2> QED
    BY <1>2, <2>2, <2>3, <2>4
<1>8. /\ chosen' \in [Filter -> SUBSET Stream] /\ patOf' \in [Filter -> Service \cup {None}]
      /\ pmtOf' \in [Filter -> Service \cup {None}]
  BY <1>2 DEF IInv, Typed
<1> QED
  BY <1>2, <1>3, <1>4, <1>5, <1>7, <1>8, ComesOrGoes

LEMMA RemoveSFKeeps ==
  ASSUME IInv, RemoveSF
  PROVE  IInv'
<1>1. PICK f \in Existing \ {Primary} :
        /\ \E i \in 1..Len(exists) : exists[i] = f /\ exists' = RemoveAt(exists, i)
        /\ service' = [service EXCEPT ![f] = None]
        /\ avsOnly' = [avsOnly EXCEPT ![f] = FALSE]
        /\ pids' = [pids EXCEPT ![f] = {}]
        /\ chosen' = [chosen EXCEPT ![f] = {}]
        /\ patOf' = [patOf EXCEPT ![f] = None]
        /\ pmtOf' = [pmtOf EXCEPT ![f] = None]
        /\ mixed' = mixed \ {f}
  BY DEF RemoveSF
<1>2. Idle(User) /\ Idle(Input) /\ UNCHANGED <<tuning, tables, lost>>
  BY DEF RemoveSF
<1>3. UNCHANGED <<todo, currentService, currentMultiplex, cached, changed>>
  BY <1>2 DEF tuning
<1>4. PICK i \in 1..Len(exists) : exists[i] = f /\ exists' = RemoveAt(exists, i)
  BY <1>1
<1>5. /\ exists \in Seq(Filter) /\ Primary \in Existing /\ f \in Filter
      /\ chosen \in [Filter -> SUBSET Stream] /\ patOf \in [Filter -> Service \cup {None}]
      /\ pmtOf \in [Filter -> Service \cup {None}]
  BY ExistingFilters DEF IInv, Typed
<1>6. /\ exists' \in Seq(Filter) /\ Existing' \subseteq Existing
      /\ Existing \subseteq Existing' \cup {f}
  BY <1>4, <1>5, MembersRemoved DEF Existing
<1>7. Primary \in Existing'
  BY <1>1, <1>5, <1>6
<1>8. /\ chosen' \in [Filter -> SUBSET Stream] /\ patOf' \in [Filter -> Service \cup {None}]
      /\ pmtOf' \in [Filter -> Service \cup {None}]
      /\ \A g \in Filter \ {f} :
           /\ chosen'[g] = chosen[g] /\ patOf'[g] = patOf[g] /\ pmtOf'[g] = pmtOf[g]
           /\ g \in mixed <=> g \in mixed'
  BY <1>1, <1>5
<1> QED
  BY <1>1, <1>2, <1>3, <1>5, <1>6, <1>7, <1>8, ComesOrGoes

-----------------------------------------------------------------------------
(* The theorem.                                                            *)

LEMMA InitIInv == Init => IInv
<1> SUFFICES ASSUME Init PROVE IInv
  OBVIOUS
<1>1. /\ todo = [t \in Thread |-> <<>>] /\ todo[User] = <<>> /\ todo[Input] = <<>>
      /\ currentService = None /\ currentMultiplex = None /\ cached = None /\ changed = FALSE
  BY DEF Init, TuningInit, Thread
<1>2. exists = <<Primary>> /\ exists \in Seq(Filter) /\ Existing = {Primary}
  <2>1. exists = <<Primary>> /\ Primary \in Filter
    BY DEF Init, Filter
  <2>2. exists \in Seq(Filter) /\ Len(exists) = 1 /\ exists[1] = Primary
    BY <2>1
  <2>3. Existing = {exists[i] : i \in 1..1}
    BY <2>2, LenProperties DEF Existing, ToSet
  <2> QED
    BY <2>1, <2>2, <2>3
<1>3. /\ service = [f \in Filter |-> None] /\ avsOnly = [f \in Filter |-> FALSE]
      /\ pids = [f \in Filter |-> {}] /\ chosen = [f \in Filter |-> {}]
      /\ patOf = [f \in Filter |-> None] /\ pmtOf = [f \in Filter |-> None]
      /\ info \in [Service -> SUBSET Stream]
      /\ services = {} /\ handles = {} /\ heard = {} /\ lost = FALSE
  BY DEF Init
<1>4. \A t \in Thread : Len(todo[t]) = 0 /\ todo[t] = <<>>
  BY <1>1 DEF Thread
<1>5. Typed
  <2>1. todo[User] \in Seq(UserSteps(Existing)) /\ todo[Input] \in Seq(InputSteps(Existing))
    <3>1. todo[User] = <<>> /\ todo[Input] = <<>>
      BY <1>1
    <3> QED
      BY <3>1
  <2>2. todo = [t \in Thread |-> todo[t]]
    BY <1>1
  <2>3. avsOnly \in [Filter -> BOOLEAN]
    BY <1>3
  <2>4. /\ service \in [Filter -> Service \cup {None}] /\ chosen \in [Filter -> SUBSET Stream]
        /\ patOf \in [Filter -> Service \cup {None}] /\ pmtOf \in [Filter -> Service \cup {None}]
        /\ pids = [f \in Filter |-> pids[f]]
    BY <1>3
  <2> QED
    BY <1>1, <1>2, <1>3, <2>1, <2>2, <2>3, <2>4 DEF Typed
<1>6. Formed
  BY <1>1, NoSteps DEF Formed
<1>7. Blank /\ TablesNamed /\ ChosenInStep
  BY <1>2, <1>3 DEF Blank, TablesNamed, TableNamed, ChosenInStep, ChosenWell, Filter
<1>8. CacheInStep /\ HeardInCache
  BY <1>1, <1>3 DEF CacheInStep, TuneNext, HeardInCache
<1>9. ServicesInStep /\ HandlesInStep
  <2>1. ServicesOf(cached) = {}
    BY <1>1, TuningAssumption DEF ServicesOf
  <2> QED
    BY <1>3, <2>1 DEF ServicesInStep, HandlesInStep
<1>10. \A t \in Thread : \A f : ~Now(t, f)
  BY <1>4 DEF Now
<1>11. OneRebuilds
  BY <1>10 DEF OneRebuilds, Thread
<1>12. PidsInStep
  <2> SUFFICES ASSUME NEW f \in Existing PROVE Fits(f)
    BY DEF PidsInStep
  <2>1. pids[f] = {} /\ service[f] = None
    BY <1>2, <1>3 DEF Filter
  <2>2. Wanted(f) = {}
    BY <2>1 DEF Wanted
  <2> QED
    BY <1>10, <2>1, <2>2 DEF Fits
<1> QED
  BY <1>5, <1>6, <1>7, <1>8, <1>9, <1>11, <1>12 DEF IInv

LEMMA TuneStepKeeps ==
  ASSUME IInv, NEW t \in Thread, TuneStep(t)
  PROVE  IInv'
  BY EnableKeeps, FindKeeps, TuneKeeps, SetCurrentKeeps, LoadKeeps, AnnounceKeeps DEF TuneStep

LEMMA StepKeeps ==
  ASSUME IInv, NEW t \in Thread, Step(t)
  PROVE  IInv'
  BY TuneStepKeeps, FollowKeeps, DropKeeps, CallbackKeeps, AssignKeeps, AssignAVSOnlyKeeps,
     RewriteKeeps, PidsUpdatedKeeps, PidsUpdatedRewriteKeeps, CheckKeeps, AddKeeps,
     TakeServicesKeeps, AttachPMTKeeps, AttachNothingKeeps, AttachedPMTsKeeps DEF Step

LEMMA NextKeepsIInv == IInv /\ [Next]_vars => IInv'
<1> SUFFICES ASSUME IInv, [Next]_vars PROVE IInv'
  OBVIOUS
<1>1. CASE UNCHANGED vars
  <2>1. /\ UNCHANGED <<todo, currentService, currentMultiplex, cached, changed>>
        /\ UNCHANGED <<filters, tables, mixed, lost>>
    BY <1>1 DEF vars, tuning
  <2> QED
    BY <2>1, NothingChanges
<1>2. CASE Command
  BY <1>2, SelectKeeps, SetSFServiceKeeps, SetSFAVSOnlyKeeps, RemoveSFKeeps DEF Command
<1>3. CASE AddSF
  BY <1>3, AddSFKeeps
<1>4. CASE Events
  BY <1>4, EventsKeep
<1>5. ASSUME NEW t \in Thread, Step(t) PROVE IInv'
  BY <1>5, StepKeeps
<1> QED
  BY <1>1, <1>2, <1>3, <1>4, <1>5 DEF Next

\* Nothing is to come any more, so every filter is as it should be.
LEMMA IInvFollows == IInv => SettledFiltersFollow
<1> SUFFICES ASSUME IInv, Settled
             PROVE  /\ \A f \in Existing \ mixed :
                         /\ pids[f] = Wanted(f)
                         /\ (avsOnly[f] /\ service[f] \in heard)
                              => chosen[f] = info[service[f]] \cap FirstOfKind
                         /\ pids[f] # {} => /\ patOf[f] = service[f]
                                            /\ avsOnly[f] => pmtOf[f] = service[f]
                    /\ handles = ServicesOf(cached) /\ services = ServicesOf(cached)
  BY DEF SettledFiltersFollow, FollowsItsService, MonitorsTheCache
<1>1. todo[User] = <<>> /\ todo[Input] = <<>> /\ ~changed /\ ~lost
  BY DEF Settled, Idle
<1>2. \A t \in Thread : todo[t] = <<>> /\ Len(todo[t]) = 0
  BY <1>1 DEF Thread
<1>3. \A y : ~Holds(todo[User], y) /\ ~Holds(todo[Input], y)
  BY <1>1 DEF Holds
<1>4. ~Unsettled
  BY <1>1, <1>3 DEF Unsettled
<1>5. handles = ServicesOf(cached) /\ services = ServicesOf(cached)
  BY <1>3, <1>4 DEF IInv, ServicesInStep, HandlesInStep
<1>6. ASSUME NEW f \in Existing \ mixed
      PROVE  /\ pids[f] = Wanted(f)
             /\ (avsOnly[f] /\ service[f] \in heard)
                  => chosen[f] = info[service[f]] \cap FirstOfKind
             /\ pids[f] # {} => patOf[f] = service[f] /\ (avsOnly[f] => pmtOf[f] = service[f])
  <2>1. ~Coming(f) /\ ~(\E t \in Thread : Emptied(t, f))
    BY <1>2 DEF Coming, Emptied, Now
  <2>2. Fits(f)
    BY <1>4, <2>1 DEF IInv, PidsInStep
  <2>3. pids[f] = Wanted(f)
    BY <1>3, <2>2 DEF Fits
  <2>4. (avsOnly[f] /\ service[f] \in heard)
          => chosen[f] = info[service[f]] \cap FirstOfKind
    BY <1>3 DEF IInv, ChosenInStep, ChosenWell
  <2>5. pids[f] # {} => service[f] # None
    BY <2>3 DEF Wanted
  <2>6. f \in Filter
    BY ExistingFilters DEF IInv
  <2> QED
    BY <2>3, <2>4, <2>5, <2>6 DEF IInv, TablesNamed, TableNamed
<1> QED
  BY <1>5, <1>6

\* Once no call is under way and every change of multiplex has been told, each
\* filter has the PIDs of its service as the last PMT gave them and no others,
\* the PAT and PMT it sends name that service, and the PMT processor has a
\* decoder for the services in the cache and no other: whatever the user and the
\* input thread did before, with any numbers of services, multiplexes and
\* filters (servicefilter.c, pmtprocessor.c, the notification of ts.c).
THEOREM FiltersFollow == Spec => []SettledFiltersFollow
  BY InitIInv, NextKeepsIInv, IInvFollows, PTL DEF Spec

=============================================================================
