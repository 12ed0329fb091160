---------------------------- MODULE ScanningProofs ----------------------------
(***************************************************************************)
(* What a scan promises, for any database, spectrum and network: every     *)
(* entry its list had at the start is tuned to, and the service that was   *)
(* watched comes back. Both rest on what is known of the calls of the two  *)
(* threads, and of the list, at every step (ScanKnown, RestoreKnown).      *)
(***************************************************************************)
EXTENDS Scanning, TLAPS, FiniteSetTheorems, SequenceTheorems

-----------------------------------------------------------------------------
(* The calls.                                                              *)

IsSeq(q) == \E S : q \in Seq(S)

\* The next step of t, whether or not the program has crashed.
At(t, step, x) == ~Idle(t) /\ Head(todo[t]) = <<step, x>>

\* The steps of the commands and of a selection, and those of the machine.
UserSteps == {"list", "start", "disable", "find", "load", "tune", "announce", "current",
              "follow", "enable"}
InputSteps == {"scan", "again", "check", "disable", "retune", "load", "tune", "announce",
               "enable", "frontend", "wait", "restore", "finish"}

StepsOf(t) == IF t = User THEN UserSteps ELSE InputSteps

\* A call of t may have step b after step a.
Follows(t, a, b) ==
  \/ a[1] = "list" /\ b[1] = "start"
  \/ a[1] = "disable" /\ b[1] \in {"find", "retune", "load", "frontend"}
  \/ a[1] = "load" /\ b = <<"tune", a[2]>>
  \/ a[1] = "tune" /\ b = <<"announce", a[2]>>
  \/ a[1] = "announce" /\ t = Input /\ b = <<"enable", None>>
  \/ a[1] = "announce" /\ t = User /\ \E s \in Service : b = <<"current", s>> /\ MuxOf[s] = a[2]
  \/ a[1] = "current" /\ b = <<"follow", None>>
  \/ a[1] = "follow" /\ b = <<"enable", None>>
  \/ a[1] = "enable" /\ t = Input /\ b[1] \in {"wait", "finish"}
  \/ a[1] \in {"retune", "restore"} /\ b[1] = "finish"
  \/ a[1] \in {"scan", "frontend", "wait", "finish"} /\ b[1] \in {"again", "check"}

\* The steps a call may end with.
MayEnd(t, a) ==
  \/ a[1] \in {"start", "find", "scan", "again", "check", "frontend", "wait", "finish"}
  \/ a[1] = "enable" /\ t = User

CallOf(t, q) ==
  /\ IsSeq(q)
  /\ \A i \in 1..Len(q) :
       /\ q[i][1] \in StepsOf(t)
       /\ IF i = Len(q) THEN MayEnd(t, q[i]) ELSE Follows(t, q[i], q[i + 1])

\* Steps of t that may come one after the other.
Runs(t, p) ==
  /\ IsSeq(p)
  /\ \A i \in 1..Len(p) : p[i][1] \in StepsOf(t)
  /\ \A i \in 1..Len(p) - 1 : Follows(t, p[i], p[i + 1])

\* They may take the place of step a.
Replaces(t, p, a) ==
  /\ Runs(t, p)
  /\ p # <<>> => /\ MayEnd(t, a) => MayEnd(t, p[Len(p)])
                 /\ \A b : Follows(t, a, b) => Follows(t, p[Len(p)], b)

CallsFit ==
  /\ DOMAIN todo = Thread
  /\ \A t \in Thread : CallOf(t, todo[t])

\* The input thread has this step still to take.
Has(step) == \E i \in 1..Len(todo[Input]) : todo[Input][i][1] = step

\* The calls of the input thread fit the state of the machine.
StateFits ==
  /\ state \in States
  /\ state = "Init" => todo[Input] = Entered
  /\ state = "Stopped" =>
       /\ ~locked
       /\ \A i \in 1..Len(todo[Input]) : todo[Input][i][1] \in {"scan", "again", "check"}
  /\ Has("wait") => state = "NextMux"
  /\ Has("restore") \/ Has("retune") \/ Has("finish") => state = "Stopping" /\ ~locked

-----------------------------------------------------------------------------
(* The list.                                                               *)

EntryLike(e) == e = [mux |-> e.mux, docs |-> e.docs] /\ IsSeq(e.docs)

EntriesLike(q) == IsSeq(q) /\ \A i \in 1..Len(q) : EntryLike(q[i])

ListTyped ==
  /\ EntriesLike(entries)
  /\ listed \in 0..Len(entries)
  /\ current \in 0..Len(entries)
  /\ param \in Nat
  /\ transponders = None \/ IsSeq(transponders)

\* Nothing is left to try of this entry.
Fine(i) == i \in tried \/ entries[i] = UnknownEntry(<<>>)

\* The entries of this scan that come before the next one.
Before(i) == i \in 1..listed /\ (current = 0 \/ i < current)

\* Its first parameters are still to be tried.
ToTry ==
  \/ At(Input, "scan", "Next") /\ param = 0
  \/ \E m : At(Input, "frontend", m)
  \/ At(Input, "disable", None) /\ \E m : todo[Input][2] = <<"frontend", m>>

EntriesFine ==
  /\ state \in {"WaitingForTables", "WaitingForNIT"} => \A i : Before(i) => Fine(i)
  /\ state = "NextMux" =>
       IF At(Input, "scan", "Entered") THEN \A i : Before(i) => Fine(i)
       ELSE /\ entry \in 1..Len(entries)
            /\ \A i : Before(i) /\ i # entry => Fine(i)
            /\ entry \in tried \/ ToTry
  /\ state = "Canceling" => cancelled
  /\ state = "Stopping" /\ ~cancelled => \A i \in 1..listed : Fine(i)

ScanKnown == CallsFit /\ StateFits /\ ListTyped /\ EntriesFine

-----------------------------------------------------------------------------
(* The current service.                                                    *)

\* A scan is under way.
Busy == States \ {"Init", "Stopped"}

\* The scan has ended, but for what Finish does.
Over == state = "Stopped" \/ At(Input, "finish", None)

\* Only one of the threads tunes.
OneTunes == ~(Tunes(User) /\ Tunes(Input))

\* What is cached, current and tuned follow each other.
CacheFollows ==
  /\ \A t \in Thread : \A m : At(t, "tune", m) => cached = m
  /\ (\A t \in Thread : \A m : ~At(t, "tune", m)) => cached = currentMultiplex
  /\ \A t \in Thread : \A m : At(t, "announce", m) => /\ currentMultiplex = m
                                                      /\ tunedTo = m
  /\ \A s : At(User, "current", s) => s \in Service /\ currentMultiplex = MuxOf[s]

\* The scan goes back to the multiplex of the current service.
Returns ==
  /\ currentService \in Service \cup {None}
  /\ served /\ state \in Busy => currentService # None
  /\ state = "Stopping" =>
       /\ At(Input, "disable", None) => todo[Input][2][1] # "load"
       /\ \A m : At(Input, "load", m) \/ At(Input, "tune", m) \/ At(Input, "announce", m)
                   => currentService # None /\ m = MuxOf[currentService]
       /\ At(Input, "enable", None) =>
            /\ currentService # None
            /\ {tunedTo, currentMultiplex} = {MuxOf[currentService]}

Returned ==
  served /\ Over =>
    /\ tunedTo = currentMultiplex
    /\ currentService # None =>
         /\ (\A m : ~At(User, "announce", m) /\ ~At(User, "current", m))
              => MuxOf[currentService] = tunedTo
         /\ ~Tunes(User) => enabled

RestoreKnown == ~raced /\ ~crashed => OneTunes /\ CacheFollows /\ Returns /\ Returned

-----------------------------------------------------------------------------
(* Sequences and calls. *)

LEMMA SeqFacts ==
  ASSUME NEW q, IsSeq(q)
  PROVE  /\ Len(q) \in Nat /\ DOMAIN q = 1..Len(q)
         /\ (q = <<>>) <=> (Len(q) = 0)
         /\ q # <<>> => /\ Head(q) = q[1]
                        /\ IsSeq(Tail(q)) /\ Len(Tail(q)) = Len(q) - 1
                        /\ \A i \in 1..Len(q) - 1 : Tail(q)[i] = q[i + 1]
<1>1. PICK S : q \in Seq(S)
  BY DEF IsSeq
<1>2. Len(q) \in Nat /\ DOMAIN q = 1..Len(q)
  BY <1>1, LenProperties
<1>3. (q = <<>>) <=> (Len(q) = 0)
  BY <1>1, EmptySeq
<1>4. ASSUME q # <<>>
      PROVE  /\ Head(q) = q[1] /\ Tail(q) \in Seq(S) /\ Len(Tail(q)) = Len(q) - 1
             /\ \A i \in 1..Len(q) - 1 : Tail(q)[i] = q[i + 1]
  BY <1>1, <1>4, HeadTailProperties
<1> QED
  BY <1>2, <1>3, <1>4 DEF IsSeq

LEMMA Joined ==
  ASSUME NEW p, NEW q, IsSeq(p), IsSeq(q)
  PROVE  /\ IsSeq(p \o q) /\ Len(p \o q) = Len(p) + Len(q)
         /\ \A i \in 1..Len(p) : (p \o q)[i] = p[i]
         /\ \A i \in 1..Len(q) : (p \o q)[Len(p) + i] = q[i]
<1>1. PICK S : p \in Seq(S)
  BY DEF IsSeq
<1>2. PICK T : q \in Seq(T)
  BY DEF IsSeq
<1>3. p \in Seq(S \cup T) /\ q \in Seq(S \cup T)
  BY <1>1, <1>2
<1>4. Len(p) \in Nat /\ Len(q) \in Nat
  BY <1>3, LenProperties
<1>5. /\ p \o q \in Seq(S \cup T) /\ Len(p \o q) = Len(p) + Len(q)
      /\ \A i \in 1..Len(p) + Len(q) : (p \o q)[i] = IF i <= Len(p) THEN p[i] ELSE q[i - Len(p)]
  BY <1>3, ConcatProperties
<1>6. ASSUME NEW i \in 1..Len(p) PROVE (p \o q)[i] = p[i]
  BY <1>4, <1>5
<1>7. ASSUME NEW i \in 1..Len(q) PROVE (p \o q)[Len(p) + i] = q[i]
  <2>1. Len(p) + i \in 1..Len(p) + Len(q) /\ ~(Len(p) + i <= Len(p)) /\ (Len(p) + i) - Len(p) = i
    BY <1>4
  <2> QED
    BY <1>5, <2>1
<1> QED
  BY <1>5, <1>6, <1>7 DEF IsSeq

\* r is p, and then q.
Joins(p, q, r) ==
  /\ IsSeq(r) /\ Len(r) = Len(p) + Len(q)
  /\ \A i \in 1..Len(p) : r[i] = p[i]
  /\ \A i \in 1..Len(q) : r[Len(p) + i] = q[i]

LEMMA JoinedIs ==
  ASSUME NEW p, NEW q, NEW r, IsSeq(p), IsSeq(q), r = p \o q
  PROVE  Joins(p, q, r)
<1>1. /\ IsSeq(p \o q) /\ Len(p \o q) = Len(p) + Len(q)
      /\ \A i \in 1..Len(p) : (p \o q)[i] = p[i]
      /\ \A i \in 1..Len(q) : (p \o q)[Len(p) + i] = q[i]
  BY Joined
<1> QED
  BY <1>1 DEF Joins

LEMMA NoStep == IsSeq(<<>>) /\ Len(<<>>) = 0
  <1>1. <<>> \in Seq({})
    OBVIOUS
  <1> QED
    BY <1>1 DEF IsSeq

LEMMA Steps ==
  ASSUME NEW a, NEW b, NEW c
  PROVE  /\ IsSeq(<<a>>) /\ Len(<<a>>) = 1 /\ <<a>>[1] = a
         /\ IsSeq(<<a, b>>) /\ Len(<<a, b>>) = 2 /\ <<a, b>>[1] = a /\ <<a, b>>[2] = b
         /\ IsSeq(<<a, b, c>>) /\ Len(<<a, b, c>>) = 3 /\ <<a, b, c>>[1] = a
         /\ <<a, b, c>>[2] = b /\ <<a, b, c>>[3] = c
<1>1. /\ <<a>> \in Seq({a, b, c}) /\ <<a, b>> \in Seq({a, b, c})
      /\ <<a, b, c>> \in Seq({a, b, c})
  OBVIOUS
<1> QED
  BY <1>1 DEF IsSeq

Appends(q, h, r) ==
  /\ IsSeq(r) /\ Len(r) = Len(q) + 1
  /\ \A i \in 1..Len(q) : r[i] = q[i]
  /\ r[Len(q) + 1] = h

LEMMA Appended ==
  ASSUME NEW q, NEW h, NEW r, IsSeq(q), r = q \o <<h>>
  PROVE  Appends(q, h, r)
<1>1. PICK p : p = <<h>>
  OBVIOUS
<1>2. IsSeq(p) /\ Len(p) = 1 /\ p[1] = h
  BY <1>1, Steps
<1>3. Joins(q, p, r)
  BY <1>1, <1>2, JoinedIs
<1>4. 1 \in 1..Len(p)
  BY <1>2
<1> QED
  BY <1>2, <1>3, <1>4 DEF Joins, Appends

\* The call goes on with p, the first step is done.
LEMMA Continued ==
  ASSUME NEW t, NEW q, CallOf(t, q), q # <<>>, NEW p, Replaces(t, p, q[1])
  PROVE  CallOf(t, p \o Tail(q))
<1> DEFINE r == p \o Tail(q)
<1>1. /\ Len(q) \in Nat \ {0} /\ IsSeq(Tail(q)) /\ Len(Tail(q)) = Len(q) - 1
      /\ \A i \in 1..Len(q) - 1 : Tail(q)[i] = q[i + 1]
  BY SeqFacts DEF CallOf
<1>2. IsSeq(p) /\ Len(p) \in Nat /\ (p = <<>> <=> Len(p) = 0)
  BY SeqFacts DEF Replaces, Runs
<1>3. /\ IsSeq(r) /\ Len(r) = Len(p) + (Len(q) - 1)
      /\ \A i \in 1..Len(p) : r[i] = p[i]
      /\ \A i \in 1..Len(q) - 1 : r[Len(p) + i] = Tail(q)[i]
  BY <1>1, <1>2, Joined
<1> HIDE DEF r
<1>4. ASSUME NEW i \in 1..Len(q) - 1
      PROVE  r[Len(p) + i] = q[i + 1]
  BY <1>1, <1>3
<1>5. ASSUME NEW k \in 1..Len(r)
      PROVE  /\ r[k][1] \in StepsOf(t)
             /\ IF k = Len(r) THEN MayEnd(t, r[k]) ELSE Follows(t, r[k], r[k + 1])
  <2>1. CASE k < Len(p)
    <3>1. /\ k \in 1..Len(p) /\ k + 1 \in 1..Len(p) /\ k \in 1..Len(p) - 1 /\ k # Len(r)
      BY <1>1, <1>2, <1>3, <2>1
    <3>2. r[k] = p[k] /\ r[k + 1] = p[k + 1]
      BY <1>3, <3>1
    <3> QED
      BY <3>1, <3>2 DEF Replaces, Runs
  <2>2. CASE k = Len(p)
    <3>1. k \in 1..Len(p) /\ r[k] = p[k] /\ p # <<>>
      BY <1>2, <1>3, <2>2
    <3>2. CASE Len(q) = 1
      <4>1. k = Len(r) /\ 1 \in 1..Len(q) /\ MayEnd(t, q[1])
        BY <1>1, <1>2, <1>3, <2>2, <3>2 DEF CallOf
      <4> QED
        BY <2>2, <3>1, <4>1 DEF Replaces, Runs
    <3>3. CASE Len(q) # 1
      <4>1. /\ k # Len(r) /\ 1 \in 1..Len(q) /\ 1 # Len(q) /\ 1 \in 1..Len(q) - 1
        BY <1>1, <1>2, <1>3, <2>2, <3>3
      <4>2. Follows(t, q[1], q[1 + 1]) /\ r[k + 1] = q[1 + 1]
        BY <1>4, <2>2, <4>1 DEF CallOf
      <4> QED
        BY <2>2, <3>1, <4>1, <4>2 DEF Replaces, Runs
    <3> QED
      BY <3>2, <3>3
  <2>3. CASE k > Len(p)
    <3> DEFINE n == Len(p)
               l == Len(q)
    <3>1. n \in Nat /\ l \in Nat \ {0} /\ k \in 1..n + (l - 1) /\ k > n
      BY <1>1, <1>2, <1>3, <1>5, <2>3
    <3> HIDE DEF n, l
    <3>2. k - n \in 1..l - 1
      BY <3>1
    <3>3. PICK j \in 1..Len(q) - 1 : j = k - Len(p)
      BY <3>2 DEF n, l
    <3>4. /\ k = Len(p) + j /\ k + 1 = Len(p) + (j + 1) /\ j + 1 \in 1..Len(q)
          /\ (k = Len(r)) <=> (j + 1 = Len(q))
      BY <1>1, <1>2, <1>3, <3>3
    <3>5. r[k] = q[j + 1]
      BY <1>4, <3>3, <3>4
    <3>6. ASSUME j + 1 # Len(q) PROVE r[k + 1] = q[(j + 1) + 1]
      <4>1. j + 1 \in 1..Len(q) - 1
        BY <1>1, <3>3, <3>6
      <4> QED
        BY <1>4, <3>4, <4>1
    <3> QED
      BY <3>4, <3>5, <3>6 DEF CallOf
  <2> QED
    BY <1>2, <2>1, <2>2, <2>3
<1> QED
  BY <1>3, <1>5 DEF CallOf, r

\* t has taken step a, and p is what it goes on with.
Takes(t, a, p) ==
  /\ t \in Thread /\ ~Idle(t) /\ Head(todo[t]) = a
  /\ Replaces(t, p, a) /\ Then(t, p)

LEMMA Taken ==
  ASSUME CallsFit, NEW t, NEW a, NEW p, Takes(t, a, p)
  PROVE  /\ CallsFit'
         /\ \A u \in Thread \ {t} : todo'[u] = todo[u]
         /\ \A i \in 1..Len(todo'[t]) :
              \/ \E j \in 1..Len(p) : todo'[t][i] = p[j]
              \/ \E j \in 2..Len(todo[t]) : todo'[t][i] = todo[t][j]
         /\ p # <<>> => /\ todo'[t] # <<>> /\ Head(todo'[t]) = p[1]
                        /\ 2 \in 1..Len(p) => todo'[t][2] = p[2]
         /\ p = <<>> => todo'[t] = <<>> \/ Follows(t, a, Head(todo'[t]))
<1> DEFINE q == todo[t]
           r == p \o Tail(q)
<1>1. /\ t \in Thread /\ CallOf(t, q) /\ q # <<>> /\ Head(q) = a /\ Replaces(t, p, a)
      /\ todo' = [todo EXCEPT ![t] = r] /\ DOMAIN todo = Thread
  BY DEF Takes, CallsFit, Idle, Then
<1>2. todo'[t] = r /\ DOMAIN todo' = Thread /\ \A u \in Thread \ {t} : todo'[u] = todo[u]
  BY <1>1
<1>3. /\ Len(q) \in Nat \ {0} /\ IsSeq(Tail(q)) /\ Len(Tail(q)) = Len(q) - 1 /\ q[1] = a
      /\ \A i \in 1..Len(q) - 1 : Tail(q)[i] = q[i + 1]
  BY <1>1, SeqFacts DEF CallOf
<1>4. CallOf(t, r)
  BY <1>1, <1>3, Continued
<1>5. CallsFit'
  <2>1. ASSUME NEW u \in Thread PROVE CallOf(u, todo'[u])
    BY <1>2, <1>4 DEF CallsFit
  <2> QED
    BY <1>2, <2>1 DEF CallsFit, CallOf, StepsOf, MayEnd, Follows
<1>6. IsSeq(p) /\ Len(p) \in Nat /\ (p = <<>> <=> Len(p) = 0)
  BY <1>1, SeqFacts DEF Replaces, Runs
<1>7. /\ IsSeq(r) /\ Len(r) = Len(p) + (Len(q) - 1)
      /\ \A i \in 1..Len(p) : r[i] = p[i]
      /\ \A i \in 1..Len(q) - 1 : r[Len(p) + i] = q[i + 1]
  <2>1. /\ IsSeq(r) /\ Len(r) = Len(p) + (Len(q) - 1)
        /\ \A i \in 1..Len(p) : r[i] = p[i]
        /\ \A i \in 1..Len(q) - 1 : r[Len(p) + i] = Tail(q)[i]
    BY <1>3, <1>6, Joined
  <2> HIDE DEF r
  <2> QED
    BY <2>1, <1>3
<1>8. Len(r) \in Nat /\ (r = <<>> <=> Len(r) = 0) /\ (r # <<>> => Head(r) = r[1])
  BY <1>7, SeqFacts
<1> HIDE DEF r
<1>9. ASSUME NEW i \in 1..Len(r)
      PROVE  (\E j \in 1..Len(p) : r[i] = p[j]) \/ (\E j \in 2..Len(q) : r[i] = q[j])
  <2> DEFINE n == Len(p)
             l == Len(q)
  <2>1. n \in Nat /\ l \in Nat \ {0} /\ i \in 1..n + (l - 1)
    BY <1>3, <1>6, <1>7, <1>9
  <2> HIDE DEF n, l
  <2>2. CASE i <= n
    <3>1. i \in 1..n
      BY <2>1, <2>2
    <3> QED
      BY <1>7, <3>1 DEF n
  <2>3. CASE ~(i <= n)
    <3>1. i - n \in 1..l - 1 /\ n + (i - n) = i /\ (i - n) + 1 \in 2..l
      BY <2>1, <2>3
    <3>2. r[i] = q[(i - n) + 1]
      BY <1>7, <3>1 DEF n, l
    <3> QED
      BY <3>1, <3>2 DEF l
  <2> QED
    BY <2>2, <2>3
<1>10. ASSUME p # <<>>
       PROVE  r # <<>> /\ Head(r) = p[1] /\ (2 \in 1..Len(p) => r[2] = p[2])
  <2>1. 1 \in 1..Len(p) /\ Len(r) # 0
    BY <1>3, <1>6, <1>7, <1>10
  <2> QED
    BY <1>7, <1>8, <2>1
<1>11. ASSUME p = <<>>, r # <<>> PROVE Follows(t, a, Head(r))
  <2>1. Len(p) = 0 /\ Len(r) # 0
    BY <1>6, <1>8, <1>11
  <2>2. 1 \in 1..Len(q) - 1 /\ 1 \in 1..Len(q) /\ 1 # Len(q) /\ Len(p) + 1 = 1
    <3> DEFINE l == Len(q)
    <3>1. l \in Nat \ {0} /\ Len(r) = Len(p) + (l - 1)
      BY <1>3, <1>7
    <3> HIDE DEF l
    <3>2. l > 1
      BY <2>1, <3>1
    <3> QED
      BY <2>1, <3>1, <3>2 DEF l
  <2>3. r[1] = q[1 + 1]
    BY <1>7, <2>2
  <2>4. Follows(t, q[1], q[1 + 1])
    BY <1>1, <2>2 DEF CallOf
  <2> QED
    BY <1>3, <1>8, <1>11, <2>3, <2>4
<1> QED
  BY <1>2, <1>5, <1>9, <1>10, <1>11

\* t begins a call.
Begins(t, p) ==
  /\ t \in Thread /\ Idle(t) /\ CallOf(t, p)
  /\ todo' = [todo EXCEPT ![t] = p]

LEMMA Begun ==
  ASSUME CallsFit, NEW t, NEW p, Begins(t, p)
  PROVE  /\ CallsFit'
         /\ \A u \in Thread \ {t} : todo'[u] = todo[u]
         /\ todo'[t] = p
<1>1. /\ DOMAIN todo' = Thread /\ todo'[t] = p
      /\ \A u \in Thread \ {t} : todo'[u] = todo[u]
  BY DEF Begins, CallsFit
<1>2. \A u \in Thread : CallOf(u, todo'[u])
  BY <1>1 DEF Begins, CallsFit
<1> QED
  BY <1>1, <1>2 DEF CallsFit, CallOf, StepsOf, MayEnd, Follows

Closing == {"scan", "again", "check", "frontend", "wait", "finish"}

LEMMA InCall ==
  ASSUME NEW t, NEW q, CallOf(t, q), NEW i \in 1..Len(q), NEW j, j = i + 1
  PROVE  /\ Len(q) \in Nat /\ q[i][1] \in StepsOf(t)
         /\ i = Len(q) => MayEnd(t, q[i])
         /\ i # Len(q) => j \in 1..Len(q) /\ Follows(t, q[i], q[j])
<1>1. Len(q) \in Nat
  BY SeqFacts DEF CallOf
<1>2. i # Len(q) => j \in 1..Len(q)
  BY <1>1
<1> QED
  BY <1>1, <1>2 DEF CallOf

\* What comes after a step.
LEMMA AfterStep ==
  ASSUME NEW t, NEW a, NEW b, Follows(t, a, b)
  PROVE  /\ a[1] \in Closing \ {"again", "check"} => b[1] \in {"again", "check"}
         /\ a[1] \notin {"again", "check", "start", "find"}
         /\ a[1] = "list" => b[1] = "start"
         /\ a[1] = "current" => b = <<"follow", None>> /\ b[1] = "follow"
         /\ a[1] = "follow" => b = <<"enable", None>> /\ b[1] = "enable"
         /\ a[1] = "enable" => t = Input /\ b[1] \in {"wait", "finish"}
         /\ a[1] \in {"retune", "restore"} => b[1] = "finish"
         /\ b[1] \notin {"scan", "list", "disable", "restore"}
<1>1. \A x, y : b = <<x, y>> => b[1] = x
  OBVIOUS
<1>2. \/ a[1] = "list" /\ b[1] = "start"
      \/ a[1] = "disable" /\ b[1] \in {"find", "retune", "load", "frontend"}
      \/ a[1] = "load" /\ b[1] = "tune"
      \/ a[1] = "tune" /\ b[1] = "announce"
      \/ a[1] = "announce" /\ b[1] \in {"enable", "current"}
      \/ a[1] = "current" /\ b = <<"follow", None>> /\ b[1] = "follow"
      \/ a[1] = "follow" /\ b = <<"enable", None>> /\ b[1] = "enable"
      \/ a[1] = "enable" /\ t = Input /\ b[1] \in {"wait", "finish"}
      \/ a[1] \in {"retune", "restore"} /\ b[1] = "finish"
      \/ a[1] \in Closing \ {"again", "check"} /\ b[1] \in {"again", "check"}
  <2>1. Closing \ {"again", "check"} = {"scan", "frontend", "wait", "finish"}
    BY DEF Closing
  <2>2. /\ b = <<"tune", a[2]>> => b[1] = "tune"
        /\ b = <<"announce", a[2]>> => b[1] = "announce"
        /\ b = <<"enable", None>> => b[1] = "enable"
        /\ (\E s \in Service : b = <<"current", s>> /\ MuxOf[s] = a[2]) => b[1] = "current"
        /\ b = <<"follow", None>> => b[1] = "follow"
    BY <1>1
  <2> QED
    BY <2>1, <2>2 DEF Follows
<1> QED
  BY <1>2 DEF Closing

LEMMA LastStep ==
  ASSUME NEW t, NEW a, MayEnd(t, a)
  PROVE  a[1] \notin {"list", "current", "follow", "load", "tune", "announce", "disable",
                      "retune", "restore"}
  BY DEF MayEnd

\* What a call of the input thread closes with.
LEMMA Closes ==
  ASSUME NEW q, CallOf(Input, q), q # <<>>, q[1][1] \in Closing
  PROVE  \A i \in 2..Len(q) : q[i][1] \in {"again", "check"}
<1>1. Len(q) \in Nat \ {0} /\ 1 \in 1..Len(q)
  BY SeqFacts DEF CallOf
<1>2. ASSUME 1 # Len(q) PROVE q[2][1] \in {"again", "check"} /\ Len(q) = 2
  <2>1. 2 \in 1..Len(q) /\ Follows(Input, q[1], q[2])
    BY <1>1, <1>2, InCall, 2 = 1 + 1
  <2> HIDE DEF Closing
  <2>2. q[2][1] \in {"again", "check"}
    BY <2>1, AfterStep DEF Closing
  <2>3. ~Follows(Input, q[2], q[3])
    BY <2>2, AfterStep
  <2>4. Len(q) = 2
    BY <2>1, <2>3, InCall, 3 = 2 + 1
  <2> QED
    BY <2>2, <2>4
<1> QED
  BY <1>1, <1>2

\* A thread tunes as long as its next step is one of those of tuning.
LEMMA UserTunes ==
  ASSUME CallsFit
  PROVE  Tunes(User) <=> /\ todo[User] # <<>>
                         /\ todo[User][1][1] \in UserSteps \ {"list", "start"}
<1> DEFINE q == todo[User]
<1>1. CallOf(User, q) /\ IsSeq(q)
  BY DEF CallsFit, CallOf, Thread
<1>2. Len(q) \in Nat /\ (q = <<>> <=> Len(q) = 0)
  BY <1>1, SeqFacts
<1>3. Tunes(User) <=>
        \E i \in 1..Len(q) :
          q[i][1] \in {"disable", "find", "retune", "load", "tune", "announce", "enable",
                       "frontend", "restore"}
  BY DEF Tunes
<1> HIDE DEF q
<1>4. ASSUME q # <<>>, q[1][1] \in UserSteps \ {"list", "start"} PROVE Tunes(User)
  <2>1. 1 \in 1..Len(q) /\ Len(q) # 0
    BY <1>2, <1>4
  <2>2. CASE q[1][1] \in {"disable", "find", "load", "tune", "announce", "enable"}
    BY <1>3, <2>1, <2>2
  <2>3. CASE q[1][1] = "follow"
    <3>1. 2 \in 1..Len(q) /\ Follows(User, q[1], q[2])
      BY <1>1, <2>1, <2>3, InCall, LastStep, 2 = 1 + 1
    <3>2. q[2][1] = "enable"
      BY <2>3, <3>1, AfterStep
    <3> QED
      BY <1>3, <3>1, <3>2
  <2>4. CASE q[1][1] = "current"
    <3>1. 2 \in 1..Len(q) /\ Follows(User, q[1], q[2])
      BY <1>1, <2>1, <2>4, InCall, LastStep, 2 = 1 + 1
    <3>2. q[2][1] = "follow"
      BY <2>4, <3>1, AfterStep
    <3>3. 3 \in 1..Len(q) /\ Follows(User, q[2], q[3])
      BY <1>1, <3>1, <3>2, InCall, LastStep, 3 = 2 + 1
    <3>4. q[3][1] = "enable"
      BY <3>2, <3>3, AfterStep
    <3> QED
      BY <1>3, <3>3, <3>4
  <2> QED
    BY <1>4, <2>2, <2>3, <2>4 DEF UserSteps
<1>5. ASSUME Tunes(User) PROVE q # <<>> /\ q[1][1] \in UserSteps \ {"list", "start"}
  <2>1. PICK i \in 1..Len(q) :
          q[i][1] \in {"disable", "find", "retune", "load", "tune", "announce", "enable",
                       "frontend", "restore"}
    BY <1>3, <1>5
  <2>6. i \in 1..Len(q)
    BY <2>1
  <2>2. q # <<>> /\ 1 \in 1..Len(q)
    BY <1>2, <2>6
  <2>3. q[1][1] \in UserSteps
    BY <1>1, <2>2, InCall DEF StepsOf
  <2>4. ASSUME q[1][1] = "start" PROVE FALSE
    <3>1. 1 = Len(q)
      BY <1>1, <2>2, <2>4, InCall, AfterStep
    <3>2. i = 1
      BY <2>6, <3>1
    <3> QED
      BY <2>1, <2>4, <3>2
  <2>5. ASSUME q[1][1] = "list" PROVE FALSE
    <3>1. 2 \in 1..Len(q) /\ Follows(User, q[1], q[2])
      BY <1>1, <2>2, <2>5, InCall, LastStep, 2 = 1 + 1
    <3>2. q[2][1] = "start"
      BY <2>5, <3>1, AfterStep
    <3>3. 2 = Len(q)
      BY <1>1, <3>1, <3>2, InCall, AfterStep
    <3>4. i \in 1..2
      BY <2>6, <3>3
    <3>5. i = 1 \/ i = 2
      BY <3>4
    <3> QED
      BY <2>1, <2>5, <3>2, <3>5
  <2> QED
    BY <2>2, <2>3, <2>4, <2>5
<1> QED
  BY <1>4, <1>5 DEF q

LEMMA InputTunes ==
  ASSUME CallsFit
  PROVE  Tunes(Input) <=> /\ todo[Input] # <<>>
                          /\ todo[Input][1][1] \in {"disable", "retune", "load", "tune",
                                     "announce", "enable", "frontend", "restore"}
<1> DEFINE q == todo[Input]
<1>1. CallOf(Input, q) /\ IsSeq(q)
  BY DEF CallsFit, CallOf, Thread
<1>2. Len(q) \in Nat /\ (q = <<>> <=> Len(q) = 0)
  BY <1>1, SeqFacts
<1>3. Tunes(Input) <=>
        \E i \in 1..Len(q) :
          q[i][1] \in {"disable", "find", "retune", "load", "tune", "announce", "enable",
                       "frontend", "restore"}
  BY DEF Tunes
<1> HIDE DEF q
<1>4. ASSUME q # <<>>,
             q[1][1] \in {"disable", "retune", "load", "tune", "announce", "enable",
                          "frontend", "restore"}
      PROVE Tunes(Input)
  <2>1. Len(q) # 0
    BY <1>2, <1>4
  <2>2. 1 \in 1..Len(q)
    BY <1>2, <2>1
  <2> QED
    BY <1>3, <1>4, <2>2
<1>5. ASSUME Tunes(Input)
      PROVE  /\ q # <<>>
             /\ q[1][1] \in {"disable", "retune", "load", "tune", "announce", "enable",
                             "frontend", "restore"}
  <2>1. PICK i \in 1..Len(q) :
          q[i][1] \in {"disable", "find", "retune", "load", "tune", "announce", "enable",
                       "frontend", "restore"}
    BY <1>3, <1>5
  <2>2. i \in 1..Len(q)
    BY <2>1
  <2>3. q # <<>> /\ 1 \in 1..Len(q)
    BY <1>2, <2>2
  <2>4. q[1][1] \in InputSteps
    <3>1. q[1][1] \in StepsOf(Input)
      BY <1>1, <2>3, InCall
    <3> QED
      BY <3>1, TuningAssumption DEF StepsOf
  <2>5. ASSUME q[1][1] \in Closing \ {"frontend"} PROVE FALSE
    <3>1. i # 1
      BY <2>1, <2>5 DEF Closing
    <3>2. i \in 2..Len(q)
      BY <1>2, <2>2, <3>1
    <3>3. q[i][1] \in {"again", "check"}
      BY <1>1, <2>3, <2>5, <3>2, Closes
    <3> QED
      BY <2>1, <3>3
  <2> QED
    BY <2>3, <2>4, <2>5 DEF InputSteps, Closing
<1> QED
  BY <1>4, <1>5 DEF q

-----------------------------------------------------------------------------
(* What steps are replaced by. *)

LEMMA Nothing == \A t, a : Replaces(t, <<>>, a)
  BY NoStep DEF Replaces, Runs

LEMMA OneScan ==
  ASSUME NEW a, NEW x, a[1] \in {"scan", "wait", "check"}
  PROVE  Replaces(Input, <<<<"scan", x>>>>, a)
<1>1. PICK b : b = <<"scan", x>>
  OBVIOUS
<1>2. b[1] = "scan"
  BY <1>1
<1>9. PICK p : p = <<b>>
  OBVIOUS
<1>3. IsSeq(p) /\ Len(p) = 1 /\ p[1] = b
  BY <1>9, Steps
<1>4. b[1] \in StepsOf(Input)
  BY <1>2, TuningAssumption DEF StepsOf, InputSteps
<1>5. /\ \A i \in 1..Len(p) : p[i][1] \in StepsOf(Input)
      /\ \A i \in 1..Len(p) - 1 : Follows(Input, p[i], p[i + 1])
  <2>1. \A i \in 1..Len(p) : i = 1
    BY <1>3
  <2>2. ~\E i \in 1..Len(p) - 1 : TRUE
    BY <1>3
  <2> QED
    BY <1>3, <1>4, <2>1, <2>2
<1>6. MayEnd(Input, b)
  BY <1>2 DEF MayEnd
<1>7. ASSUME NEW c, Follows(Input, a, c) PROVE Follows(Input, b, c)
  <2>1. a[1] # "check"
    BY <1>7, AfterStep
  <2>2. c[1] \in {"again", "check"}
    BY <1>7, <2>1, AfterStep DEF Closing
  <2> QED
    BY <1>2, <2>2 DEF Follows
<1>8. Replaces(Input, p, a)
  BY <1>3, <1>5, <1>6, <1>7 DEF Replaces, Runs
<1> QED
  BY <1>1, <1>8, <1>9

\* Two steps for one.
LEMMA TwoSteps ==
  ASSUME NEW t, NEW a, NEW b, NEW c, b[1] \in StepsOf(t), c[1] \in StepsOf(t),
         Follows(t, b, c), MayEnd(t, a) => MayEnd(t, c),
         \A d : Follows(t, a, d) => Follows(t, c, d)
  PROVE  Replaces(t, <<b, c>>, a)
<1>1. PICK p : p = <<b, c>>
  OBVIOUS
<1>2. IsSeq(p) /\ Len(p) = 2 /\ p[1] = b /\ p[2] = c
  BY <1>1, Steps
<1>3. \A i \in 1..Len(p) : p[i][1] \in StepsOf(t)
  <2>1. \A i \in 1..2 : i = 1 \/ i = 2
    OBVIOUS
  <2> QED
    BY <1>2, <2>1
<1>4. \A i \in 1..Len(p) - 1 : Follows(t, p[i], p[i + 1])
  <2>1. \A i \in 1..Len(p) - 1 : i = 1 /\ i + 1 = 2
    BY <1>2
  <2> QED
    BY <1>2, <2>1
<1> QED
  BY <1>1, <1>2, <1>3, <1>4 DEF Replaces, Runs

\* Whether a step may come after another, by their names.
LEMMA Following ==
  ASSUME NEW a, NEW b
  PROVE  /\ a[1] = "disable" /\ b[1] \in {"find", "retune", "load", "frontend"}
              => \A t : Follows(t, a, b)
         /\ a[1] \in Closing \ {"again", "check"} /\ b[1] \in {"again", "check"}
              => \A t : Follows(t, a, b)
         /\ a[1] \in {"retune", "restore"} /\ b[1] = "finish" => \A t : Follows(t, a, b)
         /\ a[1] = "enable" /\ b[1] \in {"wait", "finish"} => Follows(Input, a, b)
         /\ a[1] = "list" /\ b[1] = "start" => \A t : Follows(t, a, b)
  BY DEF Follows, Closing

\* What takes the place of a scan step, of restore and of retune.
LEMMA ScanGoesOn ==
  ASSUME NEW a, NEW m, a[1] = "scan"
  PROVE  /\ Replaces(Input, <<<<"disable", None>>, <<"frontend", m>>>>, a)
         /\ Replaces(Input, <<<<"restore", None>>, <<"finish", None>>>>, a)
<1>1. ASSUME NEW b, NEW c, b[1] \in {"disable", "restore"},
             c[1] = IF b[1] = "disable" THEN "frontend" ELSE "finish"
      PROVE  Replaces(Input, <<b, c>>, a)
  <2>1. b[1] \in StepsOf(Input) /\ c[1] \in StepsOf(Input)
    BY <1>1, TuningAssumption DEF StepsOf, InputSteps
  <2>2. Follows(Input, b, c)
    BY <1>1, Following
  <2>3. MayEnd(Input, c)
    BY <1>1 DEF MayEnd
  <2>4. ASSUME NEW d, Follows(Input, a, d) PROVE Follows(Input, c, d)
    <3>1. d[1] \in {"again", "check"}
      BY <2>4, AfterStep DEF Closing
    <3> QED
      BY <1>1, <3>1, Following DEF Closing
  <2> QED
    BY <2>1, <2>2, <2>3, <2>4, TwoSteps
<1>2. PICK b, c, d, e : /\ b = <<"disable", None>> /\ c = <<"frontend", m>>
                        /\ d = <<"restore", None>> /\ e = <<"finish", None>>
  OBVIOUS
<1>3. b[1] = "disable" /\ c[1] = "frontend" /\ d[1] = "restore" /\ e[1] = "finish"
  BY <1>2
<1>4. Replaces(Input, <<b, c>>, a)
  <2>1. b[1] \in {"disable", "restore"} /\ c[1] = IF b[1] = "disable" THEN "frontend" ELSE "finish"
    BY <1>3
  <2> QED
    BY <1>1, <2>1
<1>5. Replaces(Input, <<d, e>>, a)
  <2>1. d[1] \in {"disable", "restore"} /\ e[1] = IF d[1] = "disable" THEN "frontend" ELSE "finish"
    BY <1>3
  <2> QED
    BY <1>1, <2>1
<1> QED
  BY <1>2, <1>4, <1>5

LEMMA RestoreGoesOn ==
  ASSUME NEW a, a[1] = "restore"
  PROVE  Replaces(Input, RetuneSteps, a)
<1>1. CASE currentService = None
  BY <1>1, Nothing DEF RetuneSteps
<1>2. CASE currentService # None
  <2>1. PICK b : b = <<"disable", None>>
    OBVIOUS
  <2>2. PICK c : c = <<"retune", None>>
    OBVIOUS
  <2>3. b[1] = "disable" /\ c[1] = "retune" /\ RetuneSteps = <<b, c>>
    BY <1>2, <2>1, <2>2 DEF RetuneSteps
  <2>4. b[1] \in StepsOf(Input) /\ c[1] \in StepsOf(Input)
    BY <2>3, TuningAssumption DEF StepsOf, InputSteps
  <2>5. Follows(Input, b, c) /\ ~MayEnd(Input, a)
    BY <2>3, Following, LastStep
  <2>6. ASSUME NEW d, Follows(Input, a, d) PROVE Follows(Input, c, d)
    <3>1. d[1] = "finish"
      BY <2>6, AfterStep
    <3> QED
      BY <2>3, <3>1, Following
  <2> QED
    BY <2>3, <2>4, <2>5, <2>6, TwoSteps
<1> QED
  BY <1>1, <1>2

\* The steps of TuneMultiplex and what comes after them.
TunesThen(t, m, p, r) ==
  /\ Runs(t, r) /\ r # <<>> /\ r[1] = <<"load", m>> /\ r[Len(r)] = p[Len(p)]
  /\ \A i \in 1..Len(r) : \/ r[i][1] \in {"load", "tune", "announce"}
                          \/ \E j \in 1..Len(p) : r[i] = p[j]

LEMMA Tuned ==
  ASSUME NEW t \in Thread, NEW m, NEW p, NEW r, Runs(t, p), p # <<>>,
         Follows(t, <<"announce", m>>, p[1]), r = TuneSteps(m) \o p
  PROVE  TunesThen(t, m, p, r)
<1> DEFINE n == Len(p)
<1>14. PICK s : s = TuneSteps(m)
  OBVIOUS
<1>15. r = s \o p
  BY <1>14
<1>1. PICK a : a = <<"load", m>>
  OBVIOUS
<1>2. PICK b : b = <<"tune", m>>
  OBVIOUS
<1>3. PICK c : c = <<"announce", m>>
  OBVIOUS
<1>4. /\ a[1] = "load" /\ a[2] = m /\ b[1] = "tune" /\ b[2] = m /\ c[1] = "announce"
      /\ s = <<a, b, c>>
  BY <1>1, <1>2, <1>3, <1>14 DEF TuneSteps
<1>5. IsSeq(s) /\ Len(s) = 3 /\ s[1] = a /\ s[2] = b /\ s[3] = c
  BY <1>4, Steps
<1>6. Len(p) \in Nat \ {0} /\ IsSeq(p)
  BY SeqFacts DEF Runs
<1>7. /\ IsSeq(r) /\ Len(r) = 3 + Len(p) /\ r[1] = a /\ r[2] = b /\ r[3] = c
      /\ \A i \in 1..Len(p) : r[3 + i] = p[i]
  <2>1. /\ IsSeq(r) /\ Len(r) = Len(s) + Len(p)
        /\ \A i \in 1..Len(s) : r[i] = s[i]
        /\ \A i \in 1..Len(p) : r[Len(s) + i] = p[i]
    <3>1. IsSeq(s) /\ IsSeq(p)
      BY <1>5, <1>6
    <3>2. Joins(s, p, r)
      BY <1>15, <3>1, JoinedIs
    <3> QED
      BY <3>2 DEF Joins
  <2> QED
    BY <1>5, <2>1
<1>8. r # <<>>
  BY <1>6, <1>7, SeqFacts
<1>9. /\ a[1] \in StepsOf(t) /\ b[1] \in StepsOf(t) /\ c[1] \in StepsOf(t)
      /\ Follows(t, a, b) /\ Follows(t, b, c) /\ Follows(t, c, p[1])
  BY <1>1, <1>2, <1>3, <1>4 DEF StepsOf, UserSteps, InputSteps, Follows
<1>10. /\ n \in Nat \ {0} /\ Len(r) = 3 + n
       /\ \A i \in 1..n : r[3 + i] = p[i] /\ p[i][1] \in StepsOf(t)
       /\ \A i \in 1..n - 1 : Follows(t, p[i], p[i + 1])
  BY <1>6, <1>7 DEF Replaces, Runs
<1> HIDE DEF n
<1>11. ASSUME NEW i \in 1..3 + n
       PROVE  /\ r[i][1] \in StepsOf(t)
              /\ i # 3 + n => Follows(t, r[i], r[i + 1])
  <2>1. CASE i = 1
    BY <1>7, <1>9, <2>1
  <2>2. CASE i = 2
    BY <1>7, <1>9, <2>2
  <2>3. CASE i = 3
    <3>1. r[i + 1] = p[1]
      BY <1>10, <2>3
    <3> QED
      BY <1>7, <1>9, <2>3, <3>1
  <2>4. CASE i > 3
    <3>1. i - 3 \in 1..n /\ 3 + (i - 3) = i
      BY <1>10, <2>4
    <3>2. r[i] = p[i - 3]
      BY <1>10, <3>1
    <3>3. ASSUME i # 3 + n PROVE r[i + 1] = p[(i - 3) + 1] /\ i - 3 \in 1..n - 1
      <4>1. (i - 3) + 1 \in 1..n /\ 3 + ((i - 3) + 1) = i + 1 /\ i - 3 \in 1..n - 1
        BY <1>10, <2>4, <3>3
      <4> QED
        BY <1>10, <4>1
    <3> QED
      BY <1>10, <3>1, <3>2, <3>3
  <2>5. i = 1 \/ i = 2 \/ i = 3 \/ i > 3
    BY <1>10, <1>11
  <2> QED
    BY <2>1, <2>2, <2>3, <2>4, <2>5
<1>12. r[Len(r)] = p[Len(p)]
  <2>1. n \in 1..n
    BY <1>10
  <2> QED
    BY <1>10, <2>1 DEF n
<1>13. /\ \A i \in 1..Len(r) : r[i][1] \in StepsOf(t)
       /\ \A i \in 1..Len(r) - 1 : Follows(t, r[i], r[i + 1])
  <2>1. \A i \in 1..(3 + n) - 1 : i \in 1..3 + n /\ i # 3 + n
    BY <1>10
  <2> QED
    BY <1>10, <1>11, <2>1
<1>16. ASSUME NEW i \in 1..3 + n
       PROVE  \/ r[i][1] \in {"load", "tune", "announce"}
              \/ \E j \in 1..n : r[i] = p[j]
  <2>1. CASE i \in 1..3
    <3>1. i = 1 \/ i = 2 \/ i = 3
      BY <2>1
    <3> QED
      BY <1>4, <1>7, <3>1
  <2>2. CASE i \notin 1..3
    <3>1. i - 3 \in 1..n /\ 3 + (i - 3) = i
      BY <1>10, <2>2
    <3>2. r[i] = p[i - 3]
      BY <1>10, <3>1
    <3> QED
      BY <3>1, <3>2
  <2> QED
    BY <2>1, <2>2
<1>17. \A i \in 1..Len(r) : \/ r[i][1] \in {"load", "tune", "announce"}
                           \/ \E j \in 1..Len(p) : r[i] = p[j]
  BY <1>10, <1>16 DEF n
<1> QED
  BY <1>1, <1>7, <1>8, <1>12, <1>13, <1>14, <1>15, <1>17 DEF Runs, TunesThen

LEMMA RetuneGoesOn ==
  ASSUME NEW a, NEW m, a[1] = "retune"
  PROVE  /\ Replaces(Input, TuneSteps(m) \o <<<<"enable", None>>>>, a)
         /\ TuneSteps(m) \o <<<<"enable", None>>>> # <<>>
         /\ (TuneSteps(m) \o <<<<"enable", None>>>>)[1] = <<"load", m>>
         /\ \A i \in 1..Len(TuneSteps(m) \o <<<<"enable", None>>>>) :
              (TuneSteps(m) \o <<<<"enable", None>>>>)[i][1]
                \in {"load", "tune", "announce", "enable"}
<1>1. PICK b : b = <<"enable", None>>
  OBVIOUS
<1>2. PICK p : p = <<b>>
  OBVIOUS
<1>3. PICK r : r = TuneSteps(m) \o p
  OBVIOUS
<1>4. IsSeq(p) /\ Len(p) = 1 /\ p[1] = b /\ p # <<>> /\ b[1] = "enable"
  BY <1>1, <1>2, Steps
<1>5. b[1] \in StepsOf(Input) /\ ~MayEnd(Input, a) /\ Input \in Thread
  BY <1>4, LastStep, TuningAssumption DEF StepsOf, InputSteps, Thread
<1>6. Runs(Input, p)
  <2>1. \A i \in 1..Len(p) : p[i][1] \in StepsOf(Input)
    BY <1>4, <1>5
  <2>2. \A i \in 1..Len(p) - 1 : Follows(Input, p[i], p[i + 1])
    BY <1>4
  <2> QED
    BY <1>4, <2>1, <2>2 DEF Runs
<1>7. Follows(Input, <<"announce", m>>, p[1])
  BY <1>1, <1>4 DEF Follows
<1>8. /\ Runs(Input, r) /\ r # <<>> /\ r[1] = <<"load", m>> /\ r[Len(r)] = b
      /\ \A i \in 1..Len(r) : r[i][1] \in {"load", "tune", "announce", "enable"}
  <2>1. TunesThen(Input, m, p, r)
    BY <1>3, <1>4, <1>5, <1>6, <1>7, Tuned
  <2>2. \A j \in 1..Len(p) : p[j][1] = "enable"
    BY <1>4
  <2> QED
    BY <1>4, <2>1, <2>2 DEF TunesThen
<1>9. ASSUME NEW d, Follows(Input, a, d) PROVE Follows(Input, b, d)
  BY <1>4, <1>9, AfterStep, Following
<1>10. Replaces(Input, r, a)
  BY <1>5, <1>8, <1>9 DEF Replaces, Runs
<1> QED
  BY <1>1, <1>2, <1>3, <1>8, <1>10

LEMMA FindGoesOn ==
  ASSUME NEW a, NEW s \in Service, NEW tunes \in BOOLEAN, a[1] = "find"
  PROVE  LET p == (IF tunes THEN TuneSteps(MuxOf[s]) ELSE <<>>)
                    \o <<<<"current", s>>, <<"follow", None>>, <<"enable", None>>>>
         IN  /\ Replaces(User, p, a) /\ p # <<>>
             /\ p[1] = IF tunes THEN <<"load", MuxOf[s]>> ELSE <<"current", s>>
<1>1. PICK b, c, d : b = <<"current", s>> /\ c = <<"follow", None>> /\ d = <<"enable", None>>
  OBVIOUS
<1>2. PICK p : p = <<b, c, d>>
  OBVIOUS
<1>3. IsSeq(p) /\ Len(p) = 3 /\ p[1] = b /\ p[2] = c /\ p[3] = d /\ p # <<>>
  BY <1>2, Steps
<1>4. b[1] = "current" /\ c[1] = "follow" /\ d[1] = "enable"
  BY <1>1
<1>5. /\ {b[1], c[1], d[1]} \subseteq StepsOf(User)
      /\ Follows(User, b, c) /\ Follows(User, c, d) /\ MayEnd(User, d)
  BY <1>1, <1>4 DEF StepsOf, UserSteps, Follows, MayEnd
<1>6. Runs(User, p)
  <2>1. \A i \in 1..Len(p) : i = 1 \/ i = 2 \/ i = 3
    BY <1>3
  <2>2. \A i \in 1..Len(p) - 1 : (i = 1 /\ i + 1 = 2) \/ (i = 2 /\ i + 1 = 3)
    BY <1>3
  <2> QED
    BY <1>3, <1>5, <2>1, <2>2 DEF Runs
<1>7. \A e : ~Follows(User, a, e)
  BY AfterStep
<1>8. Replaces(User, p, a)
  BY <1>3, <1>5, <1>6, <1>7 DEF Replaces, Runs
<1>9. <<>> \o p = p
  <2>1. PICK S : p \in Seq(S)
    BY <1>3 DEF IsSeq
  <2> QED
    BY <2>1, ConcatEmptySeq
<1>10. PICK r : r = TuneSteps(MuxOf[s]) \o p
  OBVIOUS
<1>11. Follows(User, <<"announce", MuxOf[s]>>, p[1])
  <2>1. b = <<"current", s>> /\ p[1] = b
    BY <1>1, <1>3
  <2> QED
    BY <2>1 DEF Follows
<1>12. Runs(User, r) /\ r # <<>> /\ r[1] = <<"load", MuxOf[s]>> /\ r[Len(r)] = d
  <2>1. TunesThen(User, MuxOf[s], p, r)
    BY <1>3, <1>6, <1>10, <1>11, Tuned DEF Thread
  <2> QED
    BY <1>3, <2>1 DEF TunesThen
<1>13. Replaces(User, r, a)
  BY <1>5, <1>7, <1>12 DEF Replaces
<1> QED
  BY <1>1, <1>2, <1>3, <1>8, <1>9, <1>10, <1>12, <1>13

\* What comes of a lock: the tuning of the multiplex, and then the wait.
LEMMA LockGoesOn ==
  ASSUME NEW a, NEW m, a[1] = "scan"
  PROVE  /\ Replaces(Input, MultiplexSteps(m) \o <<<<"wait", None>>>>, a)
         /\ MultiplexSteps(m) \o <<<<"wait", None>>>> # <<>>
         /\ (MultiplexSteps(m) \o <<<<"wait", None>>>>)[1] = <<"disable", None>>
         /\ \A i \in 1..Len(MultiplexSteps(m) \o <<<<"wait", None>>>>) :
              (MultiplexSteps(m) \o <<<<"wait", None>>>>)[i][1]
                \in {"disable", "load", "tune", "announce", "enable", "wait"}
<1>1. PICK b, c, d, e, f, g :
        /\ b = <<"disable", None>> /\ c = <<"load", m>> /\ d = <<"tune", m>>
        /\ e = <<"announce", m>> /\ f = <<"enable", None>> /\ g = <<"wait", None>>
  OBVIOUS
<1>2. PICK s : s = <<c, d, e>>
  OBVIOUS
<1>3. PICK x : x = <<b>> \o s
  OBVIOUS
<1>4. PICK y : y = x \o <<f>>
  OBVIOUS
<1>5. PICK z : z = y \o <<g>>
  OBVIOUS
<1>6. MultiplexSteps(m) \o <<<<"wait", None>>>> = z
  BY <1>1, <1>2, <1>3, <1>4, <1>5 DEF MultiplexSteps, TuneSteps
<1>7. IsSeq(s) /\ Len(s) = 3 /\ s[1] = c /\ s[2] = d /\ s[3] = e
  BY <1>2, Steps
<1>8. IsSeq(x) /\ Len(x) = 4 /\ x[1] = b /\ x[2] = c /\ x[3] = d /\ x[4] = e
  <2>1. IsSeq(<<b>>) /\ Len(<<b>>) = 1 /\ <<b>>[1] = b
    BY Steps
  <2>2. /\ IsSeq(x) /\ Len(x) = 1 + 3 /\ \A i \in 1..1 : x[i] = <<b>>[i]
        /\ \A i \in 1..3 : x[1 + i] = s[i]
    <3>1. PICK p : p = <<b>>
      OBVIOUS
    <3>2. IsSeq(p) /\ Len(p) = 1
      BY <2>1, <3>1
    <3>3. x = p \o s
      BY <1>3, <3>1
    <3>4. Joins(p, s, x)
      BY <1>7, <3>2, <3>3, JoinedIs
    <3> QED
      BY <1>7, <3>1, <3>2, <3>4 DEF Joins
  <2>3. x[1] = <<b>>[1] /\ x[1 + 1] = s[1] /\ x[1 + 2] = s[2] /\ x[1 + 3] = s[3]
    BY <2>2
  <2> QED
    BY <1>7, <2>1, <2>2, <2>3
<1>9. /\ IsSeq(y) /\ Len(y) = 5 /\ y[1] = b /\ y[2] = c /\ y[3] = d /\ y[4] = e
       /\ y[5] = f
  <2>1. IsSeq(y) /\ Len(y) = 4 + 1 /\ (\A i \in 1..4 : y[i] = x[i]) /\ y[4 + 1] = f
    <3>1. Appends(x, f, y)
      BY <1>4, <1>8, Appended
    <3> QED
      BY <1>8, <3>1 DEF Appends
  <2>2. 1 \in 1..4 /\ 2 \in 1..4 /\ 3 \in 1..4 /\ 4 \in 1..4 /\ 4 + 1 = 5
    OBVIOUS
  <2> QED
    BY <1>8, <2>1, <2>2
<1>10. /\ IsSeq(z) /\ Len(z) = 6 /\ z[1] = b /\ z[2] = c /\ z[3] = d /\ z[4] = e
       /\ z[5] = f /\ z[6] = g
  <2>1. IsSeq(z) /\ Len(z) = 5 + 1 /\ (\A i \in 1..5 : z[i] = y[i]) /\ z[5 + 1] = g
    <3>1. Appends(y, g, z)
      BY <1>5, <1>9, Appended
    <3> QED
      BY <1>9, <3>1 DEF Appends
  <2>2. 1 \in 1..5 /\ 2 \in 1..5 /\ 3 \in 1..5 /\ 4 \in 1..5 /\ 5 \in 1..5 /\ 5 + 1 = 6
    OBVIOUS
  <2> QED
    BY <1>9, <2>1, <2>2
<1>11. /\ b[1] = "disable" /\ c[1] = "load" /\ d[1] = "tune" /\ e[1] = "announce"
       /\ f[1] = "enable" /\ g[1] = "wait" /\ c[2] = m /\ d[2] = m /\ e[2] = m
  BY <1>1
<1>12. /\ {b[1], c[1], d[1], e[1], f[1], g[1]} \subseteq StepsOf(Input)
       /\ Follows(Input, b, c) /\ Follows(Input, f, g) /\ MayEnd(Input, g)
  BY <1>11, TuningAssumption DEF StepsOf, InputSteps, Follows, MayEnd
<1>13. Follows(Input, c, d) /\ Follows(Input, d, e) /\ Follows(Input, e, f)
  BY <1>1, <1>11 DEF Follows
<1>14. \A i \in 1..6 : i = 1 \/ i = 2 \/ i = 3 \/ i = 4 \/ i = 5 \/ i = 6
  OBVIOUS
<1>15. \A i \in 1..Len(z) : z[i][1] \in StepsOf(Input)
  BY <1>10, <1>12, <1>14
<1>16. \A i \in 1..Len(z) - 1 : Follows(Input, z[i], z[i + 1])
  <2>1. \A i \in 1..Len(z) - 1 :
          \/ (i = 1 /\ i + 1 = 2) \/ (i = 2 /\ i + 1 = 3) \/ (i = 3 /\ i + 1 = 4)
          \/ (i = 4 /\ i + 1 = 5) \/ (i = 5 /\ i + 1 = 6)
    BY <1>10
  <2> QED
    BY <1>10, <1>12, <1>13, <2>1
<1>17. ASSUME NEW h, Follows(Input, a, h) PROVE Follows(Input, g, h)
  <2>1. h[1] \in {"again", "check"}
    BY <1>17, AfterStep DEF Closing
  <2> QED
    BY <1>11, <2>1, Following DEF Closing
<1>18. z # <<>>
  <2>1. IsSeq(z) /\ Len(z) # 0
    BY <1>10
  <2> QED
    BY <2>1, SeqFacts
<1>19. Replaces(Input, z, a)
  <2>1. Runs(Input, z)
    BY <1>10, <1>15, <1>16 DEF Runs
  <2>2. z[Len(z)] = g
    BY <1>10
  <2> QED
    BY <1>12, <1>17, <2>1, <2>2 DEF Replaces
<1>20. \A i \in 1..Len(z) :
         z[i][1] \in {"disable", "load", "tune", "announce", "enable", "wait"}
  BY <1>10, <1>11, <1>14
<1> QED
  BY <1>1, <1>6, <1>10, <1>18, <1>19, <1>20

-----------------------------------------------------------------------------
(* What the steps of the input thread leave of its call. *)

\* The names of the steps the input thread has still to take.
NamesIn(N) == \A i \in 1..Len(todo[Input]) : todo[Input][i][1] \in N

LEMMA HeadNamed ==
  ASSUME NEW q, IsSeq(q), NEW N, \A i \in 1..Len(q) : q[i][1] \in N
  PROVE  \A step, x : q # <<>> /\ Head(q) = <<step, x>> => step \in N
<1> SUFFICES ASSUME NEW step, NEW x, q # <<>>, Head(q) = <<step, x>> PROVE step \in N
  OBVIOUS
<1>1. q[1] = <<step, x>> /\ 1 \in 1..Len(q)
  BY SeqFacts
<1>2. PICK b : b = <<step, x>>
  OBVIOUS
<1>3. b[1] = step
  BY <1>2
<1> QED
  BY <1>1, <1>2, <1>3

LEMMA DoingAt ==
  ASSUME CallsFit, NEW t \in Thread, NEW step, NEW x, Doing(t, step, x)
  PROVE  /\ At(t, step, x) /\ todo[t] # <<>> /\ Head(todo[t]) = <<step, x>>
         /\ todo[t][1] = <<step, x>> /\ todo[t][1][1] = step
<1>1. todo[t] # <<>> /\ Head(todo[t]) = <<step, x>>
  BY DEF Doing, Idle
<1>2. CallOf(t, todo[t])
  BY DEF CallsFit
<1>3. todo[t][1] = <<step, x>>
  BY <1>1, <1>2, SeqFacts DEF CallOf
<1>4. PICK b : b = <<step, x>>
  OBVIOUS
<1>5. b[1] = step
  BY <1>4
<1> QED
  BY <1>1, <1>3, <1>4, <1>5 DEF At, Idle

\* After a step that closes a call, only what replaced it is left of it.
LEMMA ClosingTaken ==
  ASSUME CallsFit, NEW a, NEW p, Takes(Input, a, p), a[1] \in Closing,
         NEW N, \A j \in 1..Len(p) : p[j][1] \in N
  PROVE  NamesIn(N \cup {"again", "check"})'
<1>1. CallOf(Input, todo[Input]) /\ todo[Input] # <<>> /\ Head(todo[Input]) = a
  BY DEF CallsFit, Takes, Idle, Thread
<1>2. todo[Input][1] = a
  BY <1>1, SeqFacts DEF CallOf
<1>3. \A j \in 2..Len(todo[Input]) : todo[Input][j][1] \in {"again", "check"}
  BY <1>1, <1>2, Closes
<1>4. \A i \in 1..Len(todo'[Input]) :
        \/ \E j \in 1..Len(p) : todo'[Input][i] = p[j]
        \/ \E j \in 2..Len(todo[Input]) : todo'[Input][i] = todo[Input][j]
  BY Taken
<1> QED
  BY <1>3, <1>4 DEF NamesIn

LEMMA ScanGives ==
  ASSUME CallsFit, NEW step \in {"scan", "wait", "check"}, NEW e, NEW x,
         Doing(Input, step, e), Then(Input, <<<<"scan", x>>>>)
  PROVE  /\ CallsFit' /\ todo'[User] = todo[User]
         /\ NamesIn({"scan", "again", "check"})'
         /\ At(Input, "scan", x)'
<1>1. PICK a : a = <<step, e>>
  OBVIOUS
<1>2. PICK b : b = <<"scan", x>>
  OBVIOUS
<1>3. PICK p : p = <<b>>
  OBVIOUS
<1>4. a[1] = step /\ b[1] = "scan" /\ Len(p) = 1 /\ p[1] = b /\ p # <<>>
  BY <1>1, <1>2, <1>3
<1>5. Replaces(Input, p, a)
  <2>1. a[1] \in {"scan", "wait", "check"}
    BY <1>4
  <2> QED
    BY <1>2, <1>3, <2>1, OneScan
<1>6. Takes(Input, a, p)
  BY <1>1, <1>2, <1>3, <1>5, DoingAt DEF Takes, Thread, Idle
<1>7. /\ CallsFit' /\ \A u \in Thread \ {Input} : todo'[u] = todo[u]
      /\ p # <<>> => todo'[Input] # <<>> /\ Head(todo'[Input]) = p[1]
  BY <1>6, Taken
<1>8. a[1] \in Closing /\ \A j \in 1..Len(p) : p[j][1] \in {"scan"}
  BY <1>4 DEF Closing
<1>9. NamesIn({"scan"} \cup {"again", "check"})'
  BY <1>6, <1>8, ClosingTaken
<1>10. {"scan"} \cup {"again", "check"} = {"scan", "again", "check"}
  OBVIOUS
<1>11. At(Input, "scan", x)'
  BY <1>2, <1>4, <1>7 DEF At, Idle
<1>12. todo'[User] = todo[User]
  BY <1>7, TuningAssumption DEF Thread
<1> QED
  BY <1>7, <1>9, <1>10, <1>11, <1>12

LEMMA ScanStays ==
  ASSUME CallsFit, NEW step \in Closing, NEW e, Doing(Input, step, e), Then(Input, <<>>)
  PROVE  /\ CallsFit' /\ todo'[User] = todo[User]
         /\ NamesIn({"again", "check"})'
<1>1. PICK a : a = <<step, e>>
  OBVIOUS
<1>2. a[1] = step
  BY <1>1
<1>3. Takes(Input, a, <<>>)
  BY <1>1, Nothing, DoingAt DEF Takes, Thread, Idle
<1>4. CallsFit' /\ \A u \in Thread \ {Input} : todo'[u] = todo[u]
  BY <1>3, Taken
<1>5. \A j \in 1..Len(<<>>) : <<>>[j][1] \in {}
  BY NoStep
<1>6. NamesIn({} \cup {"again", "check"})'
  BY <1>2, <1>3, <1>5, ClosingTaken
<1>7. {} \cup {"again", "check"} = {"again", "check"}
  OBVIOUS
<1>8. todo'[User] = todo[User]
  BY <1>4, TuningAssumption DEF Thread
<1> QED
  BY <1>4, <1>6, <1>7, <1>8

-----------------------------------------------------------------------------
(* The list and the state. *)

\* What these invariants speak of, but for the calls.
Kept == /\ UNCHANGED <<state, locked, entries, current, entry, param, listed, cancelled,
                       transponders>>
        /\ tried \subseteq tried'

LEMMA InputIs == Input \in Thread /\ User \in Thread /\ User # Input
  BY TuningAssumption DEF Thread

\* Nothing new is under way.
LEMMA SettledKeeps ==
  ASSUME ScanKnown, CallsFit', Kept, NamesIn({"scan", "again", "check"})',
         state # "Init", ~At(Input, "scan", "Entered")', ~At(Input, "scan", "Next")',
         state = "NextMux" => entry \in tried' /\ ~At(Input, "scan", "Entered")
  PROVE  ScanKnown'
<1>1. IsSeq(todo'[Input])
  BY InputIs DEF CallsFit, CallOf
<1>2. \A i \in 1..Len(todo'[Input]) : todo'[Input][i][1] \in {"scan", "again", "check"}
  BY DEF NamesIn
<1>3. \A step, x : todo'[Input] # <<>> /\ Head(todo'[Input]) = <<step, x>>
                     => step \in {"scan", "again", "check"}
  BY <1>1, <1>2, HeadNamed
<1>4. StateFits'
  BY <1>2 DEF StateFits, Kept, ScanKnown, Has
<1>5. ListTyped'
  BY DEF ListTyped, Kept, ScanKnown
<1>6. EntriesFine'
  BY DEF EntriesFine, Kept, ScanKnown, Fine, Before
<1> QED
  BY <1>4, <1>5, <1>6 DEF ScanKnown

\* The state s is entered.
LEMMA EntersKnown ==
  ASSUME CallsFit', ListTyped', NamesIn({"scan", "again", "check"})',
         At(Input, "scan", "Entered")', state' \in States \ {"Init", "Stopped"},
         state' \in {"NextMux", "WaitingForTables", "WaitingForNIT"}
           => \A i : Before(i)' => Fine(i)',
         state' = "Canceling" => cancelled',
         state' = "Stopping" /\ ~cancelled' => \A i \in 1..listed' : Fine(i)'
  PROVE  ScanKnown'
<1>1. \A i \in 1..Len(todo'[Input]) : todo'[Input][i][1] \in {"scan", "again", "check"}
  BY DEF NamesIn
<1>2. StateFits'
  BY <1>1 DEF StateFits, Has
<1>3. EntriesFine'
  BY DEF EntriesFine
<1> QED
  BY <1>2, <1>3 DEF ScanKnown

LEMMA OnDoing == ASSUME NEW s, NEW e, On(s, e) PROVE state = s /\ Doing(Input, "scan", e)
  BY DEF On

LEMMA GotoGives ==
  ASSUME CallsFit, NEW step \in {"scan", "wait", "check"}, NEW e, Doing(Input, step, e),
         NEW s, Goto(s)
  PROVE  /\ state' = s /\ CallsFit' /\ todo'[User] = todo[User]
         /\ NamesIn({"scan", "again", "check"})' /\ At(Input, "scan", "Entered")'
<1>1. Then(Input, <<<<"scan", "Entered">>>>) /\ state' = s
  BY DEF Goto, Entered
<1> QED
  BY <1>1, ScanGives

LEMMA BeginKnown == ASSUME ScanKnown, Begin PROVE ScanKnown'
<1>1. Doing(Input, "scan", "Entered") /\ Goto("NextMux")
  BY DEF Begin, On
<1>2. /\ state' = "NextMux" /\ CallsFit' /\ todo'[User] = todo[User]
      /\ NamesIn({"scan", "again", "check"})' /\ At(Input, "scan", "Entered")'
  BY <1>1, GotoGives DEF ScanKnown
<1>3. Len(entries) \in Nat /\ (entries = <<>> <=> Len(entries) = 0)
  BY SeqFacts DEF ScanKnown, ListTyped, EntriesLike
<1>4. ListTyped'
  BY <1>3 DEF Begin, ListTyped, ScanKnown
<1>5. \A i : ~Before(i)'
  BY <1>3 DEF Begin, Before
<1> QED
  BY <1>2, <1>4, <1>5, EntersKnown DEF States

LEMMA NextEntryKnown == ASSUME ScanKnown, NextEntry PROVE ScanKnown'
<1>1. state = "NextMux" /\ Doing(Input, "scan", "Entered") /\ At(Input, "scan", "Entered")
  BY DoingAt, InputIs DEF NextEntry, On, ScanKnown
<1>2. \A i : Before(i) => Fine(i)
  BY <1>1 DEF ScanKnown, EntriesFine
<1>3. /\ Len(entries) \in Nat /\ listed \in 0..Len(entries) /\ current \in 0..Len(entries)
      /\ entries' = entries /\ listed' = listed /\ tried' = tried /\ cancelled' = cancelled
      /\ entry' = current /\ param' = 0 /\ transponders' = transponders
  BY SeqFacts DEF ScanKnown, ListTyped, EntriesLike, NextEntry, history
<1>4. CASE current = 0
  <2>1. Goto("Stopping") /\ current' = current
    BY <1>4 DEF NextEntry
  <2>2. /\ state' = "Stopping" /\ CallsFit' /\ todo'[User] = todo[User]
        /\ NamesIn({"scan", "again", "check"})' /\ At(Input, "scan", "Entered")'
    BY <1>1, <2>1, GotoGives DEF ScanKnown
  <2>3. ListTyped'
    BY <1>3, <2>1 DEF ListTyped, ScanKnown
  <2>4. \A i \in 1..listed' : Fine(i)'
    BY <1>2, <1>3, <1>4 DEF Fine, Before
  <2> QED
    BY <2>2, <2>3, <2>4, EntersKnown DEF States
<1>5. CASE current # 0
  <2>1. /\ state' = state /\ Then(Input, <<<<"scan", "Next">>>>)
        /\ current' = IF current = Len(entries) THEN 0 ELSE current + 1
    BY <1>5 DEF NextEntry
  <2>2. /\ CallsFit' /\ NamesIn({"scan", "again", "check"})' /\ At(Input, "scan", "Next")'
    BY <1>1, <2>1, ScanGives DEF ScanKnown
  <2>3. ListTyped'
    BY <1>3, <2>1 DEF ListTyped, ScanKnown
  <2>4. ~At(Input, "scan", "Entered")'
    BY <2>2 DEF At, Idle
  <2>5. \A i : Before(i)' /\ i # entry' => Fine(i)'
    <3>1. SUFFICES ASSUME NEW i, i \in 1..listed, current' = 0 \/ i < current', i # current
                   PROVE  Fine(i)
      BY <1>3 DEF Before, Fine
    <3>2. i < current
      BY <1>3, <1>5, <2>1, <3>1
    <3> QED
      BY <1>2, <3>1, <3>2 DEF Before
  <2>6. ToTry' /\ entry' \in 1..Len(entries')
    BY <1>3, <1>5, <2>2 DEF ToTry
  <2>7. EntriesFine'
    BY <1>1, <2>1, <2>4, <2>5, <2>6 DEF EntriesFine
  <2>8. StateFits'
    BY <1>1, <2>1, <2>2 DEF StateFits, Has, NamesIn, ScanKnown
  <2> QED
    BY <2>2, <2>3, <2>7, <2>8 DEF ScanKnown
<1> QED
  BY <1>4, <1>5

\* In NextMux, nothing is left to try of the entry once its tuning has begun.
LEMMA EntryTried ==
  ASSUME ScanKnown, state = "NextMux", NEW step, NEW e, Doing(Input, step, e),
         step \notin {"disable", "frontend"}, step = "scan" => e \notin {"Entered", "Next"}
  PROVE  /\ entry \in tried /\ entry \in 1..Len(entries)
         /\ ~At(Input, "scan", "Entered")
         /\ \A i : Before(i) => Fine(i)
<1>1. Head(todo[Input]) = <<step, e>>
  BY DEF Doing
<1>2. PICK b : b = <<step, e>>
  OBVIOUS
<1>3. b[1] = step /\ b[2] = e
  BY <1>2
<1>4. \A x, y : b = <<x, y>> => x = step /\ y = e
  BY <1>3
<1>5. ~At(Input, "scan", "Entered") /\ ~ToTry
  BY <1>1, <1>2, <1>4 DEF At, ToTry
<1> QED
  BY <1>5 DEF ScanKnown, EntriesFine, Fine

LEMMA NotInit ==
  ASSUME ScanKnown, NEW step, NEW e, Doing(Input, step, e), state = "Init"
  PROVE  step = "scan" /\ e = "Entered"
<1>1. Head(todo[Input]) = <<step, e>> /\ todo[Input] = <<<<"scan", "Entered">>>>
  BY DEF Doing, ScanKnown, StateFits, Entered
<1>2. PICK b : b = <<"scan", "Entered">>
  OBVIOUS
<1>3. todo[Input] = <<b>>
  BY <1>1, <1>2
<1>4. Head(todo[Input]) = b
  BY <1>3
<1>5. b[1] = step /\ b[2] = e
  BY <1>1, <1>4
<1> QED
  BY <1>2, <1>5

LEMMA StaysKnown ==
  ASSUME ScanKnown, NEW step \in Closing, NEW e, Doing(Input, step, e),
         Then(Input, <<>>), Kept, step = "frontend" => entry \in tried',
         state \in {"Init", "NextMux"} => (step = "scan" => e \notin {"Entered", "Next"})
  PROVE  ScanKnown'
<1>1. CallsFit' /\ NamesIn({"again", "check"})'
  BY ScanStays DEF ScanKnown
<1>2. state # "Init"
  BY NotInit
<1>3. ASSUME state = "NextMux" PROVE entry \in tried' /\ ~At(Input, "scan", "Entered")
  <2>1. CASE step # "frontend"
    BY <1>3, <2>1, EntryTried DEF Closing, Kept
  <2>2. CASE step = "frontend"
    BY <2>2, InputIs, DoingAt DEF At, ScanKnown
  <2> QED
    BY <2>1, <2>2
<1>4. IsSeq(todo'[Input]) /\ \A i \in 1..Len(todo'[Input]) : todo'[Input][i][1] \in {"again", "check"}
  BY <1>1, InputIs DEF CallsFit, CallOf, NamesIn
<1>5. \A x, y : todo'[Input] # <<>> /\ Head(todo'[Input]) = <<x, y>> => x \in {"again", "check"}
  BY <1>4, HeadNamed
<1>6. ~At(Input, "scan", "Entered")' /\ ~At(Input, "scan", "Next")'
  BY <1>5 DEF At, Idle
<1>7. NamesIn({"scan", "again", "check"})'
  BY <1>4 DEF NamesIn
<1> QED
  BY <1>1, <1>2, <1>3, <1>6, <1>7, SettledKeeps

LEMMA NextParamsKnown == ASSUME ScanKnown, NextParams PROVE ScanKnown'
<1>1. state = "NextMux" /\ Doing(Input, "scan", "Next") /\ At(Input, "scan", "Next")
  BY DoingAt, InputIs DEF NextParams, On, ScanKnown
<1>2. Head(todo[Input]) = <<"scan", "Next">>
  BY <1>1 DEF At
<1>3. ~At(Input, "scan", "Entered")
  BY <1>2 DEF At
<1>4. \A m : ~At(Input, "frontend", m) /\ ~At(Input, "disable", m)
  BY <1>2 DEF At
<1>5. /\ entry \in 1..Len(entries)
      /\ \A i : Before(i) /\ i # entry => Fine(i)
      /\ entry \in tried \/ param = 0
  BY <1>1, <1>3, <1>4 DEF ScanKnown, EntriesFine, ToTry
<1>6. /\ entries' = entries /\ listed' = listed /\ tried' = tried /\ cancelled' = cancelled
      /\ entry' = entry /\ current' = current /\ transponders' = transponders
      /\ param' = param + 1 /\ state' = state
  BY DEF NextParams, history, list
<1>7. ListTyped'
  BY <1>6 DEF ListTyped, ScanKnown
<1>8. CASE param + 1 \in DOMAIN TuningParams
  <2>1. PICK m : m = TuningParams[param + 1]
    OBVIOUS
  <2>2. PICK p : p = <<<<"disable", None>>, <<"frontend", m>>>>
    OBVIOUS
  <2>3. Then(Input, p)
    BY <1>8, <2>1, <2>2 DEF NextParams
  <2>4. PICK a : a = <<"scan", "Next">>
    OBVIOUS
  <2>5. a[1] = "scan"
    BY <2>4
  <2>6. Takes(Input, a, p)
    BY <1>1, <1>2, <2>2, <2>3, <2>4, <2>5, ScanGoesOn, InputIs DEF Takes, Doing
  <2>7. p # <<>> /\ Len(p) = 2 /\ p[1] = <<"disable", None>> /\ p[2] = <<"frontend", m>>
    BY <2>2
  <2>8. /\ CallsFit' /\ todo'[Input] # <<>> /\ Head(todo'[Input]) = <<"disable", None>>
        /\ todo'[Input][2] = <<"frontend", m>>
    BY <2>6, <2>7, Taken DEF ScanKnown
  <2>9. \A j \in 1..Len(p) : p[j][1] \in {"disable", "frontend"}
    BY <2>7
  <2>10. NamesIn({"disable", "frontend"} \cup {"again", "check"})'
    BY <2>5, <2>6, <2>9, ClosingTaken DEF ScanKnown, Closing
  <2>11. \A i \in 1..Len(todo'[Input]) :
           todo'[Input][i][1] \in {"disable", "frontend", "again", "check"}
    BY <2>10 DEF NamesIn
  <2>12. StateFits'
    BY <1>1, <1>6, <2>11 DEF StateFits, Has, ScanKnown
  <2>13. ToTry' /\ ~At(Input, "scan", "Entered")'
    BY <2>8 DEF ToTry, At, Idle
  <2>14. EntriesFine'
    BY <1>1, <1>5, <1>6, <2>13 DEF EntriesFine, Fine, Before
  <2> QED
    BY <1>7, <2>8, <2>12, <2>14 DEF ScanKnown
<1>9. CASE param + 1 \notin DOMAIN TuningParams
  <2>1. Then(Input, <<<<"scan", "Entered">>>>)
    BY <1>9 DEF NextParams, Entered
  <2>2. CallsFit' /\ NamesIn({"scan", "again", "check"})' /\ At(Input, "scan", "Entered")'
    BY <1>1, <2>1, ScanGives DEF ScanKnown
  <2>3. Fine(entry)
    <3>1. CASE entry \in tried
      BY <3>1 DEF Fine
    <3>2. CASE entry \notin tried
      <4>1. param = 0 /\ 1 \notin DOMAIN TuningParams
        BY <1>5, <1>9, <3>2
      <4>2. /\ entries[entry] = [mux |-> entries[entry].mux, docs |-> entries[entry].docs]
            /\ IsSeq(entries[entry].docs)
        BY <1>5 DEF ScanKnown, ListTyped, EntriesLike, EntryLike
      <4>3. entries[entry].mux = None
        BY <4>1 DEF TuningParams
      <4>4. 1 \notin DOMAIN entries[entry].docs
        BY <4>1, <4>3 DEF TuningParams
      <4>5. entries[entry].docs = <<>>
        BY <4>2, <4>4, SeqFacts
      <4> QED
        BY <4>2, <4>3, <4>5 DEF Fine, UnknownEntry
    <3> QED
      BY <3>1, <3>2
  <2>4. \A i : Before(i)' => Fine(i)'
    BY <1>5, <1>6, <2>3 DEF Before, Fine
  <2> QED
    BY <1>1, <1>6, <1>7, <2>2, <2>4, EntersKnown DEF States
<1> QED
  BY <1>8, <1>9

LEMMA TuneFrontendKnown == ASSUME ScanKnown, TuneFrontend PROVE ScanKnown'
<1>1. PICK m \in Mux : Doing(Input, "frontend", m) /\ Then(Input, <<>>)
                       /\ tried' = tried \cup {entry}
  BY DEF TuneFrontend
<1>2. Kept
  BY DEF TuneFrontend, Kept, list, machine
<1> QED
  BY <1>1, <1>2, StaysKnown DEF Closing

LEMMA WaitForTablesKnown == ASSUME ScanKnown, WaitForTables PROVE ScanKnown'
<1>1. Doing(Input, "wait", None) /\ Goto("WaitingForTables")
  BY DEF WaitForTables
<1>2. PICK a : a = <<"wait", None>>
  OBVIOUS
<1>3. todo[Input][1] = <<"wait", None>> /\ todo[Input] # <<>> /\ IsSeq(todo[Input])
  BY <1>1, DoingAt, InputIs DEF ScanKnown, CallsFit, CallOf
<1>4. state = "NextMux"
  <2>1. 1 \in 1..Len(todo[Input])
    BY <1>3, SeqFacts
  <2>2. todo[Input][1][1] = "wait"
    BY <1>2, <1>3
  <2> QED
    BY <2>1, <2>2 DEF ScanKnown, StateFits, Has
<1>5. \A i : Before(i) => Fine(i)
  BY <1>1, <1>4, EntryTried
<1>6. /\ state' = "WaitingForTables" /\ CallsFit'
      /\ NamesIn({"scan", "again", "check"})' /\ At(Input, "scan", "Entered")'
  BY <1>1, GotoGives DEF ScanKnown
<1>7. /\ UNCHANGED <<entries, listed, current, param, transponders, tried>>
  BY DEF WaitForTables, list
<1>8. ListTyped'
  BY <1>7 DEF ListTyped, ScanKnown
<1>9. \A i : Before(i)' => Fine(i)'
  BY <1>5, <1>7 DEF Before, Fine
<1> QED
  BY <1>6, <1>8, <1>9, EntersKnown DEF States

LEMMA NoLockKnown == ASSUME ScanKnown, NoLock PROVE ScanKnown'
<1>1. /\ state = "NextMux" /\ Doing(Input, "scan", "Tick")
      /\ Then(Input, <<<<"scan", "Next">>>>) \/ Then(Input, <<>>)
  BY DEF NoLock, Tick, On
<1>2. Kept
  BY DEF NoLock, Kept, history
<1>3. CASE Then(Input, <<>>)
  BY <1>1, <1>2, <1>3, StaysKnown DEF Closing
<1>4. CASE Then(Input, <<<<"scan", "Next">>>>)
  <2>1. entry \in tried /\ entry \in 1..Len(entries) /\ \A i : Before(i) => Fine(i)
    BY <1>1, EntryTried
  <2>2. CallsFit' /\ NamesIn({"scan", "again", "check"})' /\ At(Input, "scan", "Next")'
    BY <1>1, <1>4, ScanGives DEF ScanKnown
  <2>3. ~At(Input, "scan", "Entered")'
    BY <2>2 DEF At
  <2>4. StateFits'
    BY <1>1, <1>2, <2>2 DEF StateFits, Has, NamesIn, ScanKnown, Kept
  <2>5. ListTyped'
    BY <1>2 DEF ListTyped, ScanKnown, Kept
  <2>6. EntriesFine'
    BY <1>1, <1>2, <2>1, <2>3 DEF EntriesFine, Before, Fine, Kept
  <2> QED
    BY <2>2, <2>4, <2>5, <2>6 DEF ScanKnown
<1> QED
  BY <1>1, <1>3, <1>4

\* From waiting for tables to the next state.
LEMMA WaitedKnown ==
  ASSUME ScanKnown, state \in {"WaitingForTables", "WaitingForNIT"}, NEW e,
         Doing(Input, "scan", e), NEW s \in {"NextMux", "WaitingForNIT"}, Goto(s),
         UNCHANGED <<entries, current, param, listed, transponders>>, tried' = tried
  PROVE  ScanKnown'
<1>1. /\ state' = s /\ CallsFit' /\ NamesIn({"scan", "again", "check"})'
      /\ At(Input, "scan", "Entered")'
  BY GotoGives DEF ScanKnown
<1>2. ListTyped'
  BY DEF ListTyped, ScanKnown
<1>3. \A i : Before(i)' => Fine(i)'
  BY DEF ScanKnown, EntriesFine, Before, Fine
<1> QED
  BY <1>1, <1>2, <1>3, EntersKnown DEF States

LEMMA TablesEnteredKnown == ASSUME ScanKnown, TablesEntered PROVE ScanKnown'
<1>1. state = "WaitingForTables" /\ Doing(Input, "scan", "Entered") /\ Then(Input, <<>>)
  BY DEF TablesEntered, On, Stay
<1>2. Kept
  BY DEF TablesEntered, Stay, Quietly, Kept, list
<1> QED
  BY <1>1, <1>2, StaysKnown DEF Closing

LEMMA TableReceivedKnown == ASSUME ScanKnown, TableReceived PROVE ScanKnown'
<1>1. PICK k \in Tables : On("WaitingForTables", k)
  BY DEF TableReceived
<1>2. state = "WaitingForTables" /\ Doing(Input, "scan", k)
  BY <1>1 DEF On
<1>3. UNCHANGED <<entries, current, entry, param, listed, cancelled, transponders, locked>>
      /\ tried' = tried
  BY DEF TableReceived, Quietly, history
<1>4. CASE Stay
  <2>1. Kept /\ Then(Input, <<>>)
    BY <1>3, <1>4 DEF Kept, Stay
  <2> QED
    BY <1>2, <2>1, StaysKnown DEF Closing
<1>5. CASE Goto("WaitingForNIT")
  BY <1>2, <1>3, <1>5, WaitedKnown
<1>6. CASE Goto("NextMux")
  BY <1>2, <1>3, <1>6, WaitedKnown
<1>7. Stay \/ Goto("WaitingForNIT") \/ Goto("NextMux")
  BY DEF TableReceived
<1> QED
  BY <1>4, <1>5, <1>6, <1>7

LEMMA NoTablesKnown == ASSUME ScanKnown, NoTables PROVE ScanKnown'
<1>1. state = "WaitingForTables" /\ Doing(Input, "scan", "Tick") /\ (Goto("NextMux") \/ Stay)
  BY DEF NoTables, Tick, On
<1>2. UNCHANGED <<entries, current, entry, param, listed, cancelled, transponders, locked>>
      /\ tried' = tried
  BY DEF NoTables, Quietly, history, list
<1>3. CASE Stay
  <2>1. Kept /\ Then(Input, <<>>)
    BY <1>2, <1>3 DEF Kept, Stay
  <2> QED
    BY <1>1, <2>1, StaysKnown DEF Closing
<1>4. CASE Goto("NextMux")
  BY <1>1, <1>2, <1>4, WaitedKnown
<1> QED
  BY <1>1, <1>3, <1>4

LEMMA NITEnteredKnown == ASSUME ScanKnown, NITEntered PROVE ScanKnown'
<1>1. state = "WaitingForNIT" /\ Doing(Input, "scan", "Entered") /\ Then(Input, <<>>)
  BY DEF NITEntered, On, Stay
<1>2. Kept
  BY DEF NITEntered, Stay, Quietly, Kept, list, history
<1> QED
  BY <1>1, <1>2, StaysKnown DEF Closing

LEMMA CancelKnown == ASSUME ScanKnown, Cancel PROVE ScanKnown'
<1>1. Doing(Input, "scan", "Cancel")
  BY DEF Cancel
<1>2. UNCHANGED <<entries, current, entry, param, listed, transponders, locked>>
      /\ tried' = tried
  BY DEF Cancel, Quietly, list
<1>3. CASE state = "Stopped"
  <2>1. Kept /\ Then(Input, <<>>)
    BY <1>2, <1>3 DEF Kept, Stay, Cancel
  <2> QED
    BY <1>1, <1>3, <2>1, StaysKnown DEF Closing
<1>4. CASE state # "Stopped"
  <2>1. Goto("Canceling") /\ cancelled' = TRUE
    BY <1>4 DEF Cancel
  <2>2. /\ state' = "Canceling" /\ CallsFit' /\ NamesIn({"scan", "again", "check"})'
        /\ At(Input, "scan", "Entered")'
    BY <1>1, <2>1, GotoGives DEF ScanKnown
  <2>3. ListTyped'
    BY <1>2 DEF ListTyped, ScanKnown
  <2> QED
    BY <2>1, <2>2, <2>3, EntersKnown DEF States
<1> QED
  BY <1>3, <1>4

LEMMA CancelledKnown == ASSUME ScanKnown, Cancelled PROVE ScanKnown'
<1>1. state = "Canceling" /\ Doing(Input, "scan", "Entered") /\ Goto("Stopping")
  BY DEF Cancelled, On
<1>2. UNCHANGED <<entries, current, param, listed, transponders, cancelled>>
  BY DEF Cancelled, Quietly, list, history
<1>3. /\ state' = "Stopping" /\ CallsFit' /\ NamesIn({"scan", "again", "check"})'
      /\ At(Input, "scan", "Entered")'
  BY <1>1, GotoGives DEF ScanKnown
<1>4. ListTyped'
  BY <1>2 DEF ListTyped, ScanKnown
<1>5. cancelled'
  BY <1>1, <1>2 DEF ScanKnown, EntriesFine
<1> QED
  BY <1>3, <1>4, <1>5, EntersKnown DEF States

LEMMA StopKnown == ASSUME ScanKnown, Stop PROVE ScanKnown'
<1>1. /\ state = "Stopping" /\ Doing(Input, "scan", "Entered") /\ locked' = FALSE
      /\ state' = state
  BY DEF Stop, On, machine
<1>2. UNCHANGED <<entries, current, param, listed, transponders, cancelled, tried>>
  BY DEF Stop, list, machine, history
<1>3. PICK a : a = <<"scan", "Entered">>
  OBVIOUS
<1>4. PICK p : p = <<<<"restore", None>>, <<"finish", None>>>>
  OBVIOUS
<1>5. Then(Input, p) /\ a[1] = "scan"
  BY <1>3, <1>4 DEF Stop
<1>6. Takes(Input, a, p)
  BY <1>1, <1>3, <1>4, <1>5, ScanGoesOn, InputIs DEF Takes, Doing
<1>7. CallsFit'
  BY <1>6, Taken DEF ScanKnown
<1>8. StateFits'
  <2>1. Len(p) = 2 /\ p[1] = <<"restore", None>> /\ p[2] = <<"finish", None>>
    BY <1>4
  <2>2. \A j \in 1..Len(p) : p[j][1] \in {"restore", "finish"}
    BY <2>1
  <2>3. NamesIn({"restore", "finish"} \cup {"again", "check"})'
    BY <1>5, <1>6, <2>2, ClosingTaken DEF Closing, ScanKnown
  <2>4. \A i \in 1..Len(todo'[Input]) :
          todo'[Input][i][1] \in {"restore", "finish", "again", "check"}
    BY <2>3 DEF NamesIn
  <2> QED
    BY <1>1, <2>4 DEF StateFits, Has, States
<1>9. ListTyped'
  BY <1>2 DEF ListTyped, ScanKnown
<1>10. EntriesFine'
  BY <1>1, <1>2 DEF EntriesFine, Fine, ScanKnown
<1> QED
  BY <1>7, <1>8, <1>9, <1>10 DEF ScanKnown

LEMMA RestoreKnows == ASSUME ScanKnown, Restore PROVE ScanKnown'
<1>1. PICK a : a = <<"restore", None>>
  OBVIOUS
<1>2. a[1] = "restore" /\ Doing(Input, "restore", None) /\ Then(Input, RetuneSteps)
  BY <1>1 DEF Restore
<1>3. todo[Input][1][1] = "restore" /\ todo[Input] # <<>> /\ IsSeq(todo[Input])
  BY <1>2, DoingAt, InputIs DEF ScanKnown, CallsFit, CallOf
<1>4. Has("restore")
  <2>1. 1 \in 1..Len(todo[Input])
    BY <1>3, SeqFacts
  <2> QED
    BY <1>3, <2>1 DEF Has
<1>5. state = "Stopping" /\ ~locked
  BY <1>4 DEF ScanKnown, StateFits
<1>6. UNCHANGED <<state, locked, entries, current, param, listed, transponders, cancelled, tried>>
  BY DEF Restore, Quietly, list, machine, history
<1>7. Takes(Input, a, RetuneSteps)
  BY <1>1, <1>2, RestoreGoesOn, InputIs DEF Takes, Doing
<1>8. CallsFit'
  BY <1>7, Taken DEF ScanKnown
<1>9. StateFits'
  <2>1. \A i \in 1..Len(todo'[Input]) :
          \/ \E j \in 1..Len(RetuneSteps) : todo'[Input][i] = RetuneSteps[j]
          \/ \E j \in 2..Len(todo[Input]) : todo'[Input][i] = todo[Input][j]
    BY <1>7, Taken DEF ScanKnown
  <2>2. \A j \in 1..Len(RetuneSteps) : RetuneSteps[j][1] # "wait"
    <3>1. CASE currentService = None
      BY <3>1, NoStep DEF RetuneSteps
    <3>2. CASE currentService # None
      <4>1. PICK q : q = <<<<"disable", None>>, <<"retune", None>>>>
        OBVIOUS
      <4>2. Len(q) = 2 /\ q[1] = <<"disable", None>> /\ q[2] = <<"retune", None>>
        BY <4>1
      <4>3. \A j \in 1..Len(q) : q[j][1] # "wait"
        BY <4>2
      <4> QED
        BY <3>2, <4>1, <4>3 DEF RetuneSteps
    <3> QED
      BY <3>1, <3>2
  <2>3. \A j \in 2..Len(todo[Input]) : todo[Input][j][1] # "wait"
    BY <1>3, <1>5, SeqFacts DEF ScanKnown, StateFits, Has
  <2>4. ~Has("wait")'
    BY <2>1, <2>2, <2>3 DEF Has
  <2> QED
    BY <1>5, <1>6, <2>4 DEF StateFits, States
<1>10. ListTyped'
  BY <1>6 DEF ListTyped, ScanKnown
<1>11. EntriesFine'
  BY <1>5, <1>6 DEF EntriesFine, Fine, ScanKnown
<1> QED
  BY <1>8, <1>9, <1>10, <1>11 DEF ScanKnown

LEMMA FinishKnown == ASSUME ScanKnown, Finish PROVE ScanKnown'
<1>1. Doing(Input, "finish", None) /\ Then(Input, <<>>)
  BY DEF Finish
<1>2. CallsFit' /\ NamesIn({"again", "check"})'
  BY <1>1, ScanStays DEF ScanKnown, Closing
<1>3. Has("finish")
  <2>1. todo[Input][1][1] = "finish" /\ todo[Input] # <<>> /\ IsSeq(todo[Input])
    BY <1>1, DoingAt, InputIs DEF ScanKnown, CallsFit, CallOf
  <2>2. 1 \in 1..Len(todo[Input])
    BY <2>1, SeqFacts
  <2> QED
    BY <2>1, <2>2 DEF Has
<1>4. ~locked /\ locked' = locked
  BY <1>3 DEF ScanKnown, StateFits, Finish, Quietly
<1>5. StateFits'
  BY <1>2, <1>4 DEF StateFits, Finish, NamesIn, Has, States
<1>6. ListTyped'
  <2>1. /\ entries' = <<>> /\ listed' = 0 /\ current' = 0 /\ param' = 0
        /\ transponders' = None
    BY DEF Finish
  <2> QED
    BY <2>1, NoStep DEF ListTyped, EntriesLike
<1>7. EntriesFine'
  BY DEF EntriesFine, Finish
<1> QED
  BY <1>2, <1>5, <1>6, <1>7 DEF ScanKnown

LEMMA IgnoredKnown == ASSUME ScanKnown, Ignored PROVE ScanKnown'
<1>1. Then(Input, <<>>) /\ Kept
  BY DEF Ignored, Stay, Quietly, Kept, list, history
<1>2. CASE \E k \in Tables : On("NextMux", k) \/ On("WaitingForNIT", k)
  <2>1. PICK k \in Tables : On("NextMux", k) \/ On("WaitingForNIT", k)
    BY <1>2
  <2>2. Doing(Input, "scan", k) /\ k \notin {"Entered", "Next"}
    BY <2>1 DEF On, Tables
  <2> QED
    BY <1>1, <2>2, StaysKnown DEF Closing
<1>3. CASE On("Stopped", "Tick")
  <2>1. Doing(Input, "scan", "Tick")
    BY <1>3 DEF On
  <2> QED
    BY <1>1, <2>1, StaysKnown DEF Closing
<1>4. CASE On("Stopped", "PMTs")
  <2>1. Doing(Input, "scan", "PMTs")
    BY <1>4 DEF On
  <2> QED
    BY <1>1, <2>1, StaysKnown DEF Closing
<1> QED
  BY <1>2, <1>3, <1>4 DEF Ignored

LEMMA TimerAgainKnown == ASSUME ScanKnown, TimerAgain PROVE ScanKnown'
<1>1. Doing(Input, "again", None) /\ Then(Input, <<>>)
  BY DEF TimerAgain
<1>2. Kept
  BY DEF TimerAgain, Quietly, Kept, list, history
<1> QED
  BY <1>1, <1>2, StaysKnown DEF Closing

LEMMA CheckPMTsKnown == ASSUME ScanKnown, CheckPMTs PROVE ScanKnown'
<1>1. Doing(Input, "check", None)
  BY DEF CheckPMTs
<1>2. Kept
  BY DEF CheckPMTs, Quietly, Kept, list, machine, history
<1>3. CASE Then(Input, <<>>)
  BY <1>1, <1>2, <1>3, StaysKnown DEF Closing
<1>4. CASE Then(Input, <<<<"scan", "PMTs">>>>)
  <2>1. CallsFit' /\ NamesIn({"scan", "again", "check"})' /\ At(Input, "scan", "PMTs")'
    BY <1>1, <1>4, ScanGives DEF ScanKnown
  <2>2. ~At(Input, "scan", "Entered")' /\ ~At(Input, "scan", "Next")'
    BY <2>1 DEF At
  <2>3. state # "Init"
    BY <1>1, NotInit
  <2>4. state = "NextMux" => entry \in tried' /\ ~At(Input, "scan", "Entered")
    BY <1>1, <1>2, EntryTried DEF Kept
  <2> QED
    BY <1>2, <2>1, <2>2, <2>3, <2>4, SettledKeeps
<1> QED
  BY <1>3, <1>4 DEF CheckPMTs

-----------------------------------------------------------------------------
(* What is added to the list. *)

LEMMA Listing ==
  ASSUME NEW n \in Nat, NEW f, f = [i \in 1..n |-> f[i]]
  PROVE  IsSeq(f) /\ Len(f) = n
<1>1. PICK S : S = {f[i] : i \in 1..n}
  OBVIOUS
<1>2. f \in [1..n -> S]
  BY <1>1
<1>3. f \in Seq(S)
  BY <1>2
<1>4. Len([i \in 1..n |-> f[i]]) = n
  OBVIOUS
<1> QED
  BY <1>3, <1>4 DEF IsSeq

LEMMA SelectedIs ==
  ASSUME NEW q, IsSeq(q), NEW K, K \subseteq DOMAIN q
  PROVE  /\ IsSeq(Selected(q, K)) /\ DOMAIN Selected(q, K) = 1..Len(Selected(q, K))
         /\ Len(Selected(q, K)) \in Nat
<1>1. IsFiniteSet(K)
  <2>1. DOMAIN q = 1..Len(q) /\ Len(q) \in Nat
    BY SeqFacts
  <2>2. IsFiniteSet(1..Len(q))
    BY <2>1, FS_Interval
  <2> QED
    BY <2>1, <2>2, FS_Subset
<1>2. Cardinality(K) \in Nat
  BY <1>1, FS_CardinalityType
<1>3. PICK n : n = Cardinality(K)
  OBVIOUS
<1>4. PICK f : f = Selected(q, K)
  OBVIOUS
<1>5. f = [i \in 1..n |-> f[i]]
  BY <1>3, <1>4 DEF Selected
<1>6. IsSeq(f) /\ Len(f) = n
  BY <1>2, <1>3, <1>5, Listing
<1> QED
  BY <1>2, <1>3, <1>4, <1>5, <1>6

LEMMA EntriesAre ==
  /\ \A m : EntryLike(KnownEntry(m))
  /\ \A docs : IsSeq(docs) => EntryLike(UnknownEntry(docs))
<1>1. \A m : EntryLike(KnownEntry(m))
  BY NoStep DEF EntryLike, KnownEntry
<1>2. \A docs : IsSeq(docs) => EntryLike(UnknownEntry(docs))
  BY DEF EntryLike, UnknownEntry
<1> QED
  BY <1>1, <1>2

LEMMA EntriesAdded ==
  ASSUME ListTyped, NEW more, EntriesLike(more), AddEntries(more),
         UNCHANGED <<listed, param>>, transponders' = None \/ IsSeq(transponders')
  PROVE  /\ ListTyped'
         /\ \A i : (Before(i)' <=> Before(i)) /\ (Before(i) => entries'[i] = entries[i])
         /\ \A i \in 1..Len(entries) : entries'[i] = entries[i] /\ i \in 1..Len(entries')
<1>1. /\ IsSeq(entries) /\ IsSeq(more) /\ entries' = entries \o more
      /\ current' = IF entries = <<>> /\ more # <<>> THEN 1 ELSE current
  BY DEF ListTyped, EntriesLike, AddEntries
<1>2. /\ IsSeq(entries') /\ Len(entries') = Len(entries) + Len(more)
      /\ \A i \in 1..Len(entries) : entries'[i] = entries[i]
      /\ \A i \in 1..Len(more) : entries'[Len(entries) + i] = more[i]
  <2>1. PICK r : r = entries \o more
    OBVIOUS
  <2>2. Joins(entries, more, r)
    BY <1>1, <2>1, JoinedIs
  <2> QED
    BY <1>1, <2>1, <2>2 DEF Joins
<1>3. /\ Len(entries) \in Nat /\ Len(more) \in Nat
      /\ (entries = <<>> <=> Len(entries) = 0) /\ (more = <<>> <=> Len(more) = 0)
  BY <1>1, SeqFacts
<1>4. listed \in 0..Len(entries) /\ current \in 0..Len(entries) /\ param \in Nat
  BY DEF ListTyped
<1>5. \A i \in 1..Len(entries') : EntryLike(entries'[i])
  <2>1. SUFFICES ASSUME NEW i \in 1..Len(entries') PROVE EntryLike(entries'[i])
    OBVIOUS
  <2>2. CASE i \in 1..Len(entries)
    BY <1>2, <2>2 DEF ListTyped, EntriesLike
  <2>3. CASE i \notin 1..Len(entries)
    <3>1. PICK k : k = i - Len(entries)
      OBVIOUS
    <3>2. k \in 1..Len(more) /\ i = Len(entries) + k
      BY <1>2, <1>3, <2>1, <2>3, <3>1
    <3> QED
      BY <1>2, <3>2 DEF EntriesLike
  <2> QED
    BY <2>2, <2>3
<1>6. EntriesLike(entries)'
  BY <1>2, <1>5 DEF EntriesLike
<1>7. listed' \in 0..Len(entries') /\ current' \in 0..Len(entries') /\ param' \in Nat
  BY <1>1, <1>2, <1>3, <1>4
<1>8. ListTyped'
  BY <1>6, <1>7 DEF ListTyped
<1>9. \A i : (Before(i)' <=> Before(i)) /\ (Before(i) => i \in 1..Len(entries))
  <2>1. SUFFICES ASSUME NEW i
                 PROVE  (Before(i)' <=> Before(i)) /\ (Before(i) => i \in 1..Len(entries))
    OBVIOUS
  <2>2. i \in 1..listed => i \in 1..Len(entries)
    BY <1>3, <1>4
  <2>3. i \in 1..listed => entries # <<>>
    BY <1>3, <2>2
  <2>4. i \in 1..listed => current' = current
    BY <1>1, <2>3
  <2> QED
    BY <2>2, <2>4 DEF Before
<1>10. \A i \in 1..Len(entries) : i \in 1..Len(entries')
  BY <1>2, <1>3
<1> QED
  BY <1>2, <1>8, <1>9, <1>10

LEMMA KindsAre ==
  ASSUME NEW m
  PROVE  /\ EntriesOf("one", m) = <<KnownEntry(m)>>
         /\ EntriesOf("all", m) = ScanCurrentMultiplexes
         /\ EntriesOf("net", m) = ScanNetwork(m)
         /\ \A kind \in FullKinds : EntriesOf(kind, m) = IF cancelScan THEN <<>> ELSE SpectrumOf(kind)
         /\ SpectrumOf("dvbt") = ScanFullDVBT /\ SpectrumOf("dvbc") = ScanFullDVBC
         /\ SpectrumOf("atsc") = ScanFullATSC
<1>1. EntriesOf("one", m) = <<KnownEntry(m)>>
  BY Zenon DEF EntriesOf, FullKinds
<1>2. EntriesOf("all", m) = ScanCurrentMultiplexes
  BY Zenon DEF EntriesOf, FullKinds
<1>3. EntriesOf("net", m) = ScanNetwork(m)
  BY Zenon DEF EntriesOf, FullKinds
<1>4. \A kind \in FullKinds : EntriesOf(kind, m) = IF cancelScan THEN <<>> ELSE SpectrumOf(kind)
  BY Zenon DEF EntriesOf, FullKinds
<1>5. SpectrumOf("dvbt") = ScanFullDVBT /\ SpectrumOf("dvbc") = ScanFullDVBC
      /\ SpectrumOf("atsc") = ScanFullATSC
  BY Zenon DEF SpectrumOf
<1> QED
  BY <1>1, <1>2, <1>3, <1>4, <1>5

LEMMA EntryForLike ==
  ASSUME NEW m, NEW n \in Nat
  PROVE  EntryLike(EntryFor(m, n))
<1>1. PICK docs : docs = [i \in 1..n |-> m]
  OBVIOUS
<1>2. docs = [i \in 1..n |-> docs[i]]
  BY <1>1
<1>3. IsSeq(docs)
  BY <1>2, Listing
<1> QED
  BY <1>1, <1>3, EntriesAre DEF EntryFor

LEMMA ListLike ==
  ASSUME NEW n \in Nat, NEW f, f = [i \in 1..n |-> f[i]],
         \A i \in 1..n : EntryLike(f[i])
  PROVE  EntriesLike(f)
BY Listing DEF EntriesLike

LEMMA EntriesOfLike ==
  ASSUME NEW kind \in Kinds, NEW m
  PROVE  EntriesLike(EntriesOf(kind, m))
<1>1. /\ IsSeq(Spectrum) /\ Len(Spectrum) \in Nat /\ DOMAIN Spectrum = 1..Len(Spectrum)
      /\ Attempts \in Nat /\ 1 \in Nat
  BY ScanningAssumption, SeqFacts DEF IsSeq
<1>2. EntriesLike(<<>>)
  BY NoStep DEF EntriesLike
<1>3. ASSUME NEW e, EntryLike(e) PROVE EntriesLike(<<e>>)
  <2>1. PICK q : q = <<e>>
    OBVIOUS
  <2>2. IsSeq(q) /\ Len(q) = 1 /\ q[1] = e
    BY <2>1, Steps
  <2> QED
    BY <1>3, <2>1, <2>2 DEF EntriesLike
<1>4. EntriesLike(ScanCurrentMultiplexes)
  <2>1. PICK K : K = {i \in DOMAIN Spectrum : Spectrum[i] \in rows}
    OBVIOUS
  <2>2. PICK known : known = Selected(Spectrum, K)
    OBVIOUS
  <2>3. DOMAIN known = 1..Len(known) /\ Len(known) \in Nat
    BY <1>1, <2>1, <2>2, SelectedIs
  <2>4. PICK f : f = [i \in 1..Len(known) |-> KnownEntry(known[i])]
    OBVIOUS
  <2>5. f = [i \in 1..Len(known) |-> f[i]] /\ \A i \in 1..Len(known) : EntryLike(f[i])
    BY <2>4, EntriesAre
  <2>6. EntriesLike(f)
    BY <2>3, <2>5, ListLike
  <2> QED
    BY <2>1, <2>2, <2>3, <2>4, <2>6 DEF ScanCurrentMultiplexes
<1>5. ASSUME NEW n \in Nat PROVE EntriesLike([i \in DOMAIN Spectrum |-> EntryFor(Spectrum[i], n)])
  <2>1. PICK f : f = [i \in 1..Len(Spectrum) |-> EntryFor(Spectrum[i], n)]
    OBVIOUS
  <2>2. f = [i \in 1..Len(Spectrum) |-> f[i]] /\ \A i \in 1..Len(Spectrum) : EntryLike(f[i])
    BY <2>1, EntryForLike
  <2>3. EntriesLike(f)
    BY <1>1, <2>2, ListLike
  <2> QED
    BY <1>1, <2>1, <2>3
<1>6. EntriesLike(ScanFullDVBT) /\ EntriesLike(ScanFullATSC)
  BY <1>1, <1>5 DEF ScanFullDVBT, ScanFullATSC
<1>7. EntriesLike(ScanFullDVBC)
  <2>1. PICK n : n = Len(Spectrum) * Attempts
    OBVIOUS
  <2>2. n \in Nat
    BY <1>1, <2>1
  <2>3. PICK rates : rates = [i \in 1..n |-> Spectrum[(i - 1) \div Attempts + 1]]
    OBVIOUS
  <2>4. rates = [i \in 1..n |-> rates[i]] /\ DOMAIN rates = 1..n
    BY <2>3
  <2>5. IsSeq(rates)
    BY <2>2, <2>4, Listing
  <2>6. PICK K : K = {i \in DOMAIN rates : rates[i] \in rows => (i - 1) % Attempts = 0}
    OBVIOUS
  <2>7. PICK all : all = Selected(rates, K)
    OBVIOUS
  <2>8. DOMAIN all = 1..Len(all) /\ Len(all) \in Nat
    BY <2>5, <2>6, <2>7, SelectedIs
  <2>9. PICK f : f = [i \in 1..Len(all) |-> TryTuneDVBC(all[i])]
    OBVIOUS
  <2>10. \A c : EntryLike(TryTuneDVBC(c))
    <3>1. \A c : IsSeq(<<c>>)
      BY Steps
    <3> QED
      BY <3>1, EntriesAre DEF TryTuneDVBC
  <2>11. f = [i \in 1..Len(all) |-> f[i]] /\ \A i \in 1..Len(all) : EntryLike(f[i])
    BY <2>9, <2>10
  <2>12. EntriesLike(f)
    BY <2>8, <2>11, ListLike
  <2>13. f = ScanFullDVBC
    BY <2>1, <2>3, <2>6, <2>7, <2>8, <2>9 DEF ScanFullDVBC
  <2> QED
    BY <2>12, <2>13
<1>8. EntriesLike(<<KnownEntry(m)>>)
  BY <1>3, EntriesAre
<1>9. EntriesLike(ScanNetwork(m))
  BY <1>1, <1>3, EntryForLike DEF ScanNetwork
<1>10. kind \in {"one", "all", "net"} \cup FullKinds
  BY ScanningAssumption
<1>11. CASE kind \in FullKinds
  <2>1. kind \in {"dvbt", "dvbc", "atsc"}
    BY <1>11 DEF FullKinds
  <2>2. EntriesLike(SpectrumOf(kind))
    BY <1>6, <1>7, <2>1, KindsAre
  <2> QED
    BY <1>2, <1>11, <2>2, KindsAre
<1> QED
  BY <1>4, <1>8, <1>9, <1>10, <1>11, KindsAre

LEMMA NITDoneKnown == ASSUME ScanKnown, NITDone PROVE ScanKnown'
<1>1. state = "WaitingForNIT" /\ Doing(Input, "scan", "Tick") /\ (Goto("NextMux") \/ Stay)
  BY DEF NITDone, Tick, On
<1>2. UNCHANGED <<entry, param, listed, cancelled, locked>> /\ tried' = tried
  BY DEF NITDone, history
<1>3. CASE timeout' > 0 \/ transponders = None
  <2>1. UNCHANGED <<entries, current, transponders>>
    BY <1>3 DEF NITDone
  <2>2. CASE Stay
    <3>1. Kept /\ Then(Input, <<>>)
      BY <1>2, <2>1, <2>2 DEF Kept, Stay
    <3> QED
      BY <1>1, <3>1, StaysKnown DEF Closing
  <2>3. CASE Goto("NextMux")
    BY <1>1, <1>2, <2>1, <2>3, WaitedKnown
  <2> QED
    BY <1>1, <2>2, <2>3
<1>4. CASE ~(timeout' > 0 \/ transponders = None)
  <2>1. ProcessTransponders /\ IsSeq(transponders)
    BY <1>4 DEF NITDone, ScanKnown, ListTyped
  <2>2. DOMAIN transponders = 1..Len(transponders) /\ Len(transponders) \in Nat
    BY <2>1, SeqFacts
  <2>3. IsSeq(transponders')
    <3>1. PICK f : f = [i \in 1..Len(transponders) |->
                          [transponders[i] EXCEPT !.used =
                             transponders[i].used \/ transponders[i].mux \notin rows]]
      OBVIOUS
    <3>2. f = [i \in 1..Len(transponders) |-> f[i]]
      BY <3>1
    <3>3. IsSeq(f)
      BY <2>2, <3>2, Listing
    <3>4. transponders' = f
      BY <2>1, <2>2, <3>1 DEF ProcessTransponders
    <3> QED
      BY <3>3, <3>4
  <2>4. PICK more : EntriesLike(more) /\ AddEntries(more)
    <3>1. PICK K : K = {i \in DOMAIN transponders : transponders[i].mux \notin identified}
      OBVIOUS
    <3>2. PICK fresh : fresh = Selected(transponders, K)
      OBVIOUS
    <3>3. DOMAIN fresh = 1..Len(fresh) /\ Len(fresh) \in Nat
      BY <2>1, <3>1, <3>2, SelectedIs
    <3>4. PICK f : f = [i \in 1..Len(fresh) |->
                          IF fresh[i].mux \in rows THEN KnownEntry(fresh[i].mux)
                          ELSE UnknownEntry(IF fresh[i].used THEN <<>> ELSE <<fresh[i].mux>>)]
      OBVIOUS
    <3>5. \A c, used : EntryLike(UnknownEntry(IF used THEN <<>> ELSE <<c>>))
      <4>1. \A c : IsSeq(<<c>>) /\ IsSeq(<<>>)
        BY Steps, NoStep
      <4> QED
        BY <4>1, EntriesAre
    <3>6. f = [i \in 1..Len(fresh) |-> f[i]] /\ \A i \in 1..Len(fresh) : EntryLike(f[i])
      BY <3>4, <3>5, EntriesAre
    <3>7. EntriesLike(f)
      BY <3>3, <3>6, ListLike
    <3>8. AddEntries(f)
      BY <2>1, <3>1, <3>2, <3>3, <3>4 DEF ProcessTransponders
    <3> QED
      BY <3>7, <3>8
  <2>5. /\ ListTyped'
        /\ \A i : (Before(i)' <=> Before(i)) /\ (Before(i) => entries'[i] = entries[i])
    BY <1>2, <2>3, <2>4, EntriesAdded DEF ScanKnown
  <2>6. \A i : Before(i)' => Fine(i)'
    BY <1>1, <1>2, <2>5 DEF ScanKnown, EntriesFine, Fine
  <2>7. Goto("NextMux") \/ Stay
    BY <1>1
  <2>8. CASE Goto("NextMux")
    <3>1. /\ state' = "NextMux" /\ CallsFit' /\ NamesIn({"scan", "again", "check"})'
          /\ At(Input, "scan", "Entered")'
      BY <1>1, <2>8, GotoGives DEF ScanKnown
    <3> QED
      BY <2>5, <2>6, <3>1, EntersKnown DEF States
  <2>9. CASE Stay
    <3>1. CallsFit' /\ NamesIn({"again", "check"})' /\ state' = state
      BY <1>1, <2>9, ScanStays DEF ScanKnown, Closing, Stay
    <3>2. StateFits'
      BY <1>1, <3>1 DEF StateFits, ScanKnown, NamesIn, Has
    <3>3. EntriesFine'
      BY <1>1, <2>6, <3>1 DEF EntriesFine
    <3> QED
      BY <2>5, <3>1, <3>2, <3>3 DEF ScanKnown
  <2> QED
    BY <2>7, <2>8, <2>9
<1> QED
  BY <1>3, <1>4

LEMMA LockedOnKnown == ASSUME ScanKnown, LockedOn PROVE ScanKnown'
<1>1. state = "NextMux" /\ Doing(Input, "scan", "Locked")
  BY DEF LockedOn, On
<1>2. entry \in tried /\ entry \in 1..Len(entries) /\ \A i : Before(i) => Fine(i)
  BY <1>1, EntryTried
<1>3. PICK m : /\ entries' = [entries EXCEPT ![entry].mux = m]
               /\ Then(Input, MultiplexSteps(m) \o <<<<"wait", None>>>>)
  BY DEF LockedOn
<1>4. UNCHANGED <<state, locked, current, entry, param, listed, tried, cancelled, transponders>>
  BY DEF LockedOn, machine, history
<1>5. PICK p : p = MultiplexSteps(m) \o <<<<"wait", None>>>>
  OBVIOUS
<1>6. PICK a : a = <<"scan", "Locked">>
  OBVIOUS
<1>7. a[1] = "scan"
  BY <1>6
<1>8. /\ Replaces(Input, p, a) /\ p # <<>> /\ p[1] = <<"disable", None>>
      /\ \A i \in 1..Len(p) :
           p[i][1] \in {"disable", "load", "tune", "announce", "enable", "wait"}
  BY <1>5, <1>7, LockGoesOn
<1>9. Takes(Input, a, p)
  BY <1>1, <1>3, <1>5, <1>6, <1>8, InputIs DEF Takes, Doing
<1>10. CallsFit' /\ todo'[Input] # <<>> /\ Head(todo'[Input]) = <<"disable", None>>
  BY <1>8, <1>9, Taken DEF ScanKnown
<1>11. NamesIn({"disable", "load", "tune", "announce", "enable", "wait"} \cup {"again", "check"})'
  BY <1>7, <1>8, <1>9, ClosingTaken DEF Closing, ScanKnown
<1>12. StateFits'
  <2>1. \A i \in 1..Len(todo'[Input]) : todo'[Input][i][1] \in
          {"disable", "load", "tune", "announce", "enable", "wait", "again", "check"}
    BY <1>11 DEF NamesIn
  <2> QED
    BY <1>1, <1>4, <2>1 DEF StateFits, Has, ScanKnown
<1>13. /\ IsSeq(entries) /\ Len(entries) \in Nat /\ DOMAIN entries = 1..Len(entries)
       /\ \A i \in 1..Len(entries) : EntryLike(entries[i])
  BY SeqFacts DEF ScanKnown, ListTyped, EntriesLike
<1>14. /\ \A i \in 1..Len(entries) : i # entry => entries'[i] = entries[i]
       /\ entries'[entry] = [entries[entry] EXCEPT !.mux = m]
       /\ DOMAIN entries' = 1..Len(entries)
  BY <1>2, <1>3, <1>13
<1>15. EntriesLike(entries')
  <2>1. PICK e : e = entries[entry]
    OBVIOUS
  <2>2. e = [mux |-> e.mux, docs |-> e.docs] /\ IsSeq(e.docs)
    BY <1>2, <1>13, <2>1 DEF EntryLike
  <2>3. PICK f : f = [e EXCEPT !.mux = m]
    OBVIOUS
  <2>4. f = [mux |-> m, docs |-> e.docs]
    BY <2>2, <2>3
  <2>5. f.mux = m /\ f.docs = e.docs
    BY <2>4
  <2>6. EntryLike(f)
    BY <2>2, <2>4, <2>5 DEF EntryLike
  <2>7. \A i \in 1..Len(entries) : EntryLike(entries'[i])
    BY <1>13, <1>14, <2>1, <2>3, <2>6
  <2>8. entries' = [i \in 1..Len(entries) |-> entries'[i]]
    BY <1>3, <1>13
  <2> QED
    BY <1>13, <2>7, <2>8, ListLike
<1>16. Len(entries') = Len(entries)
  <2>1. entries' = [i \in 1..Len(entries) |-> entries'[i]]
    BY <1>3, <1>13
  <2> QED
    BY <1>13, <2>1, Listing
<1>17. ListTyped'
  BY <1>4, <1>15, <1>16 DEF ListTyped, ScanKnown
<1>18. \A i : Before(i)' /\ i # entry => Fine(i)'
  <2>1. SUFFICES ASSUME NEW i, Before(i), i # entry PROVE Fine(i)'
    BY <1>4 DEF Before
  <2>2. i \in 1..Len(entries)
    BY <1>13, <2>1 DEF Before, ScanKnown, ListTyped
  <2> QED
    BY <1>2, <1>4, <1>14, <2>1, <2>2 DEF Fine
<1>19. ~At(Input, "scan", "Entered")'
  BY <1>10 DEF At
<1>20. EntriesFine'
  BY <1>1, <1>2, <1>4, <1>16, <1>18, <1>19 DEF EntriesFine
<1> QED
  BY <1>10, <1>12, <1>17, <1>20 DEF ScanKnown

-----------------------------------------------------------------------------
(* What arrives. *)

LEMMA OneCall ==
  ASSUME NEW t, NEW b, b[1] \in StepsOf(t), MayEnd(t, b)
  PROVE  CallOf(t, <<b>>)
<1>1. PICK q : q = <<b>>
  OBVIOUS
<1>2. IsSeq(q) /\ Len(q) = 1 /\ q[1] = b
  BY <1>1, Steps
<1> QED
  BY <1>1, <1>2 DEF CallOf

LEMMA TwoCall ==
  ASSUME NEW t, NEW b, NEW c, b[1] \in StepsOf(t), c[1] \in StepsOf(t),
         Follows(t, b, c), MayEnd(t, c)
  PROVE  CallOf(t, <<b, c>>)
<1>1. PICK q : q = <<b, c>>
  OBVIOUS
<1>2. IsSeq(q) /\ Len(q) = 2 /\ q[1] = b /\ q[2] = c
  BY <1>1, Steps
<1>3. \A i \in 1..2 : /\ q[i][1] \in StepsOf(t)
                      /\ IF i = 2 THEN MayEnd(t, q[i]) ELSE Follows(t, q[i], q[i + 1])
  <2>1. SUFFICES ASSUME NEW i \in 1..2
                 PROVE  /\ q[i][1] \in StepsOf(t)
                        /\ IF i = 2 THEN MayEnd(t, q[i]) ELSE Follows(t, q[i], q[i + 1])
    OBVIOUS
  <2>2. CASE i = 1
    <3>1. i + 1 = 2
      BY <2>2
    <3> QED
      BY <1>2, <2>2, <3>1
  <2>3. CASE i = 2
    BY <1>2, <2>3
  <2> QED
    BY <2>1, <2>2, <2>3
<1> QED
  BY <1>1, <1>2, <1>3 DEF CallOf

\* Something arrives that does not change the state.
LEMMA SentKnown ==
  ASSUME ScanKnown, NEW p, Begins(Input, p), Kept, p # <<>>,
         \A i \in 1..Len(p) : p[i][1] \in {"scan", "again", "check"},
         \A x \in {"Entered", "Next"} : Head(p) # <<"scan", x>>
  PROVE  ScanKnown'
<1>1. CallsFit' /\ todo'[Input] = p
  BY Begun DEF ScanKnown
<1>2. todo[Input] = <<>>
  BY DEF Begins, Idle
<1>3. state # "Init"
  <2>1. PICK e : e = <<"scan", "Entered">>
    OBVIOUS
  <2>2. PICK q : q = <<e>>
    OBVIOUS
  <2>3. q # <<>>
    BY <2>2
  <2> QED
    BY <1>2, <2>1, <2>2, <2>3 DEF ScanKnown, StateFits, Entered
<1>4. NamesIn({"scan", "again", "check"})'
  BY <1>1 DEF NamesIn
<1>5. ~At(Input, "scan", "Entered")' /\ ~At(Input, "scan", "Next")'
  BY <1>1 DEF At
<1>6. ~At(Input, "scan", "Entered") /\ ~ToTry
  BY <1>2 DEF At, ToTry, Idle
<1>7. state = "NextMux" => entry \in tried
  BY <1>6 DEF ScanKnown, EntriesFine
<1> QED
  BY <1>1, <1>3, <1>4, <1>5, <1>6, <1>7, SettledKeeps DEF Kept

LEMMA OneSent ==
  ASSUME ScanKnown, Kept, NEW step \in {"scan", "check"}, NEW x,
         step = "scan" => x \notin {"Entered", "Next"}, Arrives(<<<<step, x>>>>)
  PROVE  ScanKnown'
<1>1. PICK b : b = <<step, x>>
  OBVIOUS
<1>2. PICK p : p = <<b>>
  OBVIOUS
<1>3. b[1] = step /\ b[2] = x /\ p # <<>> /\ Len(p) = 1 /\ p[1] = b /\ Head(p) = b
  BY <1>1, <1>2
<1>4. CallOf(Input, p)
  BY <1>2, <1>3, OneCall, InputIs DEF StepsOf, InputSteps, MayEnd
<1>5. Begins(Input, p)
  BY <1>1, <1>2, <1>4, InputIs DEF Begins, Arrives, Call
<1>6. \A i \in 1..Len(p) : p[i][1] \in {"scan", "again", "check"}
  BY <1>3
<1>7. \A y \in {"Entered", "Next"} : Head(p) # <<"scan", y>>
  <2>1. \A y, z : b = <<z, y>> => z = step /\ y = x
    BY <1>3
  <2> QED
    BY <1>3, <2>1
<1> QED
  BY <1>3, <1>5, <1>6, <1>7, SentKnown

LEMMA TwoSent ==
  ASSUME ScanKnown, Kept, NEW x, x \notin {"Entered", "Next"}, NEW then \in {"again", "check"},
         Arrives(<<<<"scan", x>>, <<then, None>>>>)
  PROVE  ScanKnown'
<1>1. PICK b : b = <<"scan", x>>
  OBVIOUS
<1>2. PICK c : c = <<then, None>>
  OBVIOUS
<1>3. PICK p : p = <<b, c>>
  OBVIOUS
<1>4. b[1] = "scan" /\ b[2] = x /\ c[1] = then
  BY <1>1, <1>2
<1>5. p # <<>> /\ Len(p) = 2 /\ p[1] = b /\ p[2] = c /\ Head(p) = b
  BY <1>3
<1>6. Follows(Input, b, c)
  BY <1>4, Following DEF Closing
<1>7. CallOf(Input, p)
  BY <1>3, <1>4, <1>6, TwoCall, InputIs DEF StepsOf, InputSteps, MayEnd
<1>8. Begins(Input, p)
  BY <1>1, <1>2, <1>3, <1>7, InputIs DEF Begins, Arrives, Call
<1>9. \A i \in 1..Len(p) : p[i][1] \in {"scan", "again", "check"}
  BY <1>4, <1>5
<1>10. \A y \in {"Entered", "Next"} : Head(p) # <<"scan", y>>
  <2>1. \A y, z : b = <<z, y>> => y = x
    BY <1>4
  <2> QED
    BY <1>5, <2>1
<1> QED
  BY <1>5, <1>8, <1>9, <1>10, SentKnown

LEMMA WatcherKnown == ASSUME ScanKnown, Watcher PROVE ScanKnown'
<1>1. UNCHANGED <<entries, current, entry, param, listed, cancelled, transponders, tried>>
  BY DEF Watcher, list, history
<1>2. CASE cancelScan
  <2>1. Arrives(<<<<"scan", "Cancel">>>>) /\ state' = state
    BY <1>2 DEF Watcher
  <2>2. Kept
    BY <1>1, <2>1 DEF Kept, Arrives, Quietly
  <2> QED
    BY <2>1, <2>2, OneSent
<1>3. CASE ~cancelScan
  <2>1. Arrives(Entered) /\ state' = "Init"
    BY <1>3 DEF Watcher
  <2>2. PICK b : b = <<"scan", "Entered">>
    OBVIOUS
  <2>3. PICK p : p = <<b>>
    OBVIOUS
  <2>4. b[1] = "scan" /\ Len(p) = 1 /\ p[1] = b
    BY <2>2, <2>3
  <2>5. CallOf(Input, p)
    BY <2>3, <2>4, OneCall, InputIs DEF StepsOf, InputSteps, MayEnd
  <2>6. Begins(Input, p)
    BY <2>1, <2>2, <2>3, <2>5, InputIs DEF Begins, Arrives, Call, Entered
  <2>7. CallsFit' /\ todo'[Input] = p
    BY <2>6, Begun DEF ScanKnown
  <2>8. \A i \in 1..Len(todo'[Input]) : todo'[Input][i][1] \in {"scan"}
    <3>1. \A i \in 1..Len(p) : p[i][1] \in {"scan"}
      BY <2>4
    <3> QED
      BY <2>7, <3>1
  <2>9. StateFits'
    BY <2>1, <2>2, <2>3, <2>7, <2>8 DEF StateFits, States, Has, Entered
  <2>10. ListTyped'
    BY <1>1 DEF ListTyped, ScanKnown
  <2>11. EntriesFine'
    BY <2>1 DEF EntriesFine
  <2> QED
    BY <2>7, <2>9, <2>10, <2>11 DEF ScanKnown
<1> QED
  BY <1>2, <1>3

LEMMA EventsKnown ==
  ASSUME ScanKnown, TimerTick \/ FrontendLocked \/ PATEvent \/ PMTEvent \/ SDTEvent
  PROVE  ScanKnown'
<1>1. CASE TimerTick
  <2>1. Arrives(<<<<"scan", "Tick">>, <<"again", None>>>>) /\ Kept
    BY <1>1 DEF TimerTick, Kept, Arrives, Quietly, list, machine, history
  <2> QED
    BY <2>1, TwoSent
<1>2. CASE FrontendLocked
  <2>1. Arrives(<<<<"scan", "Locked">>>>) /\ Kept
    BY <1>2 DEF FrontendLocked, Kept, Arrives, Quietly, list, machine, history
  <2> QED
    BY <2>1, OneSent
<1>3. CASE PATEvent
  <2>1. Arrives(<<<<"scan", "PAT">>, <<"check", None>>>>) /\ Kept
    BY <1>3 DEF PATEvent, Kept, Arrives, Quietly, list, history
  <2> QED
    BY <2>1, TwoSent
<1>4. CASE PMTEvent
  <2>1. Arrives(<<<<"check", None>>>>) /\ Kept
    BY <1>4 DEF PMTEvent, Kept, Arrives, Quietly, list
  <2> QED
    BY <2>1, OneSent
<1>5. CASE SDTEvent
  <2>1. Arrives(<<<<"scan", "SDT">>>>) /\ Kept
    BY <1>5 DEF SDTEvent, Kept, Arrives, Quietly, list, machine, history
  <2> QED
    BY <2>1, OneSent
<1> QED
  BY <1>1, <1>2, <1>3, <1>4, <1>5

LEMMA NITEventKnown == ASSUME ScanKnown, NITEvent PROVE ScanKnown'
<1>1. UNCHANGED <<state, locked, entries, current, entry, param, listed, cancelled, tried, todo>>
  BY DEF NITEvent, tuning, machine, history
<1>2. tunedTo \in Mux /\ IsSeq(transponders) /\ IsSeq(Announced[tunedTo])
  BY ScanningAssumption DEF ScanKnown, ListTyped, NITEvent, Receiving, IsSeq
<1>3. PICK sent : sent = Announced[tunedTo]
  OBVIOUS
<1>4. PICK K : K = {k \in DOMAIN sent :
                      \A i \in DOMAIN transponders : transponders[i].mux # sent[k]}
  OBVIOUS
<1>5. PICK news : news = Selected(sent, K)
  OBVIOUS
<1>6. DOMAIN news = 1..Len(news) /\ Len(news) \in Nat
  BY <1>2, <1>3, <1>4, <1>5, SelectedIs
<1>7. PICK f : f = [i \in 1..Len(news) |-> [mux |-> news[i], used |-> FALSE]]
  OBVIOUS
<1>8. IsSeq(f)
  <2>1. f = [i \in 1..Len(news) |-> f[i]]
    BY <1>7
  <2> QED
    BY <1>6, <2>1, Listing
<1>9. transponders' = transponders \o f
  BY <1>3, <1>4, <1>5, <1>6, <1>7 DEF NITEvent
<1>10. IsSeq(transponders')
  BY <1>2, <1>8, <1>9, Joined
<1>11. \A step, x : At(Input, step, x)' <=> At(Input, step, x)
  BY <1>1 DEF At, Idle
<1>12. ToTry' <=> ToTry
  BY <1>1, <1>11 DEF ToTry
<1>13. CallsFit' /\ StateFits'
  BY <1>1 DEF ScanKnown, CallsFit, StateFits, Has
<1>14. ListTyped'
  BY <1>1, <1>10 DEF ScanKnown, ListTyped
<1>15. EntriesFine'
  BY <1>1, <1>11, <1>12 DEF ScanKnown, EntriesFine, Before, Fine
<1> QED
  BY <1>13, <1>14, <1>15 DEF ScanKnown

\* Steps of the user's thread that leave the list alone.
LEMMA UserKeeps ==
  ASSUME ScanKnown, CallsFit', todo'[Input] = todo[Input], ListTyped',
         UNCHANGED <<state, locked, entry, tried, cancelled, param>>, listed' = listed,
         \A i : (Before(i)' <=> Before(i)) /\ (Before(i) => entries'[i] = entries[i]),
         \A i \in 1..Len(entries) : entries'[i] = entries[i] /\ i \in 1..Len(entries')
  PROVE  ScanKnown'
<1>1. \A step, x : At(Input, step, x)' <=> At(Input, step, x)
  BY DEF At, Idle
<1>2. StateFits'
  BY DEF StateFits, ScanKnown, Has
<1>3. ToTry' <=> ToTry
  BY <1>1 DEF ToTry
<1>4. \A i \in 1..listed : i \in 1..Len(entries)
  <2>1. IsSeq(entries) /\ listed \in 0..Len(entries)
    BY DEF ScanKnown, ListTyped, EntriesLike
  <2>2. Len(entries) \in Nat
    BY <2>1, SeqFacts
  <2> QED
    BY <2>1, <2>2
<1>5. EntriesFine'
  BY <1>1, <1>3, <1>4 DEF EntriesFine, ScanKnown, Fine
<1> QED
  BY <1>2, <1>5 DEF ScanKnown

LEMMA FillListKnown == ASSUME ScanKnown, FillList PROVE ScanKnown'
<1>1. PICK kind \in Kinds, m \in Mux :
        /\ Doing(User, "list", <<kind, m>>)
        /\ AddEntries(EntriesOf(kind, m)) /\ Then(User, <<>>)
        /\ transponders' = IF kind = "net" THEN <<>> ELSE transponders
  BY DEF FillList
<1>2. UNCHANGED <<state, locked, entry, param, listed, tried, cancelled>>
  BY DEF FillList, machine, history
<1>3. PICK a : a = <<"list", <<kind, m>>>>
  OBVIOUS
<1>4. Takes(User, a, <<>>)
  BY <1>1, <1>3, Nothing, InputIs DEF Takes, Doing
<1>5. CallsFit' /\ todo'[Input] = todo[Input]
  BY <1>4, Taken, InputIs DEF ScanKnown
<1>6. transponders' = None \/ IsSeq(transponders')
  BY <1>1, NoStep DEF ScanKnown, ListTyped
<1>7. /\ ListTyped'
      /\ \A i : (Before(i)' <=> Before(i)) /\ (Before(i) => entries'[i] = entries[i])
      /\ \A i \in 1..Len(entries) : entries'[i] = entries[i] /\ i \in 1..Len(entries')
  BY <1>1, <1>2, <1>6, EntriesOfLike, EntriesAdded DEF ScanKnown
<1> QED
  BY <1>2, <1>5, <1>7, UserKeeps

-----------------------------------------------------------------------------
(* Tuning. *)

\* A step of a tuning, on the input thread.
LEMMA InputTuned ==
  ASSUME ScanKnown, NEW a, NEW p, Takes(Input, a, p), Kept, tried' = tried,
         a[1] \in {"disable", "retune", "load", "tune", "announce", "enable"},
         p # <<>> => a[1] = "retune" /\ p[1][1] = "load",
         \A i \in 1..Len(p) : p[i][1] \in {"load", "tune", "announce", "enable"}
  PROVE  ScanKnown'
<1>1. PICK q : q = todo[Input]
  OBVIOUS
<1>2. CallOf(Input, q) /\ IsSeq(q) /\ q # <<>> /\ Head(q) = a
  BY <1>1, InputIs DEF ScanKnown, CallsFit, CallOf, Takes, Idle
<1>3. Len(q) \in Nat /\ 1 \in 1..Len(q) /\ q[1] = a
  BY <1>2, SeqFacts
<1>4. /\ CallsFit'
      /\ \A i \in 1..Len(todo'[Input]) :
           \/ \E j \in 1..Len(p) : todo'[Input][i] = p[j]
           \/ \E j \in 2..Len(q) : todo'[Input][i] = q[j]
      /\ p # <<>> => todo'[Input] # <<>> /\ Head(todo'[Input]) = p[1]
      /\ p = <<>> => todo'[Input] = <<>> \/ Follows(Input, a, Head(todo'[Input]))
  BY <1>1, Taken DEF ScanKnown
<1>5. \A step, x : a = <<step, x>> => step = a[1]
  <2>1. SUFFICES ASSUME NEW step, NEW x, a = <<step, x>> PROVE step = a[1]
    OBVIOUS
  <2> QED
    BY <2>1
<1>6. state # "Init"
  <2>1. PICK e : e = <<"scan", "Entered">>
    OBVIOUS
  <2>2. e[1] = "scan"
    BY <2>1
  <2>3. state = "Init" => q = <<e>>
    BY <1>1, <2>1 DEF ScanKnown, StateFits, Entered
  <2>4. state = "Init" => q[1] = e
    BY <2>3
  <2> QED
    BY <1>3, <2>2, <2>4
<1>7. state # "Stopped"
  BY <1>1, <1>3 DEF ScanKnown, StateFits
<1>8. \A step \in {"wait", "restore", "retune", "finish"} : Has(step)' => Has(step)
  <2>1. SUFFICES ASSUME NEW step \in {"wait", "restore", "retune", "finish"}, Has(step)'
                 PROVE  Has(step)
    OBVIOUS
  <2>2. PICK i \in 1..Len(todo'[Input]) : todo'[Input][i][1] = step
    BY <2>1 DEF Has
  <2>3. PICK j \in 2..Len(q) : todo'[Input][i] = q[j]
    BY <1>4, <2>2
  <2>4. j \in 1..Len(q)
    BY <1>3, <2>3
  <2> QED
    BY <1>1, <2>2, <2>3, <2>4 DEF Has
<1>9. StateFits'
  BY <1>6, <1>7, <1>8 DEF ScanKnown, StateFits, Kept
<1>10. ListTyped'
  BY DEF ScanKnown, ListTyped, Kept
<1>11. \A x : ~At(Input, "scan", x)' /\ ~At(Input, "scan", x)
  <2>1. SUFFICES ASSUME NEW x PROVE ~At(Input, "scan", x)' /\ ~At(Input, "scan", x)
    OBVIOUS
  <2>2. PICK e : e = <<"scan", x>>
    OBVIOUS
  <2>3. e[1] = "scan"
    BY <2>2
  <2>4. ~At(Input, "scan", x)
    BY <1>1, <1>2, <1>5, <2>2 DEF At
  <2>5. CASE p = <<>>
    <3>1. todo'[Input] = <<>> \/ Head(todo'[Input])[1] # "scan"
      BY <1>4, <2>5, AfterStep
    <3> QED
      BY <2>2, <2>3, <2>4, <3>1 DEF At, Idle
  <2>6. CASE p # <<>>
    <3>1. Head(todo'[Input])[1] = "load"
      BY <1>4, <2>6
    <3> QED
      BY <2>2, <2>3, <2>4, <3>1 DEF At, Idle
  <2> QED
    BY <2>5, <2>6
<1>12. ToTry => ToTry'
  <2>1. SUFFICES ASSUME ToTry PROVE ToTry'
    OBVIOUS
  <2>2. \A m : ~At(Input, "frontend", m)
    BY <1>1, <1>2, <1>5 DEF At
  <2>3. At(Input, "disable", None) /\ \E m : q[2] = <<"frontend", m>>
    BY <1>1, <1>11, <2>1, <2>2 DEF ToTry
  <2>4. a[1] = "disable"
    BY <1>1, <1>2, <1>5, <2>3 DEF At
  <2>5. p = <<>>
    BY <2>4
  <2>6. Len(q) # 1
    BY <1>2, <1>3, <2>4, LastStep DEF CallOf
  <2>7. IsSeq(Tail(q)) /\ Len(Tail(q)) = Len(q) - 1 /\ \A i \in 1..Len(q) - 1 : Tail(q)[i] = q[i + 1]
    BY <1>2, SeqFacts
  <2>8. Tail(q) # <<>> /\ Head(Tail(q)) = Tail(q)[1] /\ 1 \in 1..Len(q) - 1
    <3>1. 1 \in 1..Len(q) - 1 /\ Len(Tail(q)) # 0
      <4>1. Len(q) \in Nat \ {0, 1}
        BY <1>3, <2>6
      <4>2. 1 \in 1..Len(q) - 1 /\ Len(q) - 1 # 0
        <5>1. PICK l : l = Len(q)
          OBVIOUS
        <5>2. l \in Nat \ {0, 1}
          BY <4>1, <5>1
        <5>3. l - 1 >= 1 /\ l - 1 \in Nat
          BY <5>2
        <5>4. 1 \in 1..l - 1 /\ l - 1 # 0
          BY <5>3
        <5> QED
          BY <5>1, <5>4
      <4>3. Len(Tail(q)) = Len(q) - 1
        BY <2>7
      <4> QED
        BY <4>2, <4>3
    <3>2. PICK r : r = Tail(q)
      OBVIOUS
    <3>3. IsSeq(r) /\ Len(r) # 0
      BY <2>7, <3>1, <3>2
    <3>4. r # <<>> /\ Head(r) = r[1]
      BY <3>3, SeqFacts
    <3> QED
      BY <3>1, <3>2, <3>4
  <2>9. Head(Tail(q)) = q[2]
    BY <2>7, <2>8
  <2>10. <<>> \o Tail(q) = Tail(q)
    BY <2>7, ConcatEmptySeq DEF IsSeq
  <2>11. todo'[Input] = Tail(q)
    BY <1>1, <2>5, <2>10, InputIs DEF Takes, Then, ScanKnown, CallsFit
  <2> QED
    BY <2>3, <2>8, <2>9, <2>11 DEF ToTry, At, Idle
<1>13. EntriesFine'
  BY <1>11, <1>12 DEF EntriesFine, ScanKnown, Kept, Fine, Before
<1> QED
  BY <1>4, <1>9, <1>10, <1>13 DEF ScanKnown

\* The user's thread does not touch the list here.
LEMMA UserLeaves ==
  ASSUME ScanKnown, CallsFit', todo'[Input] = todo[Input], Kept, tried' = tried
  PROVE  ScanKnown'
<1>1. ListTyped'
  BY DEF ScanKnown, ListTyped, Kept
<1>2. \A i : (Before(i)' <=> Before(i)) /\ (Before(i) => entries'[i] = entries[i])
  BY DEF Kept, Before
<1> QED
  BY <1>1, <1>2, UserKeeps DEF Kept

\* The steps of a tuning, as they replace the head of a call.
LEMMA TuningTakes ==
  ASSUME CallsFit, NEW t \in Thread, TuningStep(t) \/ Follow(t)
  PROVE  \/ todo' = todo
         \/ \E a, p : /\ Takes(t, a, p)
                      /\ t = Input =>
                           /\ a[1] \in {"disable", "retune", "load", "tune", "announce", "enable"}
                           /\ p # <<>> => a[1] = "retune" /\ p[1][1] = "load"
                           /\ \A i \in 1..Len(p) : p[i][1] \in {"load", "tune", "announce", "enable"}
<1>1. ASSUME NEW step, NEW x, Doing(t, step, x)
      PROVE  /\ ~Idle(t) /\ Head(todo[t]) = <<step, x>> /\ step \in StepsOf(t)
  <2>1. ~Idle(t) /\ Head(todo[t]) = <<step, x>>
    BY <1>1 DEF Doing
  <2>2. todo[t][1][1] = step
    BY <1>1, DoingAt
  <2>3. CallOf(t, todo[t])
    BY DEF CallsFit
  <2>4. 1 \in 1..Len(todo[t])
    BY <2>1, <2>3, SeqFacts DEF Idle, CallOf
  <2> QED
    BY <2>1, <2>2, <2>3, <2>4 DEF CallOf
<1>2. ASSUME NEW step \in {"disable", "load", "tune", "announce", "enable", "current", "follow"},
             NEW x, Doing(t, step, x), Then(t, <<>>)
      PROVE  \E a, p : /\ Takes(t, a, p)
                       /\ t = Input =>
                            /\ a[1] \in {"disable", "retune", "load", "tune", "announce", "enable"}
                            /\ p # <<>> => a[1] = "retune" /\ p[1][1] = "load"
                            /\ \A i \in 1..Len(p) : p[i][1] \in {"load", "tune", "announce", "enable"}
  <2>1. PICK a : a = <<step, x>>
    OBVIOUS
  <2>2. a[1] = step
    BY <2>1
  <2>3. Takes(t, a, <<>>)
    BY <1>1, <1>2, <2>1, Nothing DEF Takes
  <2>4. t = Input => step \in {"disable", "retune", "load", "tune", "announce", "enable"}
    BY <1>1, <1>2, InputIs DEF StepsOf, InputSteps
  <2>5. \A i \in 1..Len(<<>>) : <<>>[i][1] \in {"load", "tune", "announce", "enable"}
    BY NoStep
  <2> QED
    BY <2>2, <2>3, <2>4, <2>5
<1>3. CASE Follow(t)
  BY <1>2, <1>3 DEF Follow
<1>4. CASE Enable(t)
  <2>1. PICK on \in BOOLEAN : Doing(t, IF on THEN "enable" ELSE "disable", None) /\ Then(t, <<>>)
    BY <1>4 DEF Enable
  <2> QED
    BY <1>2, <2>1
<1>5. CASE LoadCache(t)
  BY <1>2, <1>5 DEF LoadCache
<1>6. CASE TuneMultiplex(t)
  BY <1>2, <1>6 DEF TuneMultiplex
<1>7. CASE Announce(t)
  BY <1>2, <1>7 DEF Announce
<1>8. CASE SetCurrent(t)
  BY <1>2, <1>8 DEF SetCurrent
<1>9. CASE FindMultiplex(t)
  <2>1. PICK s \in Service :
          /\ Doing(t, "find", s)
          /\ \/ Crash(t)
             \/ Then(t, (IF currentMultiplex = MuxOf[s] THEN <<>> ELSE TuneSteps(MuxOf[s]))
                       \o <<<<"current", s>>, <<"follow", None>>, <<"enable", None>>>>)
    BY <1>9 DEF FindMultiplex
  <2>2. CASE Crash(t)
    BY <2>2 DEF Crash
  <2>3. CASE ~Crash(t)
    <3>1. t = User
      BY <1>1, <2>1, InputIs DEF StepsOf, InputSteps, Thread
    <3>2. PICK a : a = <<"find", s>>
      OBVIOUS
    <3>3. a[1] = "find"
      BY <3>2
    <3>4. PICK tunes \in BOOLEAN : tunes <=> currentMultiplex # MuxOf[s]
      OBVIOUS
    <3>5. PICK p : p = (IF tunes THEN TuneSteps(MuxOf[s]) ELSE <<>>)
                         \o <<<<"current", s>>, <<"follow", None>>, <<"enable", None>>>>
      OBVIOUS
    <3>6. Replaces(User, p, a)
      BY <3>3, <3>5, FindGoesOn
    <3>7. Then(User, p)
      BY <2>1, <2>3, <3>1, <3>4, <3>5
    <3>8. Takes(User, a, p)
      BY <1>1, <2>1, <3>1, <3>2, <3>6, <3>7, InputIs DEF Takes
    <3> QED
      BY <3>1, <3>8, InputIs
  <2> QED
    BY <2>2, <2>3
<1>10. CASE RetuneMultiplex(t)
  <2>1. /\ Doing(t, "retune", None)
        /\ \/ Crash(t)
           \/ Then(t, TuneSteps(MuxOf[currentService]) \o <<<<"enable", None>>>>)
    BY <1>10 DEF RetuneMultiplex
  <2>2. CASE Crash(t)
    BY <2>2 DEF Crash
  <2>3. CASE ~Crash(t)
    <3>1. t = Input
      BY <1>1, <2>1, InputIs DEF StepsOf, UserSteps, Thread
    <3>2. PICK a : a = <<"retune", None>>
      OBVIOUS
    <3>3. a[1] = "retune"
      BY <3>2
    <3>4. PICK m : m = MuxOf[currentService]
      OBVIOUS
    <3>5. PICK p : p = TuneSteps(m) \o <<<<"enable", None>>>>
      OBVIOUS
    <3>6. /\ Replaces(Input, p, a) /\ p[1] = <<"load", m>>
          /\ \A i \in 1..Len(p) : p[i][1] \in {"load", "tune", "announce", "enable"}
      BY <3>3, <3>5, RetuneGoesOn
    <3>7. p[1][1] = "load"
      <4>1. PICK b : b = <<"load", m>>
        OBVIOUS
      <4> QED
        BY <3>6, <4>1
    <3>8. Takes(Input, a, p)
      BY <1>1, <2>1, <2>3, <3>1, <3>2, <3>4, <3>5, <3>6 DEF Takes
    <3> QED
      BY <3>1, <3>3, <3>6, <3>7, <3>8
  <2> QED
    BY <2>2, <2>3
<1> QED
  BY <1>3, <1>4, <1>5, <1>6, <1>7, <1>8, <1>9, <1>10 DEF TuningStep

LEMMA TuneStepKnown == ASSUME ScanKnown, TuneStep PROVE ScanKnown'
<1>1. PICK t \in Thread : TuningStep(t) \/ Follow(t)
  BY DEF TuneStep
<1>2. UNCHANGED <<locked, list, machine, async, history>>
  BY <1>1 DEF TuneStep, Follow, Quietly, TuningStep, Enable, FindMultiplex, RetuneMultiplex,
              LoadCache, TuneMultiplex, Announce, SetCurrent, Crash
<1>3. Kept /\ tried' = tried
  BY <1>2 DEF Kept, list, machine, history
<1>4. CASE todo' = todo
  <2>1. CallsFit'
    BY <1>4 DEF ScanKnown, CallsFit
  <2> QED
    BY <1>3, <1>4, <2>1, UserLeaves
<1>5. CASE todo' # todo
  <2>1. PICK a, p : /\ Takes(t, a, p)
                    /\ t = Input =>
                         /\ a[1] \in {"disable", "retune", "load", "tune", "announce", "enable"}
                         /\ p # <<>> => a[1] = "retune" /\ p[1][1] = "load"
                         /\ \A i \in 1..Len(p) : p[i][1] \in {"load", "tune", "announce", "enable"}
    BY <1>1, <1>5, TuningTakes DEF ScanKnown
  <2>2. CASE t = User
    <3>1. CallsFit' /\ todo'[Input] = todo[Input]
      BY <2>1, <2>2, Taken, InputIs DEF ScanKnown
    <3> QED
      BY <1>3, <3>1, UserLeaves
  <2>3. CASE t = Input
    BY <1>3, <2>1, <2>3, InputTuned
  <2> QED
    BY <2>2, <2>3 DEF Thread
<1> QED
  BY <1>4, <1>5

LEMMA CommandKnown == ASSUME ScanKnown, Command PROVE ScanKnown'
<1>1. Kept /\ tried' = tried
  BY DEF Command, Scan, CancelScan, Select, SetCurrentService, Kept, tuning, list, machine, history
<1>2. CASE CancelScan
  <2>1. todo' = todo
    BY <1>2 DEF CancelScan, tuning
  <2>2. CallsFit'
    BY <2>1 DEF ScanKnown, CallsFit
  <2> QED
    BY <1>1, <2>1, <2>2, UserLeaves
<1>3. ASSUME NEW b, NEW c, b[1] \in UserSteps, c[1] \in UserSteps, Follows(User, b, c),
             MayEnd(User, c), Call(User, <<b, c>>)
      PROVE  ScanKnown'
  <2>1. CallOf(User, <<b, c>>)
    BY <1>3, TwoCall DEF StepsOf
  <2>2. Begins(User, <<b, c>>)
    BY <1>3, <2>1, InputIs DEF Begins, Call
  <2>3. CallsFit' /\ todo'[Input] = todo[Input]
    BY <2>2, Begun, InputIs DEF ScanKnown
  <2> QED
    BY <1>1, <2>3, UserLeaves
<1>4. CASE Scan
  <2>1. PICK kind \in Kinds, m \in Mux :
          Call(User, <<<<"list", <<kind, m>>>>, <<"start", kind = "net">>>>)
    BY <1>4 DEF Scan
  <2>2. PICK b, c : b = <<"list", <<kind, m>>>> /\ c = <<"start", kind = "net">>
    OBVIOUS
  <2>3. b[1] = "list" /\ c[1] = "start"
    BY <2>2
  <2>4. Follows(User, b, c) /\ MayEnd(User, c)
    BY <2>3, Following DEF MayEnd
  <2> QED
    BY <1>3, <2>1, <2>2, <2>3, <2>4 DEF UserSteps
<1>5. CASE Select
  <2>1. PICK s \in Service : Call(User, <<<<"disable", None>>, <<"find", s>>>>)
    BY <1>5 DEF Select, SetCurrentService
  <2>2. PICK b, c : b = <<"disable", None>> /\ c = <<"find", s>>
    OBVIOUS
  <2>3. b[1] = "disable" /\ c[1] = "find"
    BY <2>2
  <2>4. Follows(User, b, c) /\ MayEnd(User, c)
    BY <2>3, Following DEF MayEnd
  <2> QED
    BY <1>3, <2>1, <2>2, <2>3, <2>4 DEF UserSteps
<1> QED
  BY <1>2, <1>4, <1>5 DEF Command

LEMMA StartKnown == ASSUME ScanKnown, Start PROVE ScanKnown'
<1>1. PICK net \in BOOLEAN : Doing(User, "start", net) /\ Then(User, <<>>)
  BY DEF Start
<1>2. Kept /\ tried' = tried
  BY DEF Start, Kept, list, machine, history
<1>3. PICK a : a = <<"start", net>>
  OBVIOUS
<1>4. Takes(User, a, <<>>)
  BY <1>1, <1>3, Nothing, InputIs DEF Takes, Doing
<1>5. CallsFit' /\ todo'[Input] = todo[Input]
  BY <1>4, Taken, InputIs DEF ScanKnown
<1> QED
  BY <1>2, <1>5, UserLeaves

\* Every step of the program keeps what is known of a scan.
LEMMA NextKnown == ASSUME ScanKnown, [Next]_vars PROVE ScanKnown'
<1>1. CASE UNCHANGED vars
  <2>1. Kept /\ tried' = tried /\ todo' = todo
    BY <1>1 DEF vars, Kept, tuning, list, machine, history
  <2>2. CallsFit'
    BY <2>1 DEF ScanKnown, CallsFit
  <2> QED
    BY <2>1, <2>2, UserLeaves
<1>2. CASE MachineStep
  BY <1>2, BeginKnown, NextEntryKnown, NextParamsKnown, TuneFrontendKnown, LockedOnKnown,
     WaitForTablesKnown, NoLockKnown, TablesEnteredKnown, TableReceivedKnown, NoTablesKnown,
     NITEnteredKnown, NITDoneKnown, CancelKnown, CancelledKnown, StopKnown, RestoreKnows,
     FinishKnown, IgnoredKnown, CheckPMTsKnown, TimerAgainKnown DEF MachineStep
<1>3. CASE Events
  BY <1>3, WatcherKnown, EventsKnown, NITEventKnown DEF Events
<1>4. CASE FillList \/ Start \/ TuneStep
  BY <1>4, FillListKnown, StartKnown, TuneStepKnown
<1>5. CASE Command
  BY <1>5, CommandKnown
<1> QED
  BY <1>1, <1>2, <1>3, <1>4, <1>5 DEF Next, Step

LEMMA InitKnown == ASSUME Init PROVE ScanKnown
<1>1. /\ state = "Stopped" /\ entries = <<>> /\ listed = 0 /\ current = 0 /\ param = 0
      /\ transponders = None /\ ~locked /\ todo = [t \in Thread |-> <<>>]
  BY DEF Init, TuningInit
<1>2. \A t \in Thread : todo[t] = <<>>
  BY <1>1
<1>3. CallsFit
  BY <1>1, <1>2, NoStep DEF CallsFit, CallOf
<1>4. StateFits
  BY <1>1, <1>2, NoStep, InputIs DEF StateFits, Has, States
<1>5. ListTyped
  BY <1>1, NoStep DEF ListTyped, EntriesLike
<1>6. EntriesFine
  BY <1>1 DEF EntriesFine
<1> QED
  BY <1>3, <1>4, <1>5, <1>6 DEF ScanKnown

\* What is known of a scan holds whatever happens: its calls and its list are
\* well formed, and of the entries it started with none is passed over.
THEOREM ScanIsKnown == Spec => []ScanKnown
<1>1. Init => ScanKnown
  BY InitKnown
<1>2. ScanKnown /\ [Next]_vars => ScanKnown'
  BY NextKnown
<1> QED
  BY <1>1, <1>2, PTL DEF Spec

\* A scan that nobody cancels tunes to every entry that was in its list when it
\* started (ScanListNextEntry, NextTuningParams), for any database, spectrum and
\* network, also when the NIT adds entries on the way.
THEOREM EntriesTried == Spec => []ListedEntriesTried
<1>1. ScanKnown => ListedEntriesTried
  BY DEF ScanKnown, EntriesFine, ListedEntriesTried, Fine
<1> QED
  BY <1>1, ScanIsKnown, PTL

-----------------------------------------------------------------------------
(* Who tunes. *)

UserTuning == UserSteps \ {"list", "start"}
InputTuning == {"disable", "retune", "load", "tune", "announce", "enable", "frontend", "restore"}

LEMMA HeadIs ==
  ASSUME CallsFit, NEW t \in Thread, NEW step, NEW x, At(t, step, x)
  PROVE  todo[t] # <<>> /\ todo[t][1][1] = step /\ todo[t][1] = Head(todo[t])
<1>1. todo[t] # <<>> /\ Head(todo[t]) = <<step, x>> /\ IsSeq(todo[t])
  BY DEF At, Idle, CallsFit, CallOf
<1>2. todo[t][1] = Head(todo[t])
  BY <1>1, SeqFacts
<1>3. PICK b : b = <<step, x>>
  OBVIOUS
<1>4. b[1] = step
  BY <1>3
<1> QED
  BY <1>1, <1>2, <1>3, <1>4

LEMMA UserAway ==
  ASSUME CallsFit, ~Tunes(User)
  PROVE  \A step \in UserTuning : \A x : ~At(User, step, x)
BY UserTunes, HeadIs, InputIs DEF UserTuning

LEMMA InputAway ==
  ASSUME CallsFit, ~Tunes(Input)
  PROVE  \A step \in InputTuning : \A x : ~At(Input, step, x)
BY InputTunes, HeadIs, InputIs DEF InputTuning

\* The input thread is not tuning, or not with its next step.
Apart == \A step \in {"load", "tune", "announce", "enable"} : \A x : ~At(Input, step, x)

LEMMA ApartWhen ==
  ASSUME CallsFit, NEW N, NamesIn(N),
         N \cap {"load", "tune", "announce", "enable"} = {}
  PROVE  Apart
<1>1. IsSeq(todo[Input]) /\ \A i \in 1..Len(todo[Input]) : todo[Input][i][1] \in N
  BY InputIs DEF CallsFit, CallOf, NamesIn
<1>2. \A step, x : todo[Input] # <<>> /\ Head(todo[Input]) = <<step, x>> => step \in N
  BY <1>1, HeadNamed
<1> QED
  BY <1>2 DEF Apart, At, Idle

Known == CacheFollows /\ Returns /\ Returned

\* A step that leaves the tuning alone, but perhaps for where the front end is.
LEMMA QuietRestores ==
  ASSUME Known, todo'[User] = todo[User],
         UNCHANGED <<cached, currentMultiplex, currentService, enabled>>,
         Apart, Apart', tunedTo' = tunedTo \/ ~Tunes(User), CallsFit,
         state' = "Stopping" /\ At(Input, "disable", None)' => todo'[Input][2][1] # "load",
         served' /\ state' \in Busy => currentService # None,
         served' /\ Over' => served /\ Over /\ tunedTo' = tunedTo
  PROVE  Known'
<1>1. \A step, x : At(User, step, x)' <=> At(User, step, x)
  BY DEF At, Idle
<1>2. \A m : ~At(Input, "tune", m) /\ ~At(Input, "tune", m)' /\ ~At(Input, "announce", m)'
             /\ ~At(Input, "load", m)' /\ ~At(Input, "enable", m)'
  BY DEF Apart
<1>3. Tunes(User)' <=> Tunes(User)
  BY DEF Tunes
<1>4. \A m : At(User, "announce", m) => tunedTo' = tunedTo
  BY UserAway DEF UserTuning, UserSteps
<1>5. CacheFollows'
  BY <1>1, <1>2, <1>4 DEF Known, CacheFollows, Thread
<1>6. Returns'
  BY <1>2 DEF Known, Returns
<1>7. Returned'
  BY <1>1, <1>3 DEF Known, Returned
<1> QED
  BY <1>5, <1>6, <1>7 DEF Known

-----------------------------------------------------------------------------
(* The machine leaves the current service alone. *)

\* A step of the machine whose call goes on with the machine, or is at its end.
Ordinary ==
  \E step \in Closing : \E e :
    /\ Doing(Input, step, e)
    /\ \/ Then(Input, <<>>)
       \/ step \in {"scan", "wait", "check"} /\ \E x : Then(Input, <<<<"scan", x>>>>)

LEMMA OrdinaryGives ==
  ASSUME CallsFit, Ordinary
  PROVE  /\ todo'[User] = todo[User] /\ NamesIn({"scan", "again", "check"})'
         /\ Apart /\ Apart' /\ CallsFit'
         /\ ~At(Input, "disable", None)' /\ ~At(Input, "finish", None)'
<1>1. PICK step, e :
        /\ step \in Closing /\ Doing(Input, step, e)
        /\ \/ Then(Input, <<>>)
           \/ step \in {"scan", "wait", "check"} /\ \E x : Then(Input, <<<<"scan", x>>>>)
  BY DEF Ordinary
<1>2. todo'[User] = todo[User] /\ NamesIn({"scan", "again", "check"})' /\ CallsFit'
  <2>1. CASE Then(Input, <<>>)
    <3>1. todo'[User] = todo[User] /\ NamesIn({"again", "check"})' /\ CallsFit'
      BY <1>1, <2>1, ScanStays
    <3> QED
      BY <3>1 DEF NamesIn
  <2>2. CASE step \in {"scan", "wait", "check"} /\ \E x : Then(Input, <<<<"scan", x>>>>)
    <3>1. PICK x : Then(Input, <<<<"scan", x>>>>)
      BY <2>2
    <3> QED
      BY <1>1, <2>2, <3>1, ScanGives
  <2> QED
    BY <1>1, <2>1, <2>2
<1>3. Apart
  <2>1. Head(todo[Input]) = <<step, e>>
    BY <1>1 DEF Doing
  <2>2. PICK b : b = <<step, e>>
    OBVIOUS
  <2>3. \A y, z : b = <<y, z>> => y \in Closing
    <3>1. b[1] = step
      BY <2>2
    <3> QED
      BY <1>1, <3>1
  <2> QED
    BY <2>1, <2>2, <2>3 DEF Apart, At, Closing
<1>4. \A step1, x : At(Input, step1, x)' => step1 \in {"scan", "again", "check"}
  <2>1. IsSeq(todo'[Input]) /\ \A i \in 1..Len(todo'[Input]) :
          todo'[Input][i][1] \in {"scan", "again", "check"}
    BY <1>2, InputIs DEF CallsFit, CallOf, NamesIn
  <2>2. \A y, z : todo'[Input] # <<>> /\ Head(todo'[Input]) = <<y, z>>
                    => y \in {"scan", "again", "check"}
    BY <2>1, HeadNamed
  <2> QED
    BY <2>2 DEF At, Idle
<1>5. Apart'
  BY <1>4 DEF Apart
<1> QED
  BY <1>2, <1>3, <1>4, <1>5

OrdinaryStep ==
  \/ Begin \/ NextEntry \/ TuneFrontend \/ WaitForTables \/ NoLock \/ TablesEntered
  \/ TableReceived \/ NoTables \/ NITEntered \/ NITDone \/ Cancel \/ Cancelled \/ Finish
  \/ Ignored \/ CheckPMTs \/ TimerAgain
  \/ (NextParams /\ Then(Input, Entered))

LEMMA AreOrdinary == ASSUME OrdinaryStep PROVE Ordinary
<1>1. "scan" \in Closing /\ "wait" \in Closing /\ "check" \in Closing /\ "again" \in Closing
      /\ "finish" \in Closing /\ "frontend" \in Closing
  BY DEF Closing
<1>2. ASSUME NEW e, Doing(Input, "scan", e),
             Then(Input, <<>>) \/ Then(Input, Entered) \/ \E x : Then(Input, <<<<"scan", x>>>>)
      PROVE  Ordinary
  BY <1>1, <1>2 DEF Ordinary, Entered
<1>3. CASE Begin \/ NextEntry \/ NoLock \/ TablesEntered \/ NoTables \/ NITEntered \/ NITDone
           \/ Cancel \/ Cancelled \/ (NextParams /\ Then(Input, Entered))
  BY <1>2, <1>3 DEF Begin, NextEntry, NoLock, TablesEntered, NoTables, NITEntered, NITDone,
                    Cancel, Cancelled, NextParams, On, Goto, Stay, Tick
<1>4. CASE TableReceived
  BY <1>2, <1>4 DEF TableReceived, On, Goto, Stay
<1>5. CASE Ignored
  BY <1>2, <1>5 DEF Ignored, On, Stay
<1>6. CASE TuneFrontend
  BY <1>1, <1>6 DEF TuneFrontend, Ordinary
<1>7. CASE WaitForTables
  BY <1>1, <1>7 DEF WaitForTables, Ordinary, Goto, Entered
<1>8. CASE Finish
  BY <1>1, <1>8 DEF Finish, Ordinary
<1>9. CASE TimerAgain
  BY <1>1, <1>9 DEF TimerAgain, Ordinary
<1>10. CASE CheckPMTs
  BY <1>1, <1>10 DEF CheckPMTs, Ordinary
<1> QED
  BY <1>3, <1>4, <1>5, <1>6, <1>7, <1>8, <1>9, <1>10 DEF OrdinaryStep

\* No step of the machine makes a scan of something else.
LEMMA BusyStays ==
  ASSUME ScanKnown, OrdinaryStep, state' \in Busy PROVE state \in Busy \/ Begin
<1>1. CASE Cancel
  <2>1. Doing(Input, "scan", "Cancel")
    BY <1>1 DEF Cancel
  <2>2. state # "Init"
    BY <2>1, NotInit
  <2> QED
    BY <1>1, <2>2 DEF Cancel, Busy, Stay, ScanKnown, StateFits
<1>2. CASE WaitForTables
  <2>1. todo[Input] # <<>> /\ todo[Input][1][1] = "wait" /\ IsSeq(todo[Input])
    BY <1>2, DoingAt, InputIs DEF WaitForTables, ScanKnown, CallsFit, CallOf
  <2>2. 1 \in 1..Len(todo[Input])
    BY <2>1, SeqFacts
  <2>3. state = "NextMux"
    BY <2>1, <2>2 DEF ScanKnown, StateFits, Has
  <2> QED
    BY <2>3 DEF Busy, States
<1>3. CASE NextEntry \/ NoLock \/ TablesEntered \/ TableReceived \/ NoTables \/ NITEntered
           \/ NITDone \/ Cancelled \/ NextParams
  BY <1>3 DEF NextEntry, NoLock, TablesEntered, TableReceived, NoTables, NITEntered, NITDone,
              Cancelled, NextParams, On, Tick, Busy, States
<1>4. CASE TuneFrontend \/ Ignored \/ CheckPMTs \/ TimerAgain \/ Finish
  BY <1>4 DEF TuneFrontend, Ignored, CheckPMTs, TimerAgain, Finish, machine, Stay, Busy
<1> QED
  BY <1>1, <1>2, <1>3, <1>4 DEF OrdinaryStep

LEMMA OrdinaryRestores ==
  ASSUME ScanKnown, OrdinaryStep, Known, OneTunes
  PROVE  Known'
<1>1. CallsFit
  BY DEF ScanKnown
<1>2. /\ todo'[User] = todo[User] /\ Apart /\ Apart'
      /\ ~At(Input, "disable", None)' /\ ~At(Input, "finish", None)'
  BY <1>1, AreOrdinary, OrdinaryGives
<1>3. UNCHANGED <<cached, currentMultiplex, currentService, enabled>>
  BY DEF OrdinaryStep, Begin, NextEntry, TuneFrontend, WaitForTables, NoLock, TablesEntered,
         TableReceived, NoTables, NITEntered, NITDone, Cancel, Cancelled, Finish, Ignored,
         CheckPMTs, TimerAgain, NextParams, Quietly
<1>4. served' = served \/ (Begin /\ served' = (currentService # None))
  BY DEF OrdinaryStep, Begin, NextEntry, TuneFrontend, WaitForTables, NoLock, TablesEntered,
         TableReceived, NoTables, NITEntered, NITDone, Cancel, Cancelled, Finish, Ignored,
         CheckPMTs, TimerAgain, NextParams, history
<1>5. ASSUME served', state' \in Busy PROVE currentService # None
  <2>1. CASE Begin
    BY <1>5, <2>1 DEF Begin
  <2>2. CASE ~Begin
    <3>1. served /\ state \in Busy
      BY <1>4, <1>5, <2>2, BusyStays
    <3> QED
      BY <3>1 DEF Known, Returns
  <2> QED
    BY <2>1, <2>2
<1>6. tunedTo' = tunedTo \/ TuneFrontend
  BY DEF OrdinaryStep, Begin, NextEntry, TuneFrontend, WaitForTables, NoLock, TablesEntered,
         TableReceived, NoTables, NITEntered, NITDone, Cancel, Cancelled, Finish, Ignored,
         CheckPMTs, TimerAgain, NextParams, Quietly
<1>7. ASSUME TuneFrontend PROVE ~Tunes(User) /\ state # "Stopped"
  <2>1. PICK m \in Mux : Doing(Input, "frontend", m)
    BY <1>7 DEF TuneFrontend
  <2>2. At(Input, "frontend", m) /\ todo[Input] # <<>> /\ todo[Input][1][1] = "frontend"
    BY <1>1, <2>1, DoingAt, InputIs
  <2>3. Tunes(Input)
    BY <1>1, <2>2, InputTunes
  <2>4. 1 \in 1..Len(todo[Input])
    BY <1>1, <2>2, SeqFacts, InputIs DEF CallsFit, CallOf
  <2> QED
    BY <2>2, <2>3, <2>4 DEF OneTunes, ScanKnown, StateFits
<1>8. state' = "Stopped" => state = "Stopped" \/ Finish
  BY DEF OrdinaryStep, Begin, NextEntry, TuneFrontend, WaitForTables, NoLock, TablesEntered,
         TableReceived, NoTables, NITEntered, NITDone, Cancel, Cancelled, Ignored,
         CheckPMTs, TimerAgain, NextParams, machine, Goto, Stay, Tick, On
<1>9. Finish => At(Input, "finish", None) /\ tunedTo' = tunedTo
  BY <1>1, DoingAt, InputIs DEF Finish, Quietly
<1>10. ASSUME served', Over' PROVE served /\ Over /\ tunedTo' = tunedTo
  <2>1. state' = "Stopped"
    BY <1>2, <1>10 DEF Over
  <2>2. ~Begin
    BY <2>1 DEF Begin, Goto
  <2> QED
    BY <1>4, <1>6, <1>7, <1>8, <1>9, <1>10, <2>1, <2>2 DEF Over, TuneFrontend, machine
<1> QED
  BY <1>1, <1>2, <1>3, <1>5, <1>6, <1>7, <1>10, QuietRestores

\* The call of the input thread becomes p and what is left of it.
LEMMA HeadBecomes ==
  ASSUME CallsFit, NEW a, NEW p, Takes(Input, a, p), p # <<>>,
         NEW step, NEW e, p[1] = <<step, e>>,
         step \notin {"load", "tune", "announce", "enable"}
  PROVE  /\ todo'[User] = todo[User] /\ Apart'
         /\ \A x, y : At(Input, x, y)' => x = step
<1>1. /\ todo'[User] = todo[User]
      /\ todo'[Input] # <<>> /\ Head(todo'[Input]) = <<step, e>>
  BY Taken, InputIs
<1>2. \A x, y : At(Input, x, y)' => x = step
  <2>1. PICK b : b = <<step, e>>
    OBVIOUS
  <2>2. b[1] = step
    BY <2>1
  <2>3. \A x, y : b = <<x, y>> => x = step
    BY <2>2
  <2> QED
    BY <1>1, <2>1, <2>3 DEF At
<1>3. Apart'
  BY <1>2 DEF Apart
<1> QED
  BY <1>1, <1>2, <1>3

LEMMA ApartNow ==
  ASSUME CallsFit, NEW step \in {"scan", "restore"}, NEW e, Doing(Input, step, e)
  PROVE  Apart /\ todo[Input] # <<>> /\ todo[Input][1][1] = step /\ 1 \in 1..Len(todo[Input])
<1>1. todo[Input] # <<>> /\ todo[Input][1][1] = step
  BY DoingAt, InputIs
<1>2. Apart
  BY <1>1, HeadIs, InputIs DEF Apart
<1>3. 1 \in 1..Len(todo[Input])
  BY <1>1, SeqFacts, InputIs DEF CallsFit, CallOf
<1> QED
  BY <1>1, <1>2, <1>3

LEMMA NextParamsRestores ==
  ASSUME ScanKnown, NextParams, Known, OneTunes
  PROVE  Known'
<1>1. CASE Then(Input, Entered)
  BY <1>1, OrdinaryRestores DEF OrdinaryStep
<1>2. CASE ~Then(Input, Entered)
  <2>1. state = "NextMux" /\ Doing(Input, "scan", "Next") /\ CallsFit
    BY DEF NextParams, On, ScanKnown
  <2>2. PICK m : Then(Input, <<<<"disable", None>>, <<"frontend", m>>>>)
    BY <1>2 DEF NextParams
  <2>3. PICK p : p = <<<<"disable", None>>, <<"frontend", m>>>>
    OBVIOUS
  <2>4. PICK a : a = <<"scan", "Next">>
    OBVIOUS
  <2>5. a[1] = "scan" /\ p # <<>> /\ p[1] = <<"disable", None>>
    BY <2>3, <2>4
  <2>6. Takes(Input, a, p)
    BY <2>1, <2>2, <2>3, <2>4, <2>5, ScanGoesOn, InputIs DEF Takes, Doing
  <2>7. todo'[User] = todo[User] /\ Apart' /\ ~At(Input, "finish", None)'
    BY <2>1, <2>5, <2>6, HeadBecomes
  <2>8. UNCHANGED <<cached, currentMultiplex, currentService, enabled, tunedTo, served, state>>
    BY DEF NextParams, Quietly, history
  <2>9. served' /\ state' \in Busy => currentService # None
    BY <2>8 DEF Known, Returns
  <2>10. ~Over' /\ state' # "Stopping"
    BY <2>1, <2>7, <2>8 DEF Over
  <2> QED
    BY <2>1, <2>7, <2>8, <2>9, <2>10, ApartNow, QuietRestores
<1> QED
  BY <1>1, <1>2

LEMMA LockedOnRestores ==
  ASSUME ScanKnown, LockedOn, Known
  PROVE  Known'
<1>1. state = "NextMux" /\ Doing(Input, "scan", "Locked") /\ CallsFit
  BY DEF LockedOn, On, ScanKnown
<1>2. PICK m : Then(Input, MultiplexSteps(m) \o <<<<"wait", None>>>>)
  BY DEF LockedOn
<1>3. PICK p : p = MultiplexSteps(m) \o <<<<"wait", None>>>>
  OBVIOUS
<1>4. PICK a : a = <<"scan", "Locked">>
  OBVIOUS
<1>5. a[1] = "scan"
  BY <1>4
<1>6. Replaces(Input, p, a) /\ p # <<>> /\ p[1] = <<"disable", None>>
  BY <1>3, <1>5, LockGoesOn
<1>7. Takes(Input, a, p)
  BY <1>1, <1>2, <1>3, <1>4, <1>6, InputIs DEF Takes, Doing
<1>8. todo'[User] = todo[User] /\ Apart' /\ ~At(Input, "finish", None)'
  BY <1>1, <1>6, <1>7, HeadBecomes
<1>9. UNCHANGED <<cached, currentMultiplex, currentService, enabled, tunedTo, served, state>>
  BY DEF LockedOn, machine, history
<1>10. served' /\ state' \in Busy => currentService # None
  BY <1>9 DEF Known, Returns
<1>11. ~Over' /\ state' # "Stopping"
  BY <1>1, <1>8, <1>9 DEF Over
<1> QED
  BY <1>1, <1>8, <1>9, <1>10, <1>11, ApartNow, QuietRestores

LEMMA StopRestores ==
  ASSUME ScanKnown, Stop, Known
  PROVE  Known'
<1>1. state = "Stopping" /\ Doing(Input, "scan", "Entered") /\ CallsFit
  BY DEF Stop, On, ScanKnown
<1>2. PICK p : p = <<<<"restore", None>>, <<"finish", None>>>>
  OBVIOUS
<1>3. PICK a : a = <<"scan", "Entered">>
  OBVIOUS
<1>4. a[1] = "scan" /\ p # <<>> /\ p[1] = <<"restore", None>>
  BY <1>2, <1>3
<1>5. Takes(Input, a, p)
  BY <1>1, <1>2, <1>3, <1>4, ScanGoesOn, InputIs DEF Takes, Doing, Stop
<1>6. /\ todo'[User] = todo[User] /\ Apart' /\ ~At(Input, "finish", None)'
      /\ ~At(Input, "disable", None)'
  BY <1>1, <1>4, <1>5, HeadBecomes
<1>7. UNCHANGED <<cached, currentMultiplex, currentService, enabled, tunedTo, served, state>>
  BY DEF Stop, machine, history
<1>8. served' /\ state' \in Busy => currentService # None
  BY <1>7 DEF Known, Returns
<1>9. ~Over'
  BY <1>1, <1>6, <1>7 DEF Over
<1> QED
  BY <1>1, <1>6, <1>7, <1>8, <1>9, ApartNow, QuietRestores

LEMMA RestoreRestores ==
  ASSUME ScanKnown, Restore, Known
  PROVE  Known'
<1>1. Doing(Input, "restore", None) /\ Then(Input, RetuneSteps) /\ CallsFit
  BY DEF Restore, ScanKnown
<1>2. Apart /\ state = "Stopping"
  BY <1>1, ApartNow DEF ScanKnown, StateFits, Has
<1>3. UNCHANGED <<cached, currentMultiplex, currentService, enabled, tunedTo, served, state>>
  BY DEF Restore, Quietly, machine, history
<1>4. served' /\ state' \in Busy => currentService # None
  BY <1>3 DEF Known, Returns
<1>5. PICK a : a = <<"restore", None>>
  OBVIOUS
<1>6. a[1] = "restore"
  BY <1>5
<1>7. Takes(Input, a, RetuneSteps)
  BY <1>1, <1>5, <1>6, RestoreGoesOn, InputIs DEF Takes, Doing
<1>8. CASE currentService = None
  <2>1. ~served'
    BY <1>2, <1>3, <1>4, <1>8 DEF Busy, States
  <2>2. /\ todo'[User] = todo[User]
        /\ todo'[Input] = <<>> \/ Follows(Input, a, Head(todo'[Input]))
    BY <1>1, <1>7, <1>8, Taken, InputIs DEF RetuneSteps
  <2>3. \A x, y : At(Input, x, y)' => x = "finish"
    <3>1. SUFFICES ASSUME NEW x, NEW y, At(Input, x, y)' PROVE x = "finish"
      OBVIOUS
    <3>2. PICK b : b = <<x, y>>
      OBVIOUS
    <3>3. Follows(Input, a, b) /\ b[1] = x
      BY <2>2, <3>1, <3>2 DEF At, Idle
    <3> QED
      BY <1>6, <3>3, AfterStep
  <2>4. Apart' /\ ~At(Input, "disable", None)'
    BY <2>3 DEF Apart
  <2> QED
    BY <1>1, <1>2, <1>3, <1>4, <2>1, <2>2, <2>4, QuietRestores
<1>9. CASE currentService # None
  <2>1. PICK p : p = <<<<"disable", None>>, <<"retune", None>>>>
    OBVIOUS
  <2>2. p = RetuneSteps
    BY <1>9, <2>1 DEF RetuneSteps
  <2>3. Len(p) = 2 /\ p # <<>> /\ p[1] = <<"disable", None>> /\ p[2] = <<"retune", None>>
    BY <2>1
  <2>4. todo'[User] = todo[User] /\ Apart' /\ ~At(Input, "finish", None)'
    BY <1>1, <1>7, <2>2, <2>3, HeadBecomes
  <2>5. todo'[Input][2] = <<"retune", None>>
    <3>1. 2 \in 1..Len(p)
      BY <2>3
    <3> QED
      BY <1>1, <1>7, <2>2, <2>3, <3>1, Taken
  <2>6. todo'[Input][2][1] # "load"
    <3>1. PICK b : b = <<"retune", None>>
      OBVIOUS
    <3>2. b[1] = "retune"
      BY <3>1
    <3> QED
      BY <2>5, <3>1, <3>2
  <2>7. ~Over'
    BY <1>2, <1>3, <2>4 DEF Over
  <2> QED
    BY <1>1, <1>2, <1>3, <1>4, <2>4, <2>6, <2>7, QuietRestores
<1> QED
  BY <1>8, <1>9

\* What arrives leaves it alone too.
LEMMA EventsRestore ==
  ASSUME ScanKnown, Events, Known
  PROVE  Known'
<1>1. CallsFit /\ UNCHANGED <<cached, currentMultiplex, currentService, enabled, tunedTo, served>>
  BY DEF Events, Watcher, TimerTick, FrontendLocked, PATEvent, PMTEvent, SDTEvent, NITEvent,
         Arrives, Quietly, tuning, history, ScanKnown
<1>2. state' = state \/ state' = "Init"
  BY DEF Events, Watcher, TimerTick, FrontendLocked, PATEvent, PMTEvent, SDTEvent, NITEvent,
         machine
<1>3. todo[Input] = <<>>
  BY DEF Events, Watcher, TimerTick, FrontendLocked, PATEvent, PMTEvent, SDTEvent, NITEvent,
         Arrives, Call, Idle
<1>4. todo'[User] = todo[User]
  BY <1>1, InputIs DEF Events, Watcher, TimerTick, FrontendLocked, PATEvent, PMTEvent, SDTEvent, NITEvent,
         Arrives, Call, tuning, CallsFit
<1>5. Apart
  BY <1>3 DEF Apart, At, Idle
<1>6. \A x, y : At(Input, x, y)' => x \in {"scan", "check"}
  <2>1. ASSUME NEW step \in {"scan", "check"}, NEW e, NEW q, q # <<>>, Head(q) = <<step, e>>,
               Call(Input, q)
        PROVE  \A x, y : At(Input, x, y)' => x \in {"scan", "check"}
    <3>1. todo'[Input] = q
      BY <1>1, <2>1, InputIs DEF Call, CallsFit
    <3>2. PICK b : b = <<step, e>>
      OBVIOUS
    <3>3. \A x, y : b = <<x, y>> => x = step
      <4>1. b[1] = step
        BY <3>2
      <4> QED
        BY <4>1
    <3> QED
      BY <2>1, <3>1, <3>2, <3>3 DEF At
  <2>2. ASSUME NEW step \in {"scan", "check"}, NEW e, Call(Input, <<<<step, e>>>>)
        PROVE  \A x, y : At(Input, x, y)' => x \in {"scan", "check"}
    <3>1. PICK q : q = <<<<step, e>>>>
      OBVIOUS
    <3>2. q # <<>> /\ Head(q) = <<step, e>>
      BY <3>1
    <3> QED
      BY <2>1, <2>2, <3>1, <3>2
  <2>3. ASSUME NEW e, NEW c, Call(Input, <<<<"scan", e>>, c>>)
        PROVE  \A x, y : At(Input, x, y)' => x \in {"scan", "check"}
    <3>1. PICK q : q = <<<<"scan", e>>, c>>
      OBVIOUS
    <3>2. q # <<>> /\ Head(q) = <<"scan", e>>
      BY <3>1
    <3> QED
      BY <2>1, <2>3, <3>1, <3>2
  <2>4. CASE NITEvent
    <3>1. todo'[Input] = <<>>
      BY <1>3, <2>4 DEF NITEvent, tuning
    <3> QED
      BY <3>1 DEF At, Idle
  <2>5. CASE TimerTick
    BY <2>3, <2>5 DEF TimerTick, Arrives
  <2>6. CASE PATEvent
    BY <2>3, <2>6 DEF PATEvent, Arrives
  <2>7. CASE FrontendLocked
    BY <2>2, <2>7 DEF FrontendLocked, Arrives
  <2>8. CASE PMTEvent
    BY <2>2, <2>8 DEF PMTEvent, Arrives
  <2>9. CASE SDTEvent
    BY <2>2, <2>9 DEF SDTEvent, Arrives
  <2>10. CASE Watcher
    BY <2>2, <2>10 DEF Watcher, Arrives, Entered
  <2> QED
    BY <2>4, <2>5, <2>6, <2>7, <2>8, <2>9, <2>10 DEF Events
<1>7. Apart' /\ ~At(Input, "disable", None)' /\ ~At(Input, "finish", None)'
  BY <1>6 DEF Apart
<1>8. served' /\ state' \in Busy => currentService # None
  BY <1>1, <1>2 DEF Known, Returns, Busy
<1>9. served' /\ Over' => served /\ Over /\ tunedTo' = tunedTo
  BY <1>1, <1>2, <1>7 DEF Over
<1> QED
  BY <1>1, <1>4, <1>5, <1>7, <1>8, <1>9, QuietRestores

-----------------------------------------------------------------------------
(* The user's thread. *)

\* It does not tune yet, and no tuning is at its end.
LEMMA UserBegins ==
  ASSUME Known, CallsFit, ~Tunes(User), todo'[Input] = todo[Input],
         UNCHANGED <<cached, currentMultiplex, currentService, enabled, tunedTo, served, state>>,
         \A x : ~At(User, "tune", x)' /\ ~At(User, "announce", x)' /\ ~At(User, "current", x)'
  PROVE  Known'
<1>1. \A step, x : At(Input, step, x)' <=> At(Input, step, x)
  BY DEF At, Idle
<1>2. \A x : ~At(User, "tune", x) /\ ~At(User, "announce", x) /\ ~At(User, "current", x)
  BY UserAway DEF UserTuning, UserSteps
<1>3. CacheFollows'
  BY <1>1, <1>2 DEF Known, CacheFollows, Thread
<1>4. Returns'
  BY <1>1 DEF Known, Returns
<1>5. Returned'
  BY <1>1, <1>2 DEF Known, Returned, Over
<1> QED
  BY <1>3, <1>4, <1>5 DEF Known

LEMMA CallerIdle ==
  ASSUME CallsFit, Idle(User) PROVE ~Tunes(User)
BY UserTunes DEF Idle

LEMMA CallRestores ==
  ASSUME Known, CallsFit, NEW step, step \notin {"tune", "announce", "current"}, NEW e, NEW c,
         Call(User, <<<<step, e>>, c>>),
         UNCHANGED <<cached, currentMultiplex, currentService, enabled, tunedTo, served, state>>
  PROVE  Known'
<1>1. PICK q : q = <<<<step, e>>, c>>
  OBVIOUS
<1>2. Head(q) = <<step, e>> /\ todo'[User] = q /\ todo'[Input] = todo[Input]
  BY <1>1, InputIs DEF Call, CallsFit
<1>3. \A x, y : At(User, x, y)' => x = step
  <2>1. PICK b : b = <<step, e>>
    OBVIOUS
  <2>2. b[1] = step
    BY <2>1
  <2> QED
    BY <1>2, <2>1, <2>2 DEF At
<1>4. ~Tunes(User)
  BY CallerIdle DEF Call
<1> QED
  BY <1>2, <1>3, <1>4, UserBegins

LEMMA UserRestores ==
  ASSUME ScanKnown, Command \/ FillList \/ Start, Known
  PROVE  Known'
<1>1. CallsFit
  BY DEF ScanKnown
<1>2. UNCHANGED <<cached, currentMultiplex, currentService, enabled, tunedTo, served, state>>
  BY DEF Command, Scan, CancelScan, Select, SetCurrentService, FillList, Start, tuning, machine,
         history
<1>3. CASE Scan
  <2>1. PICK kind, m : Call(User, <<<<"list", <<kind, m>>>>, <<"start", kind = "net">>>>)
    BY <1>3 DEF Scan
  <2> QED
    BY <1>1, <1>2, <2>1, CallRestores
<1>4. CASE Select
  <2>1. PICK s : Call(User, <<<<"disable", None>>, <<"find", s>>>>)
    BY <1>4 DEF Select, SetCurrentService
  <2> QED
    BY <1>1, <1>2, <2>1, CallRestores
<1>5. CASE CancelScan
  <2>1. todo' = todo /\ todo[User] = <<>>
    BY <1>5 DEF CancelScan, tuning, Idle
  <2>2. \A x, y : ~At(User, x, y)'
    BY <2>1 DEF At, Idle
  <2> QED
    BY <1>1, <1>2, <2>1, <2>2, CallerIdle, UserBegins DEF Idle
<1>6. CASE FillList \/ Start
  <2>1. PICK step, e : step \in {"list", "start"} /\ Doing(User, step, e) /\ Then(User, <<>>)
    BY <1>6 DEF FillList, Start
  <2>2. PICK a : a = <<step, e>>
    OBVIOUS
  <2>3. a[1] = step
    BY <2>2
  <2>4. Takes(User, a, <<>>)
    BY <2>1, <2>2, Nothing, InputIs DEF Takes, Doing
  <2>5. todo'[Input] = todo[Input]
        /\ (todo'[User] = <<>> \/ Follows(User, a, Head(todo'[User])))
    BY <1>1, <2>4, Taken, InputIs
  <2>6. \A x, y : At(User, x, y)' => x = "start"
    <3>1. SUFFICES ASSUME NEW x, NEW y, At(User, x, y)' PROVE x = "start"
      OBVIOUS
    <3>2. PICK b : b = <<x, y>>
      OBVIOUS
    <3>3. Follows(User, a, b) /\ b[1] = x
      BY <2>5, <3>1, <3>2 DEF At, Idle
    <3> QED
      BY <2>1, <2>3, <3>3, AfterStep
  <2>7. ~Tunes(User)
    <3>1. todo[User][1][1] = step
      BY <1>1, <2>1, DoingAt, InputIs
    <3> QED
      BY <1>1, <2>1, <3>1, UserTunes
  <2> QED
    BY <1>1, <1>2, <2>5, <2>6, <2>7, UserBegins
<1> QED
  BY <1>3, <1>4, <1>5, <1>6 DEF Command

\* The next step of a thread, when a step is taken off its call.
LEMMA NextHead ==
  ASSUME CallsFit, NEW t \in Thread, NEW step, NEW e, Doing(t, step, e), Then(t, <<>>)
  PROVE  /\ \A u \in Thread \ {t} : todo'[u] = todo[u]
         /\ \E a : /\ a = <<step, e>> /\ a[1] = step /\ a[2] = e
                   /\ todo'[t] = <<>> \/ Follows(t, a, Head(todo'[t]))
         /\ At(t, step, e)
<1>1. PICK a : a = <<step, e>>
  OBVIOUS
<1>2. a[1] = step /\ a[2] = e
  BY <1>1
<1>3. Takes(t, a, <<>>)
  BY <1>1, Nothing DEF Takes, Doing
<1>4. /\ \A u \in Thread \ {t} : todo'[u] = todo[u]
      /\ todo'[t] = <<>> \/ Follows(t, a, Head(todo'[t]))
  BY <1>3, Taken
<1> QED
  BY <1>1, <1>2, <1>4, DoingAt

\* What is current, cached and tuned, as the next step of the user's thread
\* needs it.
UserFollows ==
  /\ \A m : At(User, "tune", m) => cached = m
  /\ (\A m : ~At(User, "tune", m)) => cached = currentMultiplex
  /\ \A m : At(User, "announce", m) => currentMultiplex = m /\ tunedTo = m
  /\ \A s : At(User, "current", s) => s \in Service /\ currentMultiplex = MuxOf[s]

UserReturns ==
  /\ tunedTo = currentMultiplex
  /\ currentService # None =>
       /\ (\A m : ~At(User, "announce", m) /\ ~At(User, "current", m))
            => MuxOf[currentService] = tunedTo
       /\ ~Tunes(User) => enabled

LEMMA UserNow ==
  ASSUME Known, CallsFit, ~Tunes(Input)
  PROVE  /\ UserFollows /\ (served /\ Over => UserReturns)
         /\ currentService \in Service \cup {None}
<1>1. \A m : ~At(Input, "tune", m)
  BY InputAway DEF InputTuning
<1> QED
  BY <1>1, InputIs DEF Known, CacheFollows, Returns, Returned, UserFollows, UserReturns, Thread

LEMMA UserMoves ==
  ASSUME Known, CallsFit, ~Tunes(Input), todo'[Input] = todo[Input],
         UNCHANGED <<state, served>>,
         currentService' = currentService \/ currentService' \in Service,
         UserFollows', served /\ Over => UserReturns'
  PROVE  Known'
<1>1. \A step, x : At(Input, step, x)' <=> At(Input, step, x)
  BY DEF At, Idle
<1>2. \A step \in InputTuning : \A x : ~At(Input, step, x)
  BY InputAway
<1>3. CacheFollows'
  BY <1>1, <1>2 DEF CacheFollows, UserFollows, InputTuning, Thread
<1>4. Returns'
  BY <1>1, <1>2, TuningAssumption DEF Known, Returns, InputTuning
<1>5. Returned'
  BY <1>1 DEF Returned, UserReturns, Over
<1> QED
  BY <1>3, <1>4, <1>5 DEF Known

LEMMA UserTunesIff ==
  CallsFit => (Tunes(User) <=> /\ todo[User] # <<>>
                               /\ todo[User][1][1] \in UserSteps \ {"list", "start"})
BY UserTunes

LEMMA UserTunesNext ==
  CallsFit' => (Tunes(User)' <=> /\ todo'[User] # <<>>
                                 /\ todo'[User][1][1] \in UserSteps \ {"list", "start"})
<1>1. (CallsFit => (Tunes(User) <=> /\ todo[User] # <<>>
                               /\ todo[User][1][1] \in UserSteps \ {"list", "start"}))'
  BY UserTunesIff, PTL
<1> QED
  BY <1>1

\* What the user's thread does after a step of a tuning.
LEMMA UserHeads ==
  ASSUME CallsFit, NEW step, NEW e, Doing(User, step, e), Then(User, <<>>)
  PROVE  /\ todo'[Input] = todo[Input] /\ At(User, step, e)
         /\ \A x, y : At(User, x, y)' =>
              /\ step = "disable" => x \notin {"tune", "announce", "current"}
              /\ step = "load" => x = "tune" /\ y = e
              /\ step = "tune" => x = "announce" /\ y = e
              /\ step = "announce" => x = "current" /\ y \in Service /\ MuxOf[y] = e
              /\ step = "current" => x = "follow"
              /\ step = "follow" => x = "enable"
              /\ step # "enable"
         /\ step \in UserTuning \ {"find", "enable"} => Tunes(User)'
<1>1. todo'[Input] = todo[Input] /\ At(User, step, e)
  BY NextHead, InputIs
<1>2. PICK a : /\ a = <<step, e>> /\ a[1] = step /\ a[2] = e
               /\ todo'[User] = <<>> \/ Follows(User, a, Head(todo'[User]))
  BY NextHead, InputIs
<1>3. ASSUME NEW x, NEW y, At(User, x, y)'
      PROVE  /\ step = "disable" => x \in {"find", "retune", "load", "frontend"}
             /\ step = "load" => x = "tune" /\ y = e
             /\ step = "tune" => x = "announce" /\ y = e
             /\ step = "announce" => x = "current" /\ y \in Service /\ MuxOf[y] = e
             /\ step = "current" => x = "follow"
             /\ step = "follow" => x = "enable"
             /\ step # "enable"
  <2>1. PICK b : b = <<x, y>>
    OBVIOUS
  <2>2. b[1] = x /\ b[2] = y
    BY <2>1
  <2>3. Follows(User, a, b)
    BY <1>2, <1>3, <2>1 DEF At, Idle
  <2>4. ASSUME NEW s, b = <<"current", s>> PROVE x = "current" /\ y = s
    BY <2>1, <2>4
  <2>5. ASSUME NEW n, NEW m, b = <<n, m>> PROVE x = n /\ y = m
    BY <2>1, <2>5
  <2>6. step = "disable" => x \in {"find", "retune", "load", "frontend"}
    BY <1>2, <2>2, <2>3 DEF Follows
  <2>7. step = "load" => b = <<"tune", e>>
    BY <1>2, <2>3 DEF Follows
  <2>8. step = "tune" => b = <<"announce", e>>
    BY <1>2, <2>3 DEF Follows
  <2>9. step = "announce" => \E s \in Service : b = <<"current", s>> /\ MuxOf[s] = e
    BY <1>2, <2>3, InputIs DEF Follows
  <2>10. step = "current" => x = "follow"
    BY <1>2, <2>2, <2>3, AfterStep
  <2>11. step = "follow" => x = "enable"
    BY <1>2, <2>2, <2>3, AfterStep
  <2>12. step # "enable"
    BY <1>2, <2>3, AfterStep, InputIs
  <2> QED
    BY <2>4, <2>5, <2>6, <2>7, <2>8, <2>9, <2>10, <2>11, <2>12
<1>4. ASSUME step \in UserTuning \ {"find", "enable"} PROVE Tunes(User)'
  <2>1. PICK q : q = todo[User]
    OBVIOUS
  <2>2. CallOf(User, q) /\ IsSeq(q) /\ q # <<>> /\ q[1] = a
    BY <1>2, <2>1, DoingAt, InputIs DEF CallsFit, CallOf
  <2>3. Len(q) \in Nat /\ 1 \in 1..Len(q) /\ IsSeq(Tail(q)) /\ Len(Tail(q)) = Len(q) - 1
    BY <2>2, SeqFacts
  <2>4. 1 # Len(q)
    BY <1>2, <1>4, <2>2, <2>3, InCall, LastStep DEF UserTuning, UserSteps
  <2>5. <<>> \o Tail(q) = Tail(q)
    BY <2>3, ConcatEmptySeq DEF IsSeq
  <2>6. todo'[User] = Tail(q)
    BY <2>1, <2>5, InputIs DEF Then, CallsFit
  <2>7. todo'[User] # <<>>
    <3>1. Len(Tail(q)) # 0
      BY <2>3, <2>4
    <3> QED
      BY <2>3, <2>6, <3>1, SeqFacts
  <2>8. CallsFit'
    <3>1. Takes(User, a, <<>>)
      BY <1>2, Nothing, InputIs DEF Takes, Doing
    <3> QED
      BY <3>1, Taken
  <2>9. IsSeq(todo'[User]) /\ CallOf(User, todo'[User])
    BY <2>8, InputIs DEF CallsFit, CallOf
  <2>10. PICK b : b = Head(todo'[User])
    OBVIOUS
  <2>11. b = todo'[User][1] /\ 1 \in 1..Len(todo'[User])
    BY <2>7, <2>9, <2>10, SeqFacts
  <2>12. b[1] \in UserSteps
    BY <2>9, <2>11, InCall DEF StepsOf
  <2>13. Follows(User, a, b)
    BY <1>2, <2>7, <2>10
  <2>14. b[1] # "start"
    <3>1. ASSUME NEW n, NEW m, b = <<n, m>> PROVE b[1] = n
      BY <3>1
    <3>2. step = "load" => b = <<"tune", e>>
      BY <1>2, <2>13 DEF Follows
    <3>3. step = "tune" => b = <<"announce", e>>
      BY <1>2, <2>13 DEF Follows
    <3>4. step = "announce" => \E s \in Service : b = <<"current", s>>
      BY <1>2, <2>13, InputIs DEF Follows
    <3>5. step = "disable" => b[1] \in {"find", "retune", "load", "frontend"}
      BY <1>2, <2>13 DEF Follows
    <3>6. step \in {"current", "follow"} => b[1] \in {"follow", "enable"}
      BY <1>2, <2>13, AfterStep
    <3> QED
      BY <1>4, <3>1, <3>2, <3>3, <3>4, <3>5, <3>6 DEF UserTuning, UserSteps
  <2>15. b[1] # "list"
    BY <2>13, AfterStep
  <2> QED
    BY <2>7, <2>8, <2>11, <2>12, <2>14, <2>15, UserTunesNext
<1> QED
  BY <1>1, <1>3, <1>4

LEMMA UserAt ==
  ASSUME CallsFit, OneTunes, NEW step \in UserTuning, NEW e, Doing(User, step, e)
  PROVE  Tunes(User) /\ ~Tunes(Input) /\ \A x, y : At(User, x, y) => x = step /\ y = e
<1>1. At(User, step, e)
  BY DoingAt, InputIs
<1>2. Tunes(User)
  BY <1>1, UserAway
<1>3. PICK b : b = <<step, e>>
  OBVIOUS
<1>4. b[1] = step /\ b[2] = e
  BY <1>3
<1>5. \A x, y : b = <<x, y>> => x = step /\ y = e
  BY <1>4
<1> QED
  BY <1>1, <1>2, <1>3, <1>5 DEF OneTunes, At

LEMMA NextTune ==
  ASSUME CallsFit, NEW step, NEW e, Doing(User, step, e), Then(User, <<>>)
  PROVE  /\ step = "load" => At(User, "tune", e)'
         /\ step = "tune" => At(User, "announce", e)'
         /\ step = "announce" => \E s : At(User, "current", s)'
<1>1. step \in {"load", "tune", "announce"} => Tunes(User)'
  BY UserHeads DEF UserTuning, UserSteps
<1>2. PICK a : /\ a = <<step, e>> /\ a[1] = step /\ a[2] = e
               /\ todo'[User] = <<>> \/ Follows(User, a, Head(todo'[User]))
  BY NextHead, InputIs
<1>3. CallsFit'
  <2>1. Takes(User, a, <<>>)
    BY <1>2, Nothing, InputIs DEF Takes, Doing
  <2> QED
    BY <2>1, Taken
<1>4. step \in {"load", "tune", "announce"} => todo'[User] # <<>>
  BY <1>1, <1>3, UserTunesNext
<1>5. step = "load" => At(User, "tune", e)'
  BY <1>2, <1>4 DEF Follows, At, Idle
<1>6. step = "tune" => At(User, "announce", e)'
  BY <1>2, <1>4 DEF Follows, At, Idle
<1>7. step = "announce" => \E s : At(User, "current", s)'
  BY <1>2, <1>4, InputIs DEF Follows, At, Idle
<1> QED
  BY <1>5, <1>6, <1>7

LEMMA UserTuneRestores ==
  ASSUME ScanKnown, TuningStep(User) \/ Follow(User),
         UNCHANGED <<list, machine, async, history>>, ~crashed', Known, OneTunes
  PROVE  Known'
<1>1. CallsFit /\ UNCHANGED <<state, served>>
  BY DEF ScanKnown, machine, history
<1>2. CASE Follow(User)
  <2>1. Doing(User, "follow", None) /\ Then(User, <<>>)
    BY <1>2 DEF Follow
  <2>2. ~Tunes(Input) /\ \A x, y : At(User, x, y) => x = "follow"
    BY <1>1, <2>1, UserAt DEF UserTuning, UserSteps
  <2>3. todo'[Input] = todo[Input] /\ Tunes(User)' /\ \A x, y : At(User, x, y)' => x = "enable"
    BY <1>1, <2>1, UserHeads DEF UserTuning, UserSteps
  <2>4. UserFollows /\ (served /\ Over => UserReturns)
    BY <1>1, <2>2, UserNow
  <2>5. UNCHANGED <<cached, currentMultiplex, currentService, enabled, tunedTo>>
    BY <1>2 DEF Follow, Quietly
  <2>6. UserFollows'
    BY <2>2, <2>3, <2>4, <2>5 DEF UserFollows
  <2>7. served /\ Over => UserReturns'
    BY <2>2, <2>3, <2>4, <2>5 DEF UserReturns
  <2> QED
    BY <1>1, <2>2, <2>3, <2>5, <2>6, <2>7, UserMoves
<1>3. CASE Enable(User)
  <2>1. PICK on \in BOOLEAN :
          /\ Doing(User, IF on THEN "enable" ELSE "disable", None) /\ Then(User, <<>>)
          /\ enabled' = on
    BY <1>3 DEF Enable
  <2>2. UNCHANGED <<cached, currentMultiplex, currentService, tunedTo>>
    BY <1>3 DEF Enable
  <2>3. CASE on
    <3>1. Doing(User, "enable", None) /\ enabled'
      BY <2>1, <2>3
    <3>2. ~Tunes(Input) /\ \A x, y : At(User, x, y) => x = "enable"
      BY <1>1, <3>1, UserAt DEF UserTuning, UserSteps
    <3>3. todo'[Input] = todo[Input] /\ \A x, y : ~At(User, x, y)'
      BY <1>1, <2>1, <3>1, UserHeads
    <3>4. UserFollows /\ (served /\ Over => UserReturns)
      BY <1>1, <3>2, UserNow
    <3>5. UserFollows'
      BY <2>2, <3>2, <3>3, <3>4 DEF UserFollows
    <3>6. served /\ Over => UserReturns'
      BY <2>2, <3>1, <3>2, <3>3, <3>4 DEF UserReturns
    <3> QED
      BY <1>1, <2>2, <3>2, <3>3, <3>5, <3>6, UserMoves
  <2>4. CASE ~on
    <3>1. Doing(User, "disable", None)
      BY <2>1, <2>4
    <3>2. ~Tunes(Input) /\ \A x, y : At(User, x, y) => x = "disable"
      BY <1>1, <3>1, UserAt DEF UserTuning, UserSteps
    <3>3. /\ todo'[Input] = todo[Input] /\ Tunes(User)'
          /\ \A x, y : At(User, x, y)' => x \notin {"tune", "announce", "current"}
      BY <1>1, <2>1, <3>1, UserHeads DEF UserTuning, UserSteps
    <3>4. UserFollows /\ (served /\ Over => UserReturns)
      BY <1>1, <3>2, UserNow
    <3>5. UserFollows'
      BY <2>2, <3>2, <3>3, <3>4 DEF UserFollows
    <3>6. served /\ Over => UserReturns'
      BY <2>2, <3>2, <3>3, <3>4 DEF UserReturns
    <3> QED
      BY <1>1, <2>2, <3>2, <3>3, <3>5, <3>6, UserMoves
  <2> QED
    BY <2>3, <2>4
<1>4. CASE LoadCache(User)
  <2>1. PICK m \in Mux : Doing(User, "load", m) /\ Then(User, <<>>) /\ cached' = m
    BY <1>4 DEF LoadCache
  <2>2. ~Tunes(Input) /\ \A x, y : At(User, x, y) => x = "load"
    BY <1>1, <2>1, UserAt DEF UserTuning, UserSteps
  <2>3. /\ todo'[Input] = todo[Input] /\ Tunes(User)'
        /\ \A x, y : At(User, x, y)' => x = "tune" /\ y = m
    BY <1>1, <2>1, UserHeads DEF UserTuning, UserSteps
  <2>4. UserFollows /\ (served /\ Over => UserReturns)
    BY <1>1, <2>2, UserNow
  <2>5. UNCHANGED <<currentMultiplex, currentService, enabled, tunedTo>>
    BY <1>4 DEF LoadCache
  <2>6. \E x : At(User, "tune", x)'
    BY <1>1, <2>1, NextTune
  <2>7. UserFollows'
    BY <2>1, <2>3, <2>6 DEF UserFollows
  <2>8. served /\ Over => UserReturns'
    BY <2>2, <2>3, <2>4, <2>5 DEF UserReturns
  <2> QED
    BY <1>1, <2>2, <2>3, <2>5, <2>7, <2>8, UserMoves
<1>5. CASE TuneMultiplex(User)
  <2>1. PICK m \in Mux : /\ Doing(User, "tune", m) /\ Then(User, <<>>)
                         /\ currentMultiplex' = m /\ tunedTo' = m
    BY <1>5 DEF TuneMultiplex
  <2>2. ~Tunes(Input) /\ At(User, "tune", m)
    BY <1>1, <2>1, UserAt, UserHeads DEF UserTuning, UserSteps
  <2>3. /\ todo'[Input] = todo[Input] /\ Tunes(User)'
        /\ \A x, y : At(User, x, y)' => x = "announce" /\ y = m
    BY <1>1, <2>1, UserHeads DEF UserTuning, UserSteps
  <2>4. UserFollows /\ cached = m
    BY <1>1, <2>2, UserNow DEF UserFollows
  <2>5. UNCHANGED <<currentService, enabled, cached>>
    BY <1>5 DEF TuneMultiplex
  <2>6. \E x : At(User, "announce", x)'
    BY <1>1, <2>1, NextTune
  <2>7. UserFollows'
    BY <2>1, <2>3, <2>4, <2>5 DEF UserFollows
  <2>8. UserReturns'
    BY <2>1, <2>3, <2>6 DEF UserReturns
  <2> QED
    BY <1>1, <2>2, <2>3, <2>5, <2>7, <2>8, UserMoves
<1>6. CASE Announce(User)
  <2>1. PICK m \in Mux : Doing(User, "announce", m) /\ Then(User, <<>>)
    BY <1>6 DEF Announce
  <2>2. ~Tunes(Input) /\ At(User, "announce", m) /\ \A x, y : At(User, x, y) => x = "announce"
    BY <1>1, <2>1, UserAt, UserHeads DEF UserTuning, UserSteps
  <2>3. /\ todo'[Input] = todo[Input] /\ Tunes(User)'
        /\ \A x, y : At(User, x, y)' => x = "current" /\ y \in Service /\ MuxOf[y] = m
    BY <1>1, <2>1, UserHeads DEF UserTuning, UserSteps
  <2>4. UserFollows /\ (served /\ Over => UserReturns)
    BY <1>1, <2>2, UserNow
  <2>5. UNCHANGED <<currentMultiplex, currentService, enabled, cached, tunedTo>>
    BY <1>6 DEF Announce
  <2>6. currentMultiplex = m /\ tunedTo = m /\ cached = currentMultiplex
    BY <2>2, <2>4 DEF UserFollows
  <2>7. \E x : At(User, "current", x)'
    BY <1>1, <2>1, NextTune
  <2>8. UserFollows'
    BY <2>3, <2>5, <2>6 DEF UserFollows
  <2>9. UserReturns'
    BY <2>3, <2>5, <2>6, <2>7 DEF UserReturns
  <2> QED
    BY <1>1, <2>2, <2>3, <2>5, <2>8, <2>9, UserMoves
<1>7. CASE SetCurrent(User)
  <2>1. PICK s \in Service : /\ Doing(User, "current", s) /\ Then(User, <<>>)
                             /\ currentService' = IF cached = MuxOf[s] THEN s ELSE None
    BY <1>7 DEF SetCurrent
  <2>2. ~Tunes(Input) /\ At(User, "current", s) /\ \A x, y : At(User, x, y) => x = "current"
    BY <1>1, <2>1, UserAt, UserHeads DEF UserTuning, UserSteps
  <2>3. /\ todo'[Input] = todo[Input] /\ Tunes(User)'
        /\ \A x, y : At(User, x, y)' => x = "follow"
    BY <1>1, <2>1, UserHeads DEF UserTuning, UserSteps
  <2>4. UserFollows /\ (served /\ Over => UserReturns)
    BY <1>1, <2>2, UserNow
  <2>5. UNCHANGED <<currentMultiplex, enabled, cached, tunedTo>>
    BY <1>7 DEF SetCurrent
  <2>6. currentMultiplex = MuxOf[s] /\ cached = currentMultiplex
    BY <2>2, <2>4 DEF UserFollows
  <2>7. currentService' = s
    BY <2>1, <2>6
  <2>8. UserFollows'
    BY <2>3, <2>5, <2>6 DEF UserFollows
  <2>9. served /\ Over => UserReturns'
    BY <2>3, <2>4, <2>5, <2>6, <2>7 DEF UserReturns
  <2> QED
    BY <1>1, <2>2, <2>3, <2>7, <2>8, <2>9, UserMoves
<1>8. CASE RetuneMultiplex(User)
  <2>1. Doing(User, "retune", None)
    BY <1>8 DEF RetuneMultiplex
  <2>2. todo[User][1][1] = "retune" /\ todo[User] # <<>> /\ CallOf(User, todo[User])
    BY <1>1, <2>1, DoingAt, InputIs DEF CallsFit
  <2>3. 1 \in 1..Len(todo[User])
    BY <2>2, SeqFacts DEF CallOf
  <2> QED
    BY <2>2, <2>3, InCall DEF StepsOf, UserSteps
<1>9. CASE FindMultiplex(User)
  <2>1. PICK s \in Service :
          /\ Doing(User, "find", s)
          /\ \/ Crash(User)
             \/ /\ Then(User, (IF currentMultiplex = MuxOf[s] THEN <<>> ELSE TuneSteps(MuxOf[s]))
                       \o <<<<"current", s>>, <<"follow", None>>, <<"enable", None>>>>)
                /\ UNCHANGED <<cached, currentMultiplex, currentService, enabled, tunedTo>>
    BY <1>9 DEF FindMultiplex
  <2>2. ~Crash(User)
    BY DEF Crash
  <2>3. PICK tunes \in BOOLEAN : tunes <=> currentMultiplex # MuxOf[s]
    OBVIOUS
  <2>4. PICK p : p = (IF tunes THEN TuneSteps(MuxOf[s]) ELSE <<>>)
                       \o <<<<"current", s>>, <<"follow", None>>, <<"enable", None>>>>
    OBVIOUS
  <2>5. PICK a : a = <<"find", s>>
    OBVIOUS
  <2>6. a[1] = "find"
    BY <2>5
  <2>7. /\ Replaces(User, p, a) /\ p # <<>>
        /\ p[1] = IF tunes THEN <<"load", MuxOf[s]>> ELSE <<"current", s>>
    BY <2>4, <2>6, FindGoesOn
  <2>8. Then(User, p) /\ UNCHANGED <<cached, currentMultiplex, currentService, enabled, tunedTo>>
    BY <2>1, <2>2, <2>3, <2>4
  <2>9. Takes(User, a, p)
    BY <2>1, <2>5, <2>7, <2>8, InputIs DEF Takes, Doing
  <2>10. /\ CallsFit' /\ todo'[Input] = todo[Input] /\ todo'[User] # <<>>
         /\ Head(todo'[User]) = p[1]
    BY <1>1, <2>7, <2>9, Taken, InputIs
  <2>11. ~Tunes(Input) /\ \A x, y : At(User, x, y) => x = "find"
    BY <1>1, <2>1, UserAt DEF UserTuning, UserSteps
  <2>12. UserFollows /\ (served /\ Over => UserReturns)
    BY <1>1, <2>11, UserNow
  <2>13. \A x, y : At(User, x, y)' => IF tunes THEN x = "load" ELSE x = "current" /\ y = s
    <3>1. PICK b : b = IF tunes THEN <<"load", MuxOf[s]>> ELSE <<"current", s>>
      OBVIOUS
    <3>2. \A x, y : b = <<x, y>> => IF tunes THEN x = "load" ELSE x = "current" /\ y = s
      BY <3>1
    <3> QED
      BY <2>7, <2>10, <3>1, <3>2 DEF At
  <2>14. Tunes(User)'
    <3>1. PICK b : b = IF tunes THEN <<"load", MuxOf[s]>> ELSE <<"current", s>>
      OBVIOUS
    <3>2. b[1] \in {"load", "current"}
      BY <3>1
    <3>3. todo'[User][1] = b
      BY <2>7, <2>10, <3>1, SeqFacts, InputIs DEF CallsFit, CallOf
    <3> QED
      BY <2>10, <3>2, <3>3, UserTunesNext DEF UserSteps
  <2>15. UserFollows'
    BY <2>3, <2>8, <2>11, <2>12, <2>13 DEF UserFollows
  <2>16. served /\ Over => UserReturns'
    BY <2>8, <2>11, <2>12, <2>13, <2>14 DEF UserReturns
  <2> QED
    BY <1>1, <2>8, <2>10, <2>11, <2>15, <2>16, UserMoves
<1> QED
  BY <1>2, <1>3, <1>4, <1>5, <1>6, <1>7, <1>8, <1>9 DEF TuningStep

-----------------------------------------------------------------------------
(* The input thread. *)

InputFollows ==
  /\ \A m : At(Input, "tune", m) => cached = m
  /\ (\A m : ~At(Input, "tune", m)) => cached = currentMultiplex
  /\ \A m : At(Input, "announce", m) => currentMultiplex = m /\ tunedTo = m

LEMMA InputNow ==
  ASSUME Known, CallsFit, ~Tunes(User)
  PROVE  InputFollows
<1>1. \A m : ~At(User, "tune", m)
  BY UserAway DEF UserTuning, UserSteps
<1> QED
  BY <1>1, InputIs DEF Known, CacheFollows, InputFollows, Thread

LEMMA InputMoves ==
  ASSUME Known, CallsFit, ~Tunes(User), todo'[User] = todo[User],
         InputFollows', Returns',
         served' /\ Over' =>
           /\ tunedTo' = currentMultiplex'
           /\ currentService' # None => MuxOf[currentService'] = tunedTo' /\ enabled'
  PROVE  Known'
<1>1. \A step, x : At(User, step, x)' <=> At(User, step, x)
  BY DEF At, Idle
<1>2. \A x : ~At(User, "tune", x) /\ ~At(User, "announce", x) /\ ~At(User, "current", x)
  BY UserAway DEF UserTuning, UserSteps
<1>3. CacheFollows'
  BY <1>1, <1>2 DEF CacheFollows, InputFollows, Thread
<1>4. Returned'
  BY DEF Returned
<1> QED
  BY <1>3, <1>4 DEF Known

LEMMA InputAt ==
  ASSUME ScanKnown, OneTunes, NEW step \in InputTuning, NEW e, Doing(Input, step, e)
  PROVE  /\ ~Tunes(User) /\ At(Input, step, e) /\ \A x, y : At(Input, x, y) => x = step /\ y = e
         /\ state # "Stopped"
<1>1. CallsFit
  BY DEF ScanKnown
<1>2. At(Input, step, e)
  BY <1>1, DoingAt, InputIs
<1>3. Tunes(Input)
  BY <1>1, <1>2, InputAway
<1>4. PICK b : b = <<step, e>>
  OBVIOUS
<1>5. b[1] = step /\ b[2] = e
  BY <1>4
<1>6. \A x, y : b = <<x, y>> => x = step /\ y = e
  BY <1>5
<1>7. state # "Stopped"
  <2>1. todo[Input] # <<>> /\ todo[Input][1][1] = step
    BY <1>1, <1>2, HeadIs, InputIs
  <2>2. 1 \in 1..Len(todo[Input])
    BY <1>1, <2>1, SeqFacts, InputIs DEF CallsFit, CallOf
  <2> QED
    BY <2>1, <2>2 DEF ScanKnown, StateFits, InputTuning
<1> QED
  BY <1>2, <1>3, <1>4, <1>6, <1>7 DEF OneTunes, At

LEMMA NextIs ==
  ASSUME CallsFit, NEW t \in Thread, ~Idle(t), Then(t, <<>>), todo'[t] # <<>>
  PROVE  Head(todo'[t]) = todo[t][2]
<1>1. PICK q : q = todo[t]
  OBVIOUS
<1>2. IsSeq(q) /\ q # <<>>
  BY <1>1 DEF CallsFit, CallOf, Idle
<1>3. /\ Len(q) \in Nat /\ IsSeq(Tail(q)) /\ Len(Tail(q)) = Len(q) - 1
      /\ \A i \in 1..Len(q) - 1 : Tail(q)[i] = q[i + 1]
  BY <1>2, SeqFacts
<1>4. PICK r : r = Tail(q)
  OBVIOUS
<1>5. <<>> \o r = r
  BY <1>3, <1>4, ConcatEmptySeq DEF IsSeq
<1>6. todo'[t] = r
  BY <1>1, <1>4, <1>5 DEF Then, CallsFit
<1>7. r # <<>> /\ Head(r) = r[1] /\ Len(r) \in Nat /\ Len(r) # 0
  BY <1>3, <1>4, <1>6, SeqFacts
<1>8. 1 \in 1..Len(q) - 1
  BY <1>3, <1>4, <1>7
<1> QED
  BY <1>1, <1>3, <1>4, <1>6, <1>7, <1>8

LEMMA InputHeads ==
  ASSUME CallsFit, NEW step, NEW e, Doing(Input, step, e), Then(Input, <<>>)
  PROVE  /\ todo'[User] = todo[User]
         /\ \A x, y : At(Input, x, y)' =>
              /\ step = "disable" => /\ x \in {"find", "retune", "load", "frontend"}
                                     /\ todo[Input][2][1] = x
              /\ step = "load" => x = "tune" /\ y = e
              /\ step = "tune" => x = "announce" /\ y = e
              /\ step = "announce" => x = "enable"
              /\ step = "enable" => x \in {"wait", "finish"}
         /\ step \in {"load", "tune", "announce"} => todo'[Input] # <<>>
<1>1. todo'[User] = todo[User] /\ todo[Input] # <<>> /\ ~Idle(Input)
  BY NextHead, InputIs DEF Doing, Idle
<1>2. PICK a : /\ a = <<step, e>> /\ a[1] = step /\ a[2] = e
               /\ todo'[Input] = <<>> \/ Follows(Input, a, Head(todo'[Input]))
  BY NextHead, InputIs
<1>3. ASSUME NEW x, NEW y, At(Input, x, y)'
      PROVE  /\ step = "disable" => /\ x \in {"find", "retune", "load", "frontend"}
                                    /\ todo[Input][2][1] = x
             /\ step = "load" => x = "tune" /\ y = e
             /\ step = "tune" => x = "announce" /\ y = e
             /\ step = "announce" => x = "enable"
             /\ step = "enable" => x \in {"wait", "finish"}
  <2>1. PICK b : b = <<x, y>>
    OBVIOUS
  <2>2. b[1] = x /\ b[2] = y
    BY <2>1
  <2>3. Follows(Input, a, b) /\ todo'[Input] # <<>> /\ Head(todo'[Input]) = b
    BY <1>2, <1>3, <2>1 DEF At, Idle
  <2>4. todo[Input][2] = b
    BY <1>1, <2>3, NextIs, InputIs
  <2>5. ASSUME NEW n, NEW m, b = <<n, m>> PROVE x = n /\ y = m
    BY <2>1, <2>5
  <2>6. step = "disable" => x \in {"find", "retune", "load", "frontend"}
    BY <1>2, <2>2, <2>3 DEF Follows
  <2>7. step = "load" => b = <<"tune", e>>
    BY <1>2, <2>3 DEF Follows
  <2>8. step = "tune" => b = <<"announce", e>>
    BY <1>2, <2>3 DEF Follows
  <2>9. step = "announce" => b = <<"enable", None>>
    BY <1>2, <2>3, InputIs DEF Follows
  <2>10. step = "enable" => x \in {"wait", "finish"}
    BY <1>2, <2>2, <2>3, AfterStep
  <2> QED
    BY <2>2, <2>4, <2>5, <2>6, <2>7, <2>8, <2>9, <2>10
<1>4. ASSUME step \in {"load", "tune", "announce"} PROVE todo'[Input] # <<>>
  <2>1. PICK q : q = todo[Input]
    OBVIOUS
  <2>2. CallOf(Input, q) /\ IsSeq(q) /\ q # <<>> /\ q[1] = a
    BY <1>2, <2>1, DoingAt, InputIs DEF CallsFit, CallOf
  <2>3. Len(q) \in Nat /\ 1 \in 1..Len(q) /\ IsSeq(Tail(q)) /\ Len(Tail(q)) = Len(q) - 1
    BY <2>2, SeqFacts
  <2>4. 1 # Len(q)
    BY <1>2, <1>4, <2>2, <2>3, InCall, LastStep
  <2>5. <<>> \o Tail(q) = Tail(q)
    BY <2>3, ConcatEmptySeq DEF IsSeq
  <2>6. todo'[Input] = Tail(q)
    BY <2>1, <2>5, InputIs DEF Then, CallsFit
  <2>7. Len(Tail(q)) # 0
    BY <2>3, <2>4
  <2> QED
    BY <2>3, <2>6, <2>7, SeqFacts
<1>5. \A x, y : At(Input, x, y)' =>
        /\ step = "disable" => /\ x \in {"find", "retune", "load", "frontend"}
                               /\ todo[Input][2][1] = x
        /\ step = "load" => x = "tune" /\ y = e
        /\ step = "tune" => x = "announce" /\ y = e
        /\ step = "announce" => x = "enable"
        /\ step = "enable" => x \in {"wait", "finish"}
  BY <1>3
<1> QED
  BY <1>1, <1>4, <1>5

LEMMA LoadThenTune ==
  ASSUME CallsFit, NEW m, Doing(Input, "load", m), Then(Input, <<>>)
  PROVE  At(Input, "tune", m)'
<1>1. todo'[Input] # <<>>
  BY InputHeads
<1>2. PICK a : /\ a = <<"load", m>> /\ a[1] = "load" /\ a[2] = m
               /\ todo'[Input] = <<>> \/ Follows(Input, a, Head(todo'[Input]))
  BY NextHead, InputIs
<1> QED
  BY <1>1, <1>2 DEF Follows, At, Idle

LEMMA InputTuneRestores ==
  ASSUME ScanKnown, ScanKnown', TuningStep(Input) \/ Follow(Input),
         UNCHANGED <<list, machine, async, history>>, ~crashed', Known, OneTunes
  PROVE  Known'
<1>1. CallsFit /\ CallsFit' /\ UNCHANGED <<state, served>>
  BY DEF ScanKnown, machine, history
<1>2. ASSUME NEW step, NEW e, Doing(Input, step, e) PROVE step \in InputSteps
  <2>1. todo[Input][1][1] = step /\ todo[Input] # <<>> /\ CallOf(Input, todo[Input])
    BY <1>1, <1>2, DoingAt, InputIs DEF CallsFit
  <2>2. 1 \in 1..Len(todo[Input])
    BY <2>1, SeqFacts DEF CallOf
  <2> QED
    BY <2>1, <2>2, InCall, InputIs DEF StepsOf
<1>3. CASE Follow(Input) \/ FindMultiplex(Input) \/ SetCurrent(Input)
  <2>1. \E step \in {"follow", "find", "current"} : \E e : Doing(Input, step, e)
    BY <1>3 DEF Follow, FindMultiplex, SetCurrent
  <2> QED
    BY <1>2, <2>1 DEF InputSteps
<1>4. ASSUME state' # "Stopped", \A x, y : At(Input, x, y)' => x # "finish" PROVE ~Over'
  BY <1>4 DEF Over
<1>5. CASE LoadCache(Input)
  <2>1. PICK m \in Mux : Doing(Input, "load", m) /\ Then(Input, <<>>) /\ cached' = m
    BY <1>5 DEF LoadCache
  <2>2. /\ ~Tunes(User) /\ At(Input, "load", m) /\ state # "Stopped"
        /\ \A x, y : At(Input, x, y) => x = "load" /\ y = m
    BY <2>1, InputAt DEF InputTuning
  <2>3. todo'[User] = todo[User] /\ \A x, y : At(Input, x, y)' => x = "tune" /\ y = m
    BY <1>1, <2>1, InputHeads
  <2>4. UNCHANGED <<currentMultiplex, currentService, enabled, tunedTo>>
    BY <1>5 DEF LoadCache
  <2>5. At(Input, "tune", m)'
    BY <1>1, <2>1, LoadThenTune
  <2>6. InputFollows'
    BY <2>1, <2>3, <2>5 DEF InputFollows
  <2>7. Returns'
    BY <1>1, <2>2, <2>3, <2>4 DEF Known, Returns
  <2>8. ~Over'
    BY <1>1, <1>4, <2>2, <2>3
  <2> QED
    BY <1>1, <2>2, <2>3, <2>6, <2>7, <2>8, InputMoves
<1>6. CASE TuneMultiplex(Input)
  <2>1. PICK m \in Mux : /\ Doing(Input, "tune", m) /\ Then(Input, <<>>)
                         /\ currentMultiplex' = m /\ tunedTo' = m
    BY <1>6 DEF TuneMultiplex
  <2>2. /\ ~Tunes(User) /\ At(Input, "tune", m) /\ state # "Stopped"
        /\ \A x, y : At(Input, x, y) => x = "tune" /\ y = m
    BY <2>1, InputAt DEF InputTuning
  <2>3. todo'[User] = todo[User] /\ \A x, y : At(Input, x, y)' => x = "announce" /\ y = m
    BY <1>1, <2>1, InputHeads
  <2>4. UNCHANGED <<currentService, enabled, cached>>
    BY <1>6 DEF TuneMultiplex
  <2>5. cached = m
    BY <1>1, <2>2, InputNow DEF InputFollows
  <2>6. InputFollows'
    BY <2>1, <2>3, <2>4, <2>5 DEF InputFollows
  <2>7. Returns'
    BY <1>1, <2>2, <2>3, <2>4 DEF Known, Returns
  <2>8. ~Over'
    BY <1>1, <1>4, <2>2, <2>3
  <2> QED
    BY <1>1, <2>2, <2>3, <2>6, <2>7, <2>8, InputMoves
<1>7. CASE Announce(Input)
  <2>1. PICK m \in Mux : Doing(Input, "announce", m) /\ Then(Input, <<>>)
    BY <1>7 DEF Announce
  <2>2. /\ ~Tunes(User) /\ At(Input, "announce", m) /\ state # "Stopped"
        /\ \A x, y : At(Input, x, y) => x = "announce" /\ y = m
    BY <2>1, InputAt DEF InputTuning
  <2>3. todo'[User] = todo[User] /\ \A x, y : At(Input, x, y)' => x = "enable"
    BY <1>1, <2>1, InputHeads
  <2>4. UNCHANGED <<currentMultiplex, currentService, enabled, cached, tunedTo>>
    BY <1>7 DEF Announce
  <2>5. cached = currentMultiplex /\ currentMultiplex = m /\ tunedTo = m
    BY <1>1, <2>2, InputNow DEF InputFollows
  <2>6. InputFollows'
    BY <2>3, <2>4, <2>5 DEF InputFollows
  <2>7. state = "Stopping" => currentService # None /\ m = MuxOf[currentService]
    BY <2>2 DEF Known, Returns
  <2>8. Returns'
    BY <1>1, <2>3, <2>4, <2>5, <2>7 DEF Known, Returns
  <2>9. ~Over'
    BY <1>1, <1>4, <2>2, <2>3
  <2> QED
    BY <1>1, <2>2, <2>3, <2>6, <2>8, <2>9, InputMoves
<1>8. CASE Enable(Input)
  <2>1. PICK on \in BOOLEAN :
          /\ Doing(Input, IF on THEN "enable" ELSE "disable", None) /\ Then(Input, <<>>)
          /\ enabled' = on
    BY <1>8 DEF Enable
  <2>2. UNCHANGED <<cached, currentMultiplex, currentService, tunedTo>>
    BY <1>8 DEF Enable
  <2>3. CASE on
    <3>1. Doing(Input, "enable", None) /\ enabled'
      BY <2>1, <2>3
    <3>2. /\ ~Tunes(User) /\ At(Input, "enable", None) /\ state # "Stopped"
          /\ \A x, y : At(Input, x, y) => x = "enable"
      BY <3>1, InputAt DEF InputTuning
    <3>3. todo'[User] = todo[User] /\ \A x, y : At(Input, x, y)' => x \in {"wait", "finish"}
      BY <1>1, <2>1, <3>1, InputHeads
    <3>4. cached = currentMultiplex
      BY <1>1, <3>2, InputNow DEF InputFollows
    <3>5. InputFollows'
      BY <2>2, <3>3, <3>4 DEF InputFollows
    <3>6. Returns'
      BY <1>1, <2>2, <3>3 DEF Known, Returns
    <3>7. ASSUME Over'
          PROVE  /\ tunedTo' = currentMultiplex'
                 /\ currentService' # None => MuxOf[currentService'] = tunedTo' /\ enabled'
      <4>1. At(Input, "finish", None)'
        BY <1>1, <3>2, <3>7 DEF Over
      <4>2. PICK b : b = <<"finish", None>>
        OBVIOUS
      <4>3. b[1] = "finish"
        BY <4>2
      <4>4. todo'[Input] # <<>> /\ Head(todo'[Input]) = b /\ IsSeq(todo'[Input])
        BY <1>1, <4>1, <4>2, InputIs DEF At, Idle, CallsFit, CallOf
      <4>5. todo'[Input][1] = b /\ 1 \in 1..Len(todo'[Input])
        BY <4>4, SeqFacts
      <4>6. state' = "Stopping"
        BY <4>3, <4>5 DEF ScanKnown, StateFits, Has
      <4>7. currentService # None /\ {tunedTo, currentMultiplex} = {MuxOf[currentService]}
        BY <1>1, <3>2, <4>6 DEF Known, Returns
      <4>8. tunedTo = MuxOf[currentService] /\ currentMultiplex = MuxOf[currentService]
        BY <4>7
      <4> QED
        BY <2>2, <3>1, <4>8
    <3> QED
      BY <1>1, <3>2, <3>3, <3>5, <3>6, <3>7, InputMoves
  <2>4. CASE ~on
    <3>1. Doing(Input, "disable", None)
      BY <2>1, <2>4
    <3>2. /\ ~Tunes(User) /\ At(Input, "disable", None) /\ state # "Stopped"
          /\ \A x, y : At(Input, x, y) => x = "disable"
      BY <3>1, InputAt DEF InputTuning
    <3>3. todo'[User] = todo[User]
          /\ \A x, y : At(Input, x, y)' => /\ x \in {"find", "retune", "load", "frontend"}
                                           /\ todo[Input][2][1] = x
      BY <1>1, <2>1, <3>1, InputHeads
    <3>4. cached = currentMultiplex
      BY <1>1, <3>2, InputNow DEF InputFollows
    <3>5. InputFollows'
      BY <2>2, <3>3, <3>4 DEF InputFollows
    <3>6. Returns'
      BY <1>1, <2>2, <3>2, <3>3 DEF Known, Returns
    <3>7. ~Over'
      BY <1>1, <1>4, <3>2, <3>3
    <3> QED
      BY <1>1, <3>2, <3>3, <3>5, <3>6, <3>7, InputMoves
  <2> QED
    BY <2>3, <2>4
<1>9. CASE RetuneMultiplex(Input)
  <2>1. Doing(Input, "retune", None)
    BY <1>9 DEF RetuneMultiplex
  <2>2. ~Crash(Input)
    BY DEF Crash
  <2>3. /\ currentService # None
        /\ Then(Input, TuneSteps(MuxOf[currentService]) \o <<<<"enable", None>>>>)
        /\ UNCHANGED <<cached, currentMultiplex, currentService, enabled, tunedTo>>
    BY <1>9, <2>2 DEF RetuneMultiplex
  <2>4. /\ ~Tunes(User) /\ At(Input, "retune", None) /\ state # "Stopped"
        /\ \A x, y : At(Input, x, y) => x = "retune"
    BY <2>1, InputAt DEF InputTuning
  <2>5. PICK m : m = MuxOf[currentService]
    OBVIOUS
  <2>6. PICK a : a = <<"retune", None>>
    OBVIOUS
  <2>7. PICK p : p = TuneSteps(m) \o <<<<"enable", None>>>>
    OBVIOUS
  <2>8. a[1] = "retune"
    BY <2>6
  <2>9. Replaces(Input, p, a) /\ p # <<>> /\ p[1] = <<"load", m>>
    BY <2>7, <2>8, RetuneGoesOn
  <2>10. Takes(Input, a, p)
    BY <2>1, <2>3, <2>5, <2>6, <2>7, <2>9, InputIs DEF Takes, Doing
  <2>11. todo'[User] = todo[User] /\ Head(todo'[Input]) = <<"load", m>>
    BY <1>1, <2>9, <2>10, Taken, InputIs
  <2>12. \A x, y : At(Input, x, y)' => x = "load" /\ y = m
    <3>1. PICK b : b = <<"load", m>>
      OBVIOUS
    <3>2. b[1] = "load" /\ b[2] = m
      BY <3>1
    <3>3. \A x, y : b = <<x, y>> => x = "load" /\ y = m
      BY <3>2
    <3> QED
      BY <2>11, <3>1, <3>3 DEF At
  <2>13. cached = currentMultiplex
    BY <1>1, <2>4, InputNow DEF InputFollows
  <2>14. InputFollows'
    BY <2>3, <2>12, <2>13 DEF InputFollows
  <2>15. Returns'
    BY <1>1, <2>3, <2>5, <2>12 DEF Known, Returns
  <2>16. ~Over'
    BY <1>1, <1>4, <2>4, <2>12
  <2> QED
    BY <1>1, <2>4, <2>11, <2>14, <2>15, <2>16, InputMoves
<1> QED
  BY <1>3, <1>5, <1>6, <1>7, <1>8, <1>9 DEF TuningStep

-----------------------------------------------------------------------------
(* The service comes back. *)

\* What neither raced nor crashed in a step has not done so before.
LEMMA NoRaceYet ==
  ASSUME [Next]_vars, ~raced', ~crashed'
  PROVE  ~raced /\ ~crashed
<1>1. CASE UNCHANGED vars
  BY <1>1 DEF vars, tuning
<1>2. CASE Next
  <2>1. ~raced
    BY <1>2 DEF Next, Race
  <2>2. CASE MachineStep
    BY <2>1, <2>2 DEF MachineStep, Begin, NextEntry, NextParams, TuneFrontend, LockedOn,
       WaitForTables, NoLock, TablesEntered, TableReceived, NoTables, NITEntered, NITDone,
       Cancel, Cancelled, Stop, Restore, Finish, Ignored, CheckPMTs, TimerAgain, Quietly, Tick,
       On, Doing
  <2>3. CASE Events \/ FillList \/ Start \/ Command
    <3>1. crashed' = crashed
      BY <2>3 DEF Events, Watcher, TimerTick, FrontendLocked, PATEvent, PMTEvent, SDTEvent,
         NITEvent, Arrives, Quietly, tuning, FillList, Start, Command, Scan, CancelScan, Select
    <3> QED
      BY <2>1, <3>1
  <2>4. CASE TuneStep
    <3>1. PICK t \in Thread : TuningStep(t) \/ Follow(t)
      BY <2>4 DEF TuneStep
    <3>2. crashed' = crashed \/ Crash(t)
      BY <3>1 DEF TuningStep, Follow, Quietly, Enable, FindMultiplex, RetuneMultiplex,
         LoadCache, TuneMultiplex, Announce, SetCurrent
    <3> QED
      BY <2>1, <3>2 DEF Crash
  <2> QED
    BY <1>2, <2>2, <2>3, <2>4 DEF Next, Step
<1> QED
  BY <1>1, <1>2

LEMMA OneTunesNow ==
  ASSUME [Next]_vars, ~raced', OneTunes
  PROVE  OneTunes'
<1>1. CASE UNCHANGED vars
  BY <1>1 DEF vars, tuning, OneTunes, Tunes
<1>2. CASE Race
  BY <1>2 DEF Race, OneTunes
<1> QED
  BY <1>1, <1>2 DEF Next

\* Nothing of this is about what a step leaves alone.
LEMMA RestIsKnown ==
  ASSUME UNCHANGED vars, Known PROVE Known'
BY DEF vars, tuning, machine, history, Known, CacheFollows, Returns, Returned, At, Idle, Over,
       Tunes

LEMMA NextRestores ==
  ASSUME ScanKnown, RestoreKnown, [Next]_vars
  PROVE  RestoreKnown'
<1> SUFFICES ASSUME ~raced', ~crashed' PROVE OneTunes' /\ Known'
  BY DEF RestoreKnown, Known
<1>1. ~raced /\ ~crashed
  BY NoRaceYet
<1>2. OneTunes /\ Known
  BY <1>1 DEF RestoreKnown, Known
<1>3. OneTunes'
  BY <1>2, OneTunesNow
<1>4. ScanKnown'
  BY NextKnown
<1>5. CASE UNCHANGED vars
  BY <1>2, <1>3, <1>5, RestIsKnown
<1>6. CASE MachineStep
  <2>1. OrdinaryStep \/ NextParams \/ LockedOn \/ Stop \/ Restore
    BY <1>6 DEF MachineStep, OrdinaryStep
  <2> QED
    BY <1>2, <1>3, <2>1, OrdinaryRestores, NextParamsRestores, LockedOnRestores, StopRestores,
       RestoreRestores
<1>7. CASE Events
  BY <1>2, <1>3, <1>7, EventsRestore
<1>8. CASE FillList \/ Start \/ Command
  BY <1>2, <1>3, <1>8, UserRestores
<1>9. CASE TuneStep
  <2>1. UNCHANGED <<list, machine, async, history>>
    BY <1>9 DEF TuneStep
  <2>2. PICK t \in Thread : TuningStep(t) \/ Follow(t)
    BY <1>9 DEF TuneStep
  <2>3. CASE t = User
    BY <1>2, <1>3, <2>1, <2>2, <2>3, UserTuneRestores
  <2>4. CASE t = Input
    BY <1>2, <1>3, <1>4, <2>1, <2>2, <2>4, InputTuneRestores
  <2> QED
    BY <2>3, <2>4 DEF Thread
<1> QED
  BY <1>3, <1>5, <1>6, <1>7, <1>8, <1>9 DEF Next, Step

LEMMA InitRestores == ASSUME Init PROVE RestoreKnown
<1>1. PICK s \in {None} \cup {k \in Service : MuxOf[k] \in FirstRows} : TuningInit(s)
  BY DEF Init
<1>2. PICK m : m = IF s = None THEN None ELSE MuxOf[s]
  OBVIOUS
<1>3. /\ enabled = (s # None) /\ currentService = s /\ currentMultiplex = m /\ cached = m
      /\ tunedTo = m /\ todo = [t \in Thread |-> <<>>] /\ state = "Stopped"
  BY <1>1, <1>2 DEF TuningInit, Init
<1>4. \A t \in Thread : todo[t] = <<>>
  BY <1>3
<1>5. \A t \in Thread : \A step, x : ~At(t, step, x)
  BY <1>4 DEF At, Idle
<1>6. CacheFollows
  BY <1>3, <1>5, InputIs DEF CacheFollows
<1>7. Returns
  BY <1>1, <1>3 DEF Returns, Busy
<1>8. Returned
  BY <1>1, <1>2, <1>3 DEF Returned
<1>9. OneTunes
  BY <1>4, NoStep, InputIs DEF OneTunes, Tunes
<1> QED
  BY <1>6, <1>7, <1>8, <1>9 DEF RestoreKnown

\* While the scan and a selection have not tuned at the same time, what is
\* cached, current and tuned follow each other, and a scan that began with a
\* current service leads back to it: at every step of every call.
THEOREM RestoreIsKnown == Spec => []RestoreKnown
<1>1. Init => RestoreKnown
  BY InitRestores
<1>2. ScanKnown /\ RestoreKnown /\ [Next]_vars => RestoreKnown'
  BY NextRestores
<1> QED
  BY <1>1, <1>2, ScanIsKnown, PTL DEF Spec

\* After a scan, finished or cancelled, the reader is on for the multiplex of
\* the current service again, with its services in the cache, unless a select
\* and the scan were tuning at the same time (TuningCurrentServiceRetune): for
\* any database, spectrum and network, and any commands in between.
THEOREM Restored == Spec => []ServiceRestored
<1>1. ASSUME ScanKnown, RestoreKnown, \A t \in Thread : Idle(t), state = "Stopped",
             currentService # None, served, ~raced, ~crashed
      PROVE  /\ enabled /\ ~locked
             /\ tunedTo = MuxOf[currentService]
             /\ {currentMultiplex, cached} = {tunedTo}
  <2>1. \A t \in Thread : todo[t] = <<>>
    BY <1>1 DEF Idle
  <2>2. \A t \in Thread : \A step, x : ~At(t, step, x)
    BY <2>1 DEF At, Idle
  <2>3. ~Tunes(User)
    BY <2>1, NoStep, InputIs DEF Tunes
  <2>4. CacheFollows /\ Returned /\ Over
    BY <1>1 DEF RestoreKnown, Over
  <2>5. tunedTo = currentMultiplex /\ MuxOf[currentService] = tunedTo /\ enabled
    BY <1>1, <2>2, <2>3, <2>4, InputIs DEF Returned
  <2>6. cached = currentMultiplex
    BY <2>2, <2>4 DEF CacheFollows
  <2>7. ~locked
    BY <1>1 DEF ScanKnown, StateFits
  <2> QED
    BY <2>5, <2>6, <2>7
<1>2. ScanKnown /\ RestoreKnown => ServiceRestored
  BY <1>1 DEF ServiceRestored
<1> QED
  BY <1>2, ScanIsKnown, RestoreIsKnown, PTL

-----------------------------------------------------------------------------
(* Numbers and places. *)

\* How many members of K are less.
Ranks(K) == [k \in K |-> Cardinality({j \in K : j < k})]

Ranked(K, rank) ==
  /\ IsFiniteSet(K) /\ Cardinality(K) \in Nat
  /\ \A k \in K : rank[k] \in 0..Cardinality(K) - 1
  /\ \A k, l \in K : rank[k] = rank[l] => k = l
  /\ \A r \in 0..Cardinality(K) - 1 : \E k \in K : rank[k] = r

LEMMA RankIs ==
  ASSUME NEW n \in Nat, NEW K, K \subseteq 1..n
  PROVE  Ranked(K, Ranks(K))
<1>0. PICK rank : rank = Ranks(K)
  OBVIOUS
<1> USE <1>0 DEF Ranks
<1>1. IsFiniteSet(K) /\ Cardinality(K) \in Nat
  <2>1. IsFiniteSet(1..n)
    BY FS_Interval
  <2>2. IsFiniteSet(K)
    BY <2>1, FS_Subset
  <2> QED
    BY <2>2, FS_CardinalityType
<1>2. ASSUME NEW k \in K PROVE rank[k] \in 0..Cardinality(K) - 1
  <2>1. PICK J : J = {j \in K : j < k}
    OBVIOUS
  <2>2. J \in SUBSET K /\ k \notin J
    BY <2>1
  <2>3. IsFiniteSet(J) /\ Cardinality(J) <= Cardinality(K) /\ Cardinality(J) # Cardinality(K)
    BY <1>1, <2>2, FS_Subset
  <2>4. Cardinality(J) \in Nat
    BY <2>3, FS_CardinalityType
  <2> QED
    BY <1>1, <2>1, <2>3, <2>4
<1>3. ASSUME NEW k \in K, NEW l \in K, k < l PROVE rank[k] # rank[l]
  <2>1. PICK J : J = {j \in K : j < k}
    OBVIOUS
  <2>2. PICK L : L = {j \in K : j < l}
    OBVIOUS
  <2>3. J \in SUBSET L /\ J # L
    <3>1. \A j \in K : j \in Int
      OBVIOUS
    <3>2. \A j \in K : j < k => j < l
      BY <1>3, <3>1
    <3>3. k \in L /\ k \notin J
      BY <1>3, <2>1, <2>2, <3>1
    <3> QED
      BY <2>1, <2>2, <3>2, <3>3
  <2>4. IsFiniteSet(L)
    BY <1>1, <2>2, FS_Subset
  <2>5. Cardinality(J) # Cardinality(L)
    BY <2>3, <2>4, FS_Subset
  <2> QED
    BY <2>1, <2>2, <2>5
<1>4. ASSUME NEW k \in K, NEW l \in K, rank[k] = rank[l] PROVE k = l
  <2>1. k \in Nat /\ l \in Nat
    OBVIOUS
  <2> QED
    BY <1>3, <1>4, <2>1
<1>5. PICK R : R = 0..Cardinality(K) - 1
  OBVIOUS
<1>6. IsFiniteSet(R) /\ Cardinality(R) = Cardinality(K)
  BY <1>1, <1>5, FS_Interval
<1>7. rank \in Injection(K, R)
  BY <1>2, <1>4, <1>5 DEF Injection, IsInjective
<1>8. rank \in Surjection(K, R)
  BY <1>6, <1>7, FS_Injection
<1> QED
  BY <1>1, <1>2, <1>4, <1>5, <1>8 DEF Surjection, Ranked

\* The sequence has what is at these places, each of them once.
Picks(q, K, new, place) ==
  /\ IsSeq(new) /\ Len(new) \in Nat
  /\ place \in [1..Len(new) -> K]
  /\ \A i \in 1..Len(new) : new[i] = q[place[i]]
  /\ \A i, j \in 1..Len(new) : place[i] = place[j] => i = j
  /\ \A k \in K : \E i \in 1..Len(new) : place[i] = k

LEMMA SelectedPicks ==
  ASSUME NEW q, IsSeq(q), NEW K, K \subseteq DOMAIN q, NEW new, new = Selected(q, K)
  PROVE  \E place : Picks(q, K, new, place)
<1>1. DOMAIN q = 1..Len(q) /\ Len(q) \in Nat
  BY SeqFacts
<1>2. PICK rank : rank = Ranks(K)
  OBVIOUS
<1>3. /\ Cardinality(K) \in Nat
      /\ \A k \in K : rank[k] \in 0..Cardinality(K) - 1
      /\ \A k, l \in K : rank[k] = rank[l] => k = l
      /\ \A r \in 0..Cardinality(K) - 1 : \E k \in K : rank[k] = r
  <2>1. PICK l : l = Len(q)
    OBVIOUS
  <2>2. l \in Nat /\ K \subseteq 1..l
    BY <1>1, <2>1
  <2> QED
    BY <1>2, <2>2, RankIs DEF Ranked
<1>4. PICK place : place = InOrder(K)
  OBVIOUS
<1>5. PICK n : n = Cardinality(K)
  OBVIOUS
<1>6. place = [i \in 1..n |-> CHOOSE k \in K : Cardinality({j \in K : j < k}) = i - 1]
  BY <1>4, <1>5 DEF InOrder
<1>7. ASSUME NEW i \in 1..n PROVE place[i] \in K /\ rank[place[i]] = i - 1
  <2>1. i - 1 \in 0..Cardinality(K) - 1
    BY <1>3, <1>5
  <2>2. \E k \in K : Cardinality({j \in K : j < k}) = i - 1
    BY <1>2, <1>3, <2>1 DEF Ranks
  <2>3. place[i] = CHOOSE k \in K : Cardinality({j \in K : j < k}) = i - 1
    BY <1>6
  <2>4. place[i] \in K /\ Cardinality({j \in K : j < place[i]}) = i - 1
    BY <2>2, <2>3
  <2> QED
    BY <1>2, <2>4 DEF Ranks
<1>8. new = [i \in 1..n |-> new[i]] /\ \A i \in 1..n : new[i] = q[place[i]]
  BY <1>4, <1>5 DEF Selected
<1>9. IsSeq(new) /\ Len(new) = n
  BY <1>3, <1>5, <1>8, Listing
<1>10. \A i, j \in 1..n : place[i] = place[j] => i = j
  <2>1. SUFFICES ASSUME NEW i \in 1..n, NEW j \in 1..n, place[i] = place[j] PROVE i = j
    OBVIOUS
  <2>2. i - 1 = j - 1
    BY <1>7, <2>1
  <2> QED
    BY <1>3, <1>5, <2>2
<1>11. ASSUME NEW k \in K PROVE \E i \in 1..n : place[i] = k
  <2>1. PICK i : i = rank[k] + 1
    OBVIOUS
  <2>2. i \in 1..n /\ i - 1 = rank[k]
    BY <1>3, <1>5, <2>1
  <2> QED
    BY <1>3, <1>7, <2>2
<1>12. place \in [1..n -> K]
  BY <1>6, <1>7
<1>13. Len(new) = n /\ n \in Nat
  BY <1>3, <1>5, <1>9
<1>14. Picks(q, K, new, place)
  BY <1>8, <1>9, <1>10, <1>11, <1>12, <1>13 DEF Picks
<1> QED
  BY <1>14

LEMMA Least ==
  ASSUME NEW n \in Nat, NEW K, K \subseteq 1..n, K # {}
  PROVE  \E j \in K : \A i \in K : ~(i < j)
<1>1. PICK rank : rank = Ranks(K)
  OBVIOUS
<1>2. /\ IsFiniteSet(K) /\ Cardinality(K) \in Nat
      /\ \A r \in 0..Cardinality(K) - 1 : \E k \in K : rank[k] = r
  <2>1. Ranked(K, Ranks(K))
    BY RankIs
  <2>2. Ranked(K, rank)
    BY <1>1, <2>1
  <2> QED
    BY <2>2 DEF Ranked
<1>3. Cardinality(K) # 0
  BY <1>2, FS_EmptySet
<1>4. 0 \in 0..Cardinality(K) - 1
  BY <1>2, <1>3
<1>5. PICK j \in K : rank[j] = 0
  BY <1>2, <1>4
<1>6. PICK J : J = {i \in K : i < j}
  OBVIOUS
<1>7. Cardinality(J) = 0
  BY <1>1, <1>5, <1>6 DEF Ranks
<1>8. IsFiniteSet(J)
  BY <1>2, <1>6, FS_Subset
<1>9. J = {}
  BY <1>7, <1>8, FS_EmptySet
<1> QED
  BY <1>6, <1>9

\* As many different members of S: no more than there are, and if as many, all.
LEMMA Numbered ==
  ASSUME NEW S, IsFiniteSet(S), NEW n \in Nat, NEW f \in [1..n -> S],
         \A i, j \in 1..n : f[i] = f[j] => i = j
  PROVE  /\ n <= Cardinality(S)
         /\ n >= Cardinality(S) => \A s \in S : \E i \in 1..n : f[i] = s
<1>1. f \in Injection(1..n, S)
  BY DEF Injection, IsInjective
<1>2. Cardinality(1..n) = n /\ IsFiniteSet(1..n)
  BY FS_Interval
<1>3. Cardinality(S) \in Nat
  BY FS_CardinalityType
<1>4. n <= Cardinality(S) /\ (n = Cardinality(S) => f \in Surjection(1..n, S))
  BY <1>1, <1>2, FS_Injection
<1> QED
  BY <1>3, <1>4 DEF Surjection

\* What FindOrAdd makes of a table: the new ids come behind it, not received.
Founds(received, ids, r) ==
  /\ IsSeq(r) /\ Len(received) <= Len(r)
  /\ \A i \in 1..Len(received) : r[i] = received[i]
  /\ \A i \in 1..Len(r) : i > Len(received) =>
       /\ r[i] = [id |-> r[i].id, received |-> FALSE]
       /\ \E k \in 1..Len(ids) : r[i].id = ids[k]
       /\ \A j \in 1..Len(received) : received[j].id # r[i].id
  /\ \A i, j \in 1..Len(r) : r[i].id = r[j].id => i = j
  /\ \A k \in 1..Len(ids) : \E i \in 1..Len(r) : r[i].id = ids[k]

LEMMA FindOrAddIs ==
  ASSUME NEW S, IsFiniteSet(S), Cardinality(S) <= MaxPMTs,
         NEW received, IsSeq(received), NEW ids, IsSeq(ids),
         \A k \in 1..Len(ids) : ids[k] \in S,
         \A i \in 1..Len(received) : received[i].id \in S,
         \A i, j \in 1..Len(received) : received[i].id = received[j].id => i = j
  PROVE  Founds(received, ids, FindOrAdd(received, ids))
<1>1. /\ DOMAIN ids = 1..Len(ids) /\ Len(ids) \in Nat
      /\ DOMAIN received = 1..Len(received) /\ Len(received) \in Nat
  BY SeqFacts
<1>2. PICK K : K = {k \in DOMAIN ids : /\ \A i \in DOMAIN received : received[i].id # ids[k]
                                       /\ \A j \in 1..k - 1 : ids[j] # ids[k]}
  OBVIOUS
<1>3. PICK new : new = Selected(ids, K)
  OBVIOUS
<1>4. K \subseteq DOMAIN ids
  BY <1>2
<1>5. PICK place : Picks(ids, K, new, place)
  BY <1>3, <1>4, SelectedPicks
<1>6. PICK more : more = [i \in DOMAIN new |-> [id |-> new[i], received |-> FALSE]]
  OBVIOUS
<1>7. DOMAIN new = 1..Len(new) /\ Len(new) \in Nat
  BY <1>5, SeqFacts DEF Picks
<1>8. IsSeq(more) /\ Len(more) = Len(new)
  <2>1. PICK l : l = Len(new)
    OBVIOUS
  <2>2. more = [i \in 1..l |-> more[i]] /\ l \in Nat
    BY <1>6, <1>7, <2>1
  <2> QED
    BY <2>1, <2>2, Listing
<1>9. \A i \in 1..Len(new) : /\ more[i] = [id |-> new[i], received |-> FALSE]
                               /\ more[i].id = new[i]
  BY <1>6, <1>7
<1>10. PICK all : all = received \o more
  OBVIOUS
<1>11. Joins(received, more, all)
  BY <1>8, <1>10, JoinedIs
<1>12. /\ IsSeq(all) /\ Len(all) = Len(received) + Len(new) /\ Len(all) \in Nat
       /\ \A i \in 1..Len(received) : all[i] = received[i]
  BY <1>1, <1>7, <1>8, <1>11 DEF Joins
<1>13. ASSUME NEW i \in 1..Len(all), i > Len(received)
       PROVE  \E l \in 1..Len(new) : /\ i = Len(received) + l
                                     /\ all[i] = [id |-> new[l], received |-> FALSE]
                                     /\ all[i].id = new[l]
  <2>1. PICK l : l = i - Len(received)
    OBVIOUS
  <2>2. l \in 1..Len(new) /\ i = Len(received) + l
    BY <1>1, <1>7, <1>12, <1>13, <2>1
  <2>3. all[i] = more[l]
    BY <1>8, <1>11, <2>2 DEF Joins
  <2> QED
    BY <1>9, <2>2, <2>3
<1>14. \A l \in 1..Len(new) : /\ place[l] \in K /\ new[l] = ids[place[l]]
                              /\ place[l] \in 1..Len(ids)
                              /\ \A i \in 1..Len(received) : received[i].id # new[l]
                              /\ \A j \in 1..place[l] - 1 : ids[j] # new[l]
  <2>1. SUFFICES ASSUME NEW l \in 1..Len(new)
                 PROVE  /\ place[l] \in K /\ new[l] = ids[place[l]]
                        /\ place[l] \in 1..Len(ids)
                        /\ \A i \in 1..Len(received) : received[i].id # new[l]
                        /\ \A j \in 1..place[l] - 1 : ids[j] # new[l]
    OBVIOUS
  <2>2. place[l] \in K /\ new[l] = ids[place[l]]
    BY <1>5 DEF Picks
  <2>3. PICK k : k = place[l]
    OBVIOUS
  <2>4. k \in K
    BY <2>2, <2>3
  <2>5. /\ k \in DOMAIN ids /\ \A i \in DOMAIN received : received[i].id # ids[k]
        /\ \A j \in 1..k - 1 : ids[j] # ids[k]
    BY <1>2, <2>4
  <2> QED
    BY <1>1, <2>2, <2>3, <2>5
<1>15. \A l, m \in 1..Len(new) : new[l] = new[m] => l = m
  <2>1. SUFFICES ASSUME NEW l \in 1..Len(new), NEW m \in 1..Len(new), new[l] = new[m]
                 PROVE  l = m
    OBVIOUS
  <2>2. /\ place[l] \in 1..Len(ids) /\ place[m] \in 1..Len(ids)
        /\ ids[place[m]] = new[l] /\ ids[place[l]] = new[m]
    BY <1>14, <2>1
  <2>3. ~(place[m] < place[l]) /\ ~(place[l] < place[m])
    <3>1. place[m] < place[l] => place[m] \in 1..place[l] - 1
      BY <1>1, <2>2
    <3>2. place[l] < place[m] => place[l] \in 1..place[m] - 1
      BY <1>1, <2>2
    <3> QED
      BY <1>14, <2>2, <3>1, <3>2
  <2>4. place[l] = place[m]
    BY <1>1, <2>2, <2>3
  <2> QED
    BY <1>5, <2>4 DEF Picks
<1>16. \A i \in 1..Len(all) : all[i].id \in S
  <2>1. SUFFICES ASSUME NEW i \in 1..Len(all) PROVE all[i].id \in S
    OBVIOUS
  <2>2. CASE i > Len(received)
    <3>1. PICK l \in 1..Len(new) : all[i].id = new[l]
      BY <1>13, <2>2
    <3>2. new[l] = ids[place[l]] /\ place[l] \in 1..Len(ids)
      BY <1>14
    <3> QED
      BY <3>1, <3>2
  <2>3. CASE ~(i > Len(received))
    <3>1. i \in 1..Len(received)
      BY <1>1, <1>12, <2>3
    <3> QED
      BY <1>12, <3>1
  <2> QED
    BY <2>2, <2>3
<1>17. \A i, j \in 1..Len(all) : all[i].id = all[j].id => i = j
  <2>1. \A i \in 1..Len(all) : ~(i > Len(received)) => i \in 1..Len(received)
    BY <1>1, <1>12
  <2>2. SUFFICES ASSUME NEW i \in 1..Len(all), NEW j \in 1..Len(all), all[i].id = all[j].id
                 PROVE  i = j
    OBVIOUS
  <2>7. \A k \in 1..Len(all) : k > Len(received) =>
          \E l \in 1..Len(new) : k = Len(received) + l /\ all[k].id = new[l]
    BY <1>13
  <2>8. \A k \in 1..Len(all) : k > Len(received) =>
          \A m \in 1..Len(received) : all[m].id # all[k].id
    <3>1. SUFFICES ASSUME NEW k \in 1..Len(all), k > Len(received), NEW m \in 1..Len(received)
                   PROVE  all[m].id # all[k].id
      OBVIOUS
    <3>2. PICK l \in 1..Len(new) : all[k].id = new[l]
      BY <2>7, <3>1
    <3>3. received[m].id # new[l]
      BY <1>14
    <3> QED
      BY <1>12, <3>2, <3>3
  <2>3. CASE i > Len(received) /\ j > Len(received)
    <3>1. PICK l \in 1..Len(new) : i = Len(received) + l /\ all[i].id = new[l]
      BY <2>3, <2>7
    <3>2. PICK m \in 1..Len(new) : j = Len(received) + m /\ all[j].id = new[m]
      BY <2>3, <2>7
    <3> QED
      BY <1>15, <2>2, <3>1, <3>2
  <2>4. CASE i > Len(received) /\ ~(j > Len(received))
    BY <2>1, <2>2, <2>4, <2>8
  <2>5. CASE ~(i > Len(received)) /\ j > Len(received)
    BY <2>1, <2>2, <2>5, <2>8
  <2>6. CASE ~(i > Len(received)) /\ ~(j > Len(received))
    BY <1>12, <2>1, <2>2, <2>6
  <2> QED
    BY <2>3, <2>4, <2>5, <2>6
<1>18. Len(all) <= MaxPMTs
  <2>1. PICK n : n = Len(all)
    OBVIOUS
  <2>2. PICK f : f = [i \in 1..n |-> all[i].id]
    OBVIOUS
  <2>3. f \in [1..n -> S] /\ \A i, j \in 1..n : f[i] = f[j] => i = j
    BY <1>16, <1>17, <2>1, <2>2
  <2>4. n \in Nat
    BY <1>12, <2>1
  <2>5. n <= Cardinality(S)
    BY <2>3, <2>4, Numbered
  <2>6. Cardinality(S) \in Nat /\ MaxPMTs \in Nat
    BY FS_CardinalityType, ScanningAssumption
  <2> QED
    BY <2>1, <2>4, <2>5, <2>6
<1>19. FindOrAdd(received, ids) = all
  BY <1>2, <1>3, <1>6, <1>10, <1>18 DEF FindOrAdd
<1>20. ASSUME NEW k \in 1..Len(ids) PROVE \E i \in 1..Len(all) : all[i].id = ids[k]
  <2>1. CASE \E i \in 1..Len(received) : received[i].id = ids[k]
    <3>1. PICK i \in 1..Len(received) : received[i].id = ids[k]
      BY <2>1
    <3>2. i \in 1..Len(all) /\ all[i] = received[i]
      BY <1>1, <1>7, <1>12
    <3> QED
      BY <3>1, <3>2
  <2>2. CASE ~\E i \in 1..Len(received) : received[i].id = ids[k]
    <3>1. PICK J : J = {j \in 1..Len(ids) : ids[j] = ids[k]}
      OBVIOUS
    <3>2. PICK n : n = Len(ids)
      OBVIOUS
    <3>3. J \subseteq 1..n /\ J # {} /\ n \in Nat
      BY <1>1, <3>1, <3>2
    <3>4. PICK j \in J : \A i \in J : ~(i < j)
      BY <3>3, Least
    <3>5. j \in 1..Len(ids) /\ ids[j] = ids[k]
      BY <3>1, <3>4
    <3>6. ASSUME NEW i \in 1..j - 1 PROVE ids[i] # ids[j]
      <4>1. i \in 1..Len(ids) /\ i < j
        BY <1>1, <3>5
      <4> QED
        BY <3>1, <3>4, <3>5, <4>1
    <3>7. j \in K
      BY <1>1, <1>2, <2>2, <3>5, <3>6
    <3>8. PICK l \in 1..Len(new) : place[l] = j
      BY <1>5, <3>7 DEF Picks
    <3>9. PICK i : i = Len(received) + l
      OBVIOUS
    <3>10. i \in 1..Len(all) /\ all[i] = more[l]
      BY <1>1, <1>7, <1>8, <1>11, <1>12, <3>9 DEF Joins
    <3>11. all[i].id = new[l]
      BY <1>9, <3>10
    <3> QED
      BY <1>14, <3>5, <3>8, <3>10, <3>11
  <2> QED
    BY <2>1, <2>2
<1>21. \A i \in 1..Len(all) : i > Len(received) =>
         /\ all[i] = [id |-> all[i].id, received |-> FALSE]
         /\ \E k \in 1..Len(ids) : all[i].id = ids[k]
         /\ \A j \in 1..Len(received) : received[j].id # all[i].id
  <2>1. SUFFICES ASSUME NEW i \in 1..Len(all), i > Len(received)
                 PROVE  /\ all[i] = [id |-> all[i].id, received |-> FALSE]
                        /\ \E k \in 1..Len(ids) : all[i].id = ids[k]
                        /\ \A j \in 1..Len(received) : received[j].id # all[i].id
    OBVIOUS
  <2>2. PICK l \in 1..Len(new) : /\ all[i] = [id |-> new[l], received |-> FALSE]
                                 /\ all[i].id = new[l]
    BY <1>13, <2>1
  <2>3. /\ new[l] = ids[place[l]] /\ place[l] \in 1..Len(ids)
        /\ \A j \in 1..Len(received) : received[j].id # new[l]
    BY <1>14
  <2> QED
    BY <2>2, <2>3
<1>22. Len(received) <= Len(all)
  BY <1>1, <1>7, <1>12
<1>23. Founds(received, ids, all)
  BY <1>12, <1>17, <1>20, <1>21, <1>22 DEF Founds
<1> QED
  BY <1>19, <1>23

-----------------------------------------------------------------------------
(* The first multiplex of a scan. *)

\* No table holds more programs than there is room for.
PATsFit == \A m \in Mux : Cardinality(ToSet(Programs[m])) <= MaxPMTs

\* The programs of the multiplex that is tuned.
Here == ToSet(Programs[tunedTo])

\* Nothing of a multiplex has been noted.
Blank == table = <<>> /\ count = MaxPMTs

\* The scan has a multiplex, or looks for one.
Visiting == {"NextMux", "WaitingForTables", "WaitingForNIT"}

\* The scan has the lock while it visits multiplexes, and has noted nothing
\* before the first of them; the machine waits for tables only between its calls.
Visited ==
  /\ visits \in Nat
  /\ state \in {"WaitingForTables", "WaitingForNIT"} => visits # 0
  /\ state \in Visiting => locked
  /\ state = "NextMux" /\ visits = 0 => Blank
  /\ state = "WaitingForTables" => NamesIn({"scan", "again", "check"})

\* Nobody selects while the machine waits for tables, or is about to.
UserWaits ==
  ~raced => /\ OneTunes
            /\ Has("wait") \/ state = "WaitingForTables" => ~Tunes(User)

\* Every entry of t is one of S, once, marked if it is one of h, and these are
\* all there.
Marked(t, S, h) ==
  /\ IsSeq(t)
  /\ \A i \in 1..Len(t) :
       /\ t[i] = [id |-> t[i].id, received |-> t[i].received]
       /\ t[i].id \in S /\ (t[i].received <=> t[i].id \in h)
  /\ \A i, j \in 1..Len(t) : t[i].id = t[j].id => i = j
  /\ \A id \in h : \E i \in 1..Len(t) : t[i].id = id

\* The table marks the programs of the multiplex whose PMTs have come; a count
\* other than that of a scan that has begun says that all are there.
TableFits ==
  /\ Marked(table, Here, heard)
  /\ table # <<>> => tunedTo \in Mux
  /\ count \in Nat
  /\ \/ count = MaxPMTs
     \/ count >= Len(table) /\ \A id \in Here : \E i \in 1..Len(table) : table[i].id = id
  /\ got \subseteq Tables /\ got # Tables
  /\ "PMTs" \in got \/ At(Input, "scan", "PMTs") => Here \subseteq heard

FirstFits ==
  ~raced /\ state = "WaitingForTables" /\ visits = 1 =>
    IF At(Input, "scan", "Entered") THEN Blank ELSE TableFits

FirstKnown == Visited /\ UserWaits /\ FirstFits

\* The input thread's call is its own as long as it is about the scan.
LEMMA NamesAt ==
  ASSUME CallsFit, NEW N, NamesIn(N)
  PROVE  \A step, x : At(Input, step, x) => step \in N
<1>1. IsSeq(todo[Input]) /\ \A i \in 1..Len(todo[Input]) : todo[Input][i][1] \in N
  BY InputIs DEF CallsFit, CallOf, NamesIn
<1>2. \A step, x : todo[Input] # <<>> /\ Head(todo[Input]) = <<step, x>> => step \in N
  BY <1>1, HeadNamed
<1> QED
  BY <1>2 DEF At, Idle

LEMMA NamesNextAt ==
  CallsFit' => \A N : NamesIn(N)' => \A step, x : At(Input, step, x)' => step \in N
<1>1. (CallsFit => \A N : NamesIn(N) => \A step, x : At(Input, step, x) => step \in N)'
  <2>1. CallsFit => \A N : NamesIn(N) => \A step, x : At(Input, step, x) => step \in N
    BY NamesAt
  <2> QED
    BY <2>1, PTL
<1> QED
  BY <1>1

LEMMA WaitsInNextMux ==
  ASSUME ScanKnown, WaitForTables PROVE state = "NextMux" /\ Has("wait")
<1>1. todo[Input] # <<>> /\ todo[Input][1][1] = "wait" /\ IsSeq(todo[Input])
  BY DoingAt, InputIs DEF WaitForTables, ScanKnown, CallsFit, CallOf
<1>2. 1 \in 1..Len(todo[Input])
  BY <1>1, SeqFacts
<1>3. Has("wait")
  BY <1>1, <1>2 DEF Has
<1> QED
  BY <1>3 DEF ScanKnown, StateFits

\* What an event brings to the input thread.
LEMMA EventNames ==
  ASSUME CallsFit, Events
  PROVE  /\ todo[Input] = <<>> /\ todo'[User] = todo[User]
         /\ NamesIn({"scan", "again", "check"})'
         /\ ~At(Input, "scan", "PMTs")'
         /\ At(Input, "scan", "Entered")' => state' = "Init"
<1>1. todo[Input] = <<>>
  BY DEF Events, Watcher, TimerTick, FrontendLocked, PATEvent, PMTEvent, SDTEvent, NITEvent,
         Arrives, Call, Idle
<1>2. todo'[User] = todo[User]
  BY InputIs DEF Events, Watcher, TimerTick, FrontendLocked, PATEvent, PMTEvent, SDTEvent, NITEvent,
         Arrives, Call, tuning, CallsFit
<1>3. ASSUME NEW step \in {"scan", "check"}, NEW e, Call(Input, <<<<step, e>>>>),
             step = "scan" => e \notin {"PMTs"}, step = "scan" /\ e = "Entered" => state' = "Init"
      PROVE  /\ NamesIn({"scan", "again", "check"})' /\ ~At(Input, "scan", "PMTs")'
             /\ At(Input, "scan", "Entered")' => state' = "Init"
  <2>1. PICK b : b = <<step, e>>
    OBVIOUS
  <2>2. PICK q : q = <<b>>
    OBVIOUS
  <2>3. q # <<>> /\ Head(q) = b /\ Len(q) = 1 /\ q[1] = b /\ b[1] = step /\ b[2] = e
    BY <2>1, <2>2
  <2>4. todo'[Input] = q
    BY <1>3, <2>1, <2>2, InputIs DEF Call, CallsFit
  <2>5. \A x, y : b = <<x, y>> => x = step /\ y = e
    BY <2>3
  <2>6. \A i \in 1..Len(q) : q[i][1] \in {"scan", "again", "check"}
    BY <2>3
  <2>7. NamesIn({"scan", "again", "check"})'
    BY <2>4, <2>6 DEF NamesIn
  <2> QED
    BY <1>3, <2>3, <2>4, <2>5, <2>7 DEF At
<1>4. ASSUME NEW e \in {"Tick", "PAT"}, NEW then \in {"again", "check"},
             Call(Input, <<<<"scan", e>>, <<then, None>>>>)
      PROVE  /\ NamesIn({"scan", "again", "check"})' /\ ~At(Input, "scan", "PMTs")'
             /\ At(Input, "scan", "Entered")' => state' = "Init"
  <2>1. PICK b : b = <<"scan", e>>
    OBVIOUS
  <2>2. PICK c : c = <<then, None>>
    OBVIOUS
  <2>3. PICK q : q = <<b, c>>
    OBVIOUS
  <2>4. /\ q # <<>> /\ Head(q) = b /\ Len(q) = 2 /\ q[1] = b /\ q[2] = c
        /\ b[1] = "scan" /\ b[2] = e /\ c[1] = then
    BY <2>1, <2>2, <2>3
  <2>5. todo'[Input] = q
    BY <1>4, <2>1, <2>2, <2>3, InputIs DEF Call, CallsFit
  <2>6. \A x, y : b = <<x, y>> => y = e
    BY <2>4
  <2>7. \A i \in 1..Len(q) : q[i][1] \in {"scan", "again", "check"}
    BY <2>4
  <2>8. NamesIn({"scan", "again", "check"})'
    BY <2>5, <2>7 DEF NamesIn
  <2> QED
    BY <1>4, <2>4, <2>5, <2>6, <2>8 DEF At
<1>5. CASE NITEvent
  <2>1. todo'[Input] = <<>>
    BY <1>1, <1>5 DEF NITEvent, tuning
  <2> QED
    BY <1>1, <1>2, <2>1, NoStep DEF At, Idle, NamesIn
<1>6. CASE TimerTick
  BY <1>1, <1>2, <1>4, <1>6 DEF TimerTick, Arrives
<1>7. CASE PATEvent
  BY <1>1, <1>2, <1>4, <1>7 DEF PATEvent, Arrives
<1>8. CASE FrontendLocked
  BY <1>1, <1>2, <1>3, <1>8 DEF FrontendLocked, Arrives
<1>9. CASE PMTEvent
  BY <1>1, <1>2, <1>3, <1>9 DEF PMTEvent, Arrives
<1>10. CASE SDTEvent
  BY <1>1, <1>2, <1>3, <1>10 DEF SDTEvent, Arrives
<1>11. CASE Watcher
  BY <1>1, <1>2, <1>3, <1>11 DEF Watcher, Arrives, Entered
<1> QED
  BY <1>5, <1>6, <1>7, <1>8, <1>9, <1>10, <1>11 DEF Events

\* What the machine visits, step by step.
LEMMA VisitsStay ==
  ASSUME ScanKnown, Visited, [Next]_vars
  PROVE  /\ visits' \in Nat
         /\ state' \in {"WaitingForTables", "WaitingForNIT"} => visits' # 0
         /\ state' \in Visiting => locked'
         /\ state' = "NextMux" /\ visits' = 0 => Blank'
<1> USE DEF Visiting
<1>1. /\ visits \in Nat
      /\ state \in {"WaitingForTables", "WaitingForNIT"} => visits # 0
      /\ state \in Visiting => locked
      /\ state = "NextMux" /\ visits = 0 => Blank
  BY DEF Visited
<1>2. ASSUME UNCHANGED <<locked, visits>>,
             \/ state' = state
             \/ state \in Visiting \ {"NextMux"} /\ state' \in Visiting
             \/ state' \notin Visiting,
             state = "NextMux" => UNCHANGED <<table, count>>
      PROVE  /\ visits' \in Nat
             /\ state' \in {"WaitingForTables", "WaitingForNIT"} => visits' # 0
             /\ state' \in Visiting => locked'
             /\ state' = "NextMux" /\ visits' = 0 => Blank'
  BY <1>1, <1>2 DEF Blank
<1>3. CASE Begin
  BY <1>3 DEF Begin, Goto, Blank
<1>4. CASE WaitForTables
  <2>1. state = "NextMux" /\ visits' = visits + 1 /\ locked' = locked /\ state' = "WaitingForTables"
    BY <1>4, WaitsInNextMux DEF WaitForTables, Quietly, Goto
  <2> QED
    BY <1>1, <2>1
<1>5. CASE NextEntry \/ NextParams \/ TuneFrontend \/ LockedOn \/ NoLock
  BY <1>2, <1>5 DEF NextEntry, NextParams, TuneFrontend, LockedOn, NoLock, On, Tick, Goto,
     Quietly, list, machine, history
<1>6. CASE TablesEntered \/ NITEntered \/ Cancelled
  BY <1>2, <1>6 DEF TablesEntered, NITEntered, Cancelled, On, Stay, Goto, Quietly, list, machine,
     history
<1>7. CASE TableReceived
  BY <1>2, <1>7 DEF TableReceived, On, Stay, Goto, Quietly, history
<1>8. CASE NoTables \/ NITDone
  BY <1>2, <1>8 DEF NoTables, NITDone, Tick, On, Stay, Goto, Quietly, history
<1>9. CASE Cancel \/ Stop \/ Restore \/ Ignored \/ CheckPMTs \/ TimerAgain
  <2>1. CASE Stop
    <3>1. state = "Stopping" /\ state' = state /\ visits' = visits
      BY <2>1 DEF Stop, On, machine, history
    <3> QED
      BY <1>1, <3>1
  <2>2. CASE ~Stop
    BY <1>2, <1>9, <2>2 DEF Cancel, Restore, Ignored, CheckPMTs, TimerAgain, Stay, Goto, Quietly,
       list, machine, history
  <2> QED
    BY <2>1, <2>2
<1>10. CASE Finish
  BY <1>10 DEF Finish
<1>11. CASE Events
  <2>1. UNCHANGED <<locked, visits>>
    BY <1>11 DEF Events, Watcher, TimerTick, FrontendLocked, PATEvent, PMTEvent, SDTEvent, NITEvent,
       Arrives, Quietly, tuning, history
  <2>2. (state' = state \/ state' = "Init") /\ (state = "NextMux" => UNCHANGED <<table, count>>)
    BY <1>11 DEF Events, Watcher, TimerTick, FrontendLocked, PATEvent, PMTEvent, SDTEvent, NITEvent,
       machine
  <2> QED
    BY <1>2, <2>1, <2>2
<1>12. CASE Command \/ FillList \/ Start
  BY <1>2, <1>12 DEF Command, Scan, CancelScan, Select, SetCurrentService, FillList, Start, tuning,
     machine, history
<1>13. CASE TuneStep
  BY <1>2, <1>13 DEF TuneStep, Follow, Quietly, TuningStep, Enable, FindMultiplex, RetuneMultiplex,
     LoadCache, TuneMultiplex, Announce, SetCurrent, Crash, machine, history
<1>14. CASE UNCHANGED vars
  BY <1>2, <1>14 DEF vars, tuning, machine, history
<1> QED
  BY <1>3, <1>4, <1>5, <1>6, <1>7, <1>8, <1>9, <1>10, <1>11, <1>12, <1>13, <1>14
     DEF Next, Step, MachineStep

\* A command that fills the list or starts a scan leaves the tuning alone.
LEMMA UserFills ==
  ASSUME CallsFit, FillList \/ Start
  PROVE  ~Tunes(User)' /\ todo'[Input] = todo[Input]
<1>1. PICK step, e : step \in {"list", "start"} /\ Doing(User, step, e) /\ Then(User, <<>>)
  BY DEF FillList, Start
<1>2. PICK a : a = <<step, e>>
  OBVIOUS
<1>3. a[1] = step
  BY <1>2
<1>4. Takes(User, a, <<>>)
  BY <1>1, <1>2, Nothing, InputIs DEF Takes, Doing
<1>5. /\ CallsFit' /\ todo'[Input] = todo[Input]
      /\ todo'[User] = <<>> \/ Follows(User, a, Head(todo'[User]))
  BY <1>4, Taken, InputIs
<1>6. todo'[User] # <<>> => todo'[User][1][1] = "start"
  <2>1. SUFFICES ASSUME todo'[User] # <<>> PROVE todo'[User][1][1] = "start"
    OBVIOUS
  <2>2. IsSeq(todo'[User])
    BY <1>5, InputIs DEF CallsFit, CallOf
  <2>3. PICK b : b = todo'[User][1]
    OBVIOUS
  <2>4. Head(todo'[User]) = b
    BY <2>1, <2>2, <2>3, SeqFacts
  <2>5. Follows(User, a, b)
    BY <1>5, <2>1, <2>4
  <2> QED
    BY <1>1, <1>3, <2>3, <2>5, AfterStep
<1> QED
  BY <1>5, <1>6, UserTunesNext

LEMMA TunesNext ==
  CallsFit' => (Tunes(Input)' <=> /\ todo'[Input] # <<>>
                                  /\ todo'[Input][1][1] \in {"disable", "retune", "load", "tune",
                                       "announce", "enable", "frontend", "restore"})
<1>1. (CallsFit => (Tunes(Input) <=> /\ todo[Input] # <<>>
                                     /\ todo[Input][1][1] \in {"disable", "retune", "load", "tune",
                                          "announce", "enable", "frontend", "restore"}))'
  <2>1. CallsFit => (Tunes(Input) <=> /\ todo[Input] # <<>>
                                      /\ todo[Input][1][1] \in {"disable", "retune", "load", "tune",
                                           "announce", "enable", "frontend", "restore"})
    BY InputTunes
  <2> QED
    BY <2>1, PTL
<1> QED
  BY <1>1

\* When the first of new parameters or of a multiplex are to be tuned, the
\* input thread tunes.
LEMMA StartsTuning ==
  ASSUME ScanKnown, (NextParams /\ ~Then(Input, Entered)) \/ LockedOn
  PROVE  Tunes(Input)' /\ todo'[User] = todo[User]
<1>1. CallsFit
  BY DEF ScanKnown
<1>2. PICK e : Doing(Input, "scan", e) /\ \/ NextParams /\ ~Then(Input, Entered) /\ e = "Next"
                                          \/ LockedOn
  BY DEF NextParams, LockedOn, On
<1>3. PICK a : a = <<"scan", e>>
  OBVIOUS
<1>4. a[1] = "scan" /\ ~Idle(Input) /\ Head(todo[Input]) = a
  BY <1>2, <1>3 DEF Doing
<1>5. \E p : Then(Input, p) /\ Replaces(Input, p, a) /\ p # <<>> /\ p[1] = <<"disable", None>>
  <2>1. CASE LockedOn
    <3>1. PICK m : Then(Input, MultiplexSteps(m) \o <<<<"wait", None>>>>)
      BY <2>1 DEF LockedOn
    <3>2. PICK p : p = MultiplexSteps(m) \o <<<<"wait", None>>>>
      OBVIOUS
    <3>3. Replaces(Input, p, a) /\ p # <<>> /\ p[1] = <<"disable", None>>
      BY <1>4, <3>2, LockGoesOn
    <3> QED
      BY <3>1, <3>2, <3>3
  <2>2. CASE NextParams /\ ~Then(Input, Entered)
    <3>1. PICK m : Then(Input, <<<<"disable", None>>, <<"frontend", m>>>>)
      BY <2>2 DEF NextParams
    <3>2. PICK p : p = <<<<"disable", None>>, <<"frontend", m>>>>
      OBVIOUS
    <3>3. p # <<>> /\ p[1] = <<"disable", None>>
      BY <3>2
    <3>4. Replaces(Input, p, a)
      BY <1>4, <3>2, ScanGoesOn
    <3> QED
      BY <3>1, <3>2, <3>3, <3>4
  <2> QED
    BY <1>2, <2>1, <2>2
<1>6. PICK p : Then(Input, p) /\ Replaces(Input, p, a) /\ p # <<>> /\ p[1] = <<"disable", None>>
  BY <1>5
<1>7. Takes(Input, a, p)
  BY <1>4, <1>6, InputIs DEF Takes
<1>8. CallsFit' /\ todo'[Input] # <<>> /\ Head(todo'[Input]) = p[1] /\ todo'[User] = todo[User]
  BY <1>1, <1>6, <1>7, Taken, InputIs
<1>9. IsSeq(todo'[Input])
  BY <1>8, InputIs DEF CallsFit, CallOf
<1>10. todo'[Input][1] = <<"disable", None>>
  BY <1>6, <1>8, <1>9, SeqFacts
<1>11. PICK b : b = <<"disable", None>>
  OBVIOUS
<1>12. b[1] = "disable"
  BY <1>11
<1> QED
  BY <1>8, <1>10, <1>11, <1>12, TunesNext

\* A step of a call of the user's leaves the input thread's alone.
LEMMA CommandCalls ==
  ASSUME CallsFit, Command
  PROVE  todo'[Input] = todo[Input] /\ UNCHANGED <<machine, history>>
  BY InputIs DEF Command, Scan, CancelScan, Select, SetCurrentService, Call, CallsFit, tuning

\* The machine waits for tables between the calls of the input thread only.
LEMMA NamesStay ==
  ASSUME ScanKnown, Visited, [Next]_vars, state' = "WaitingForTables"
  PROVE  NamesIn({"scan", "again", "check"})'
<1> DEFINE N == {"scan", "again", "check"}
<1>1. CallsFit
  BY DEF ScanKnown
<1>2. state = "WaitingForTables" => NamesIn(N)
  BY DEF Visited
<1>3. ASSUME state' = state, todo'[Input] = todo[Input] PROVE NamesIn(N)'
  BY <1>2, <1>3 DEF NamesIn
<1>4. CASE UNCHANGED vars
  BY <1>3, <1>4 DEF vars, tuning, machine
<1>5. CASE OrdinaryStep
  BY <1>1, <1>5, AreOrdinary, OrdinaryGives
<1>6. CASE NextParams \/ LockedOn \/ Stop
  BY <1>6 DEF NextParams, LockedOn, Stop, On, machine
<1>7. CASE Restore
  <2>1. todo[Input] # <<>> /\ todo[Input][1][1] = "restore" /\ IsSeq(todo[Input])
    BY <1>1, <1>7, DoingAt, InputIs DEF Restore, CallsFit, CallOf
  <2>2. Has("restore")
    BY <2>1, SeqFacts DEF Has
  <2> QED
    BY <1>7, <2>2 DEF Restore, machine, ScanKnown, StateFits
<1>8. CASE Events
  BY <1>1, <1>8, EventNames
<1>9. CASE Command
  BY <1>1, <1>3, <1>9, CommandCalls DEF machine
<1>10. CASE FillList \/ Start
  <2>1. state' = state
    BY <1>10 DEF FillList, Start, machine
  <2> QED
    BY <1>1, <1>3, <1>10, <2>1, UserFills
<1>11. CASE TuneStep
  <2>1. state' = state
    BY <1>11 DEF TuneStep, machine
  <2>2. PICK t \in Thread : TuningStep(t) \/ Follow(t)
    BY <1>11 DEF TuneStep
  <2>3. CASE todo' = todo
    BY <1>3, <2>1, <2>3
  <2>4. ASSUME NEW a, NEW p, Takes(t, a, p), t = User PROVE todo'[Input] = todo[Input]
    BY <1>1, <2>4, Taken, InputIs
  <2>5. ASSUME NEW a, NEW p, Takes(t, a, p), t = Input,
               a[1] \in {"disable", "retune", "load", "tune", "announce", "enable"}
        PROVE  FALSE
    <3>1. todo[Input] # <<>> /\ Head(todo[Input]) = a /\ IsSeq(todo[Input])
      BY <1>1, <2>5, InputIs DEF Takes, Idle, CallsFit, CallOf
    <3>2. todo[Input][1] = a /\ 1 \in 1..Len(todo[Input])
      BY <3>1, SeqFacts
    <3>3. a[1] \in N
      BY <1>2, <2>1, <3>2 DEF NamesIn
    <3> QED
      BY <2>5, <3>3
  <2>6. t = User \/ t = Input
    BY <2>2 DEF Thread
  <2> QED
    BY <1>1, <1>3, <2>1, <2>2, <2>3, <2>4, <2>5, <2>6, TuningTakes
<1> QED
  BY <1>4, <1>5, <1>6, <1>7, <1>8, <1>9, <1>10, <1>11 DEF Next, Step, MachineStep, OrdinaryStep

LEMMA VisitedStays == ASSUME ScanKnown, Visited, [Next]_vars PROVE Visited'
<1>1. state' = "WaitingForTables" => NamesIn({"scan", "again", "check"})'
  BY NamesStay
<1> QED
  BY <1>1, VisitsStay DEF Visited

TuningNames == {"enable", "disable", "find", "retune", "load", "tune", "announce", "current",
                "follow"}

LEMMA TuningDoes ==
  ASSUME NEW t, TuningStep(t) \/ Follow(t)
  PROVE  \E step \in TuningNames : \E x : Doing(t, step, x)
<1>1. Enable(t) => Doing(t, "enable", None) \/ Doing(t, "disable", None)
  <2>1. SUFFICES ASSUME Enable(t) PROVE Doing(t, "enable", None) \/ Doing(t, "disable", None)
    OBVIOUS
  <2>2. PICK on \in BOOLEAN : Doing(t, IF on THEN "enable" ELSE "disable", None)
    BY <2>1 DEF Enable
  <2>3. CASE on
    BY <2>2, <2>3
  <2>4. CASE ~on
    BY <2>2, <2>4
  <2> QED
    BY <2>3, <2>4
<1>2. /\ FindMultiplex(t) => \E s \in Service : Doing(t, "find", s)
      /\ SetCurrent(t) => \E s \in Service : Doing(t, "current", s)
      /\ LoadCache(t) => \E m \in Mux : Doing(t, "load", m)
      /\ TuneMultiplex(t) => \E m \in Mux : Doing(t, "tune", m)
      /\ Announce(t) => \E m \in Mux : Doing(t, "announce", m)
      /\ RetuneMultiplex(t) => Doing(t, "retune", None)
      /\ Follow(t) => Doing(t, "follow", None)
  BY DEF FindMultiplex, SetCurrent, LoadCache, TuneMultiplex, Announce, RetuneMultiplex, Follow
<1> QED
  BY <1>1, <1>2 DEF TuningStep, TuningNames

\* A step of a tuning is one of those that tune.
LEMMA UserTuningNow ==
  ASSUME CallsFit, TuningStep(User) \/ Follow(User), ~Tunes(User) PROVE FALSE
<1>1. PICK step, x : step \in TuningNames /\ Doing(User, step, x)
  BY TuningDoes
<1>2. todo[User] # <<>> /\ todo[User][1][1] = step
  BY <1>1, DoingAt, InputIs
<1>3. step \in UserSteps
  <2>1. IsSeq(todo[User]) /\ \A i \in 1..Len(todo[User]) : todo[User][i][1] \in UserSteps
    BY InputIs DEF CallsFit, CallOf, StepsOf
  <2>2. 1 \in 1..Len(todo[User])
    BY <1>2, <2>1, SeqFacts
  <2> QED
    BY <1>2, <2>1, <2>2
<1> QED
  BY <1>1, <1>2, <1>3, UserTunes DEF TuningNames

\* The machine comes to wait for tables when it was about to.
LEMMA ComesToWait ==
  ASSUME ScanKnown, OrdinaryStep, state' = "WaitingForTables"
  PROVE  Has("wait") \/ state = "WaitingForTables"
<1>1. CASE WaitForTables
  BY <1>1, WaitsInNextMux
<1>2. CASE Begin \/ NextEntry \/ TuneFrontend \/ NoLock \/ TablesEntered \/ NoTables
           \/ NITEntered \/ NITDone \/ (NextParams /\ Then(Input, Entered))
  BY <1>2 DEF Begin, NextEntry, TuneFrontend, NoLock, TablesEntered, NoTables, NITEntered, NITDone,
     NextParams, On, Goto, Stay, Tick, machine
<1>3. CASE TableReceived
  BY <1>3 DEF TableReceived, On, Goto, Stay
<1>4. CASE Cancel \/ Cancelled \/ Finish \/ Ignored \/ CheckPMTs \/ TimerAgain
  BY <1>4 DEF Cancel, Cancelled, Finish, Ignored, CheckPMTs, TimerAgain, On, Goto, Stay, machine
<1> QED
  BY <1>1, <1>2, <1>3, <1>4 DEF OrdinaryStep

LEMMA UserWaitsStays ==
  ASSUME ScanKnown, Visited, UserWaits, [Next]_vars PROVE UserWaits'
<1> DEFINE W == Has("wait") \/ state = "WaitingForTables"
<1>1. SUFFICES ASSUME ~raced' PROVE OneTunes' /\ (W' => ~Tunes(User)')
  BY DEF UserWaits
<1>2. CallsFit /\ ScanKnown' /\ CallsFit'
  BY NextKnown DEF ScanKnown
<1>3. ~raced
  BY <1>1 DEF Next, Race, vars
<1>4. OneTunes' /\ (W => ~Tunes(User))
  BY <1>1, <1>3, OneTunesNow DEF UserWaits
<1>5. SUFFICES ASSUME W', ~Tunes(Input)' PROVE ~Tunes(User)'
  BY <1>4 DEF OneTunes
<1>6. ASSUME todo'[User] = todo[User], W PROVE ~Tunes(User)'
  BY <1>4, <1>6 DEF Tunes
<1>7. NamesIn({"scan", "again", "check"})' => ~Has("wait")'
  BY DEF NamesIn, Has
<1>8. CASE UNCHANGED vars
  BY <1>5, <1>6, <1>8 DEF vars, tuning, machine, Has
<1>9. CASE OrdinaryStep
  <2>1. todo'[User] = todo[User] /\ ~Has("wait")'
    BY <1>2, <1>7, <1>9, AreOrdinary, OrdinaryGives
  <2>2. W
    BY <1>5, <1>9, <2>1, ComesToWait
  <2> QED
    BY <1>6, <2>1, <2>2
<1>10. CASE (NextParams /\ ~Then(Input, Entered)) \/ LockedOn
  BY <1>5, <1>10, StartsTuning
<1>11. CASE Stop \/ Restore
  <2>1. state' = "Stopping"
    <3>1. CASE Stop
      BY <3>1 DEF Stop, On, machine
    <3>2. CASE Restore
      <4>1. todo[Input] # <<>> /\ todo[Input][1][1] = "restore" /\ IsSeq(todo[Input])
        BY <1>2, <3>2, DoingAt, InputIs DEF Restore, CallsFit, CallOf
      <4>2. Has("restore")
        BY <4>1, SeqFacts DEF Has
      <4> QED
        BY <3>2, <4>2 DEF Restore, machine, ScanKnown, StateFits
    <3> QED
      BY <1>11, <3>1, <3>2
  <2>2. Has("wait")' => state' = "NextMux"
    BY <1>2 DEF ScanKnown, StateFits
  <2> QED
    BY <1>5, <2>1, <2>2
<1>12. CASE Events
  <2>1. todo'[User] = todo[User] /\ ~Has("wait")'
    BY <1>2, <1>7, <1>12, EventNames
  <2>2. state' = state \/ state' = "Init"
    BY <1>12 DEF Events, Watcher, TimerTick, FrontendLocked, PATEvent, PMTEvent, SDTEvent,
       NITEvent, machine
  <2> QED
    BY <1>5, <1>6, <2>1, <2>2
<1>13. CASE Command
  <2>1. W
    BY <1>2, <1>5, <1>13, CommandCalls DEF Has, machine
  <2>2. state \in {"NextMux", "WaitingForTables"} /\ locked
    BY <2>1 DEF ScanKnown, StateFits, Visited, Visiting
  <2>3. CancelScan
    BY <1>13, <2>2 DEF Command, Scan, Select, SetCurrentService
  <2> QED
    BY <1>6, <2>1, <2>3 DEF CancelScan, tuning
<1>14. CASE FillList \/ Start
  BY <1>2, <1>14, UserFills
<1>15. CASE TuneStep
  <2>1. state' = state
    BY <1>15 DEF TuneStep, machine
  <2>2. PICK t \in Thread : TuningStep(t) \/ Follow(t)
    BY <1>15 DEF TuneStep
  <2>3. CASE todo' = todo
    BY <1>5, <1>6, <2>1, <2>3 DEF Has
  <2>4. ASSUME NEW a, NEW p, Takes(t, a, p), t = User PROVE FALSE
    <3>1. todo'[Input] = todo[Input]
      BY <1>2, <2>4, Taken, InputIs
    <3>2. W
      BY <1>5, <2>1, <3>1 DEF Has
    <3> QED
      BY <1>2, <1>4, <2>2, <2>4, <3>2, UserTuningNow
  <2>5. ASSUME NEW a, NEW p, Takes(t, a, p), t = Input,
               \A i \in 1..Len(p) : p[i][1] \in {"load", "tune", "announce", "enable"}
        PROVE  ~Tunes(User)'
    <3>1. /\ todo'[User] = todo[User]
          /\ \A i \in 1..Len(todo'[Input]) :
               \/ \E j \in 1..Len(p) : todo'[Input][i] = p[j]
               \/ \E j \in 2..Len(todo[Input]) : todo'[Input][i] = todo[Input][j]
      BY <1>2, <2>5, Taken, InputIs
    <3>2. Has("wait")' => Has("wait")
      <4>1. SUFFICES ASSUME Has("wait")' PROVE Has("wait")
        OBVIOUS
      <4>2. PICK i \in 1..Len(todo'[Input]) : todo'[Input][i][1] = "wait"
        BY <4>1 DEF Has
      <4>3. PICK j \in 2..Len(todo[Input]) : todo'[Input][i] = todo[Input][j]
        BY <2>5, <3>1, <4>2
      <4>4. j \in 1..Len(todo[Input])
        OBVIOUS
      <4> QED
        BY <4>2, <4>3, <4>4 DEF Has
    <3> QED
      BY <1>5, <1>6, <2>1, <3>1, <3>2
  <2>6. t = User \/ t = Input
    BY <2>2 DEF Thread
  <2> QED
    BY <1>2, <2>2, <2>3, <2>4, <2>5, <2>6, TuningTakes
<1> QED
  BY <1>8, <1>9, <1>10, <1>11, <1>12, <1>13, <1>14, <1>15 DEF Next, Step, MachineStep, OrdinaryStep

-----------------------------------------------------------------------------
(* The table of the programs whose PMTs are awaited. *)

\* What the PAT of a multiplex lists.
Lists(p, S) ==
  /\ IsSeq(p) /\ IsFiniteSet(S) /\ Cardinality(S) \in Nat
  /\ Cardinality(S) <= MaxPMTs /\ Cardinality(S) <= Len(p)
  /\ \A k \in 1..Len(p) : p[k] \in S
  /\ \A s \in S : \E k \in 1..Len(p) : p[k] = s

LEMMA HereIs ==
  ASSUME PATsFit, tunedTo \in Mux
  PROVE  Lists(Programs[tunedTo], Here)
<1>1. PICK p : p = Programs[tunedTo]
  OBVIOUS
<1>2. p \in Seq(Nat \ {0})
  BY <1>1, ScanningAssumption
<1>3. IsSeq(p)
  BY <1>2 DEF IsSeq
<1>4. DOMAIN p = 1..Len(p) /\ Len(p) \in Nat
  BY <1>3, SeqFacts
<1>5. PICK n : n = Len(p)
  OBVIOUS
<1>6. PICK S : S = Here
  OBVIOUS
<1>7. S = {p[k] : k \in 1..n}
  BY <1>1, <1>4, <1>5, <1>6 DEF Here, ToSet
<1>8. p \in Surjection(1..n, S)
  <2>1. p \in [1..n -> S]
    <3>1. p = [k \in 1..n |-> p[k]]
      BY <1>2, <1>4, <1>5
    <3> QED
      BY <1>7, <3>1
  <2> QED
    BY <1>7, <2>1 DEF Surjection
<1>9. IsFiniteSet(1..n) /\ Cardinality(1..n) = n
  <2>1. n \in Nat
    BY <1>4, <1>5
  <2> QED
    BY <2>1, FS_Interval
<1>10. IsFiniteSet(S) /\ Cardinality(S) <= n
  BY <1>8, <1>9, FS_Surjection
<1>11. Cardinality(S) \in Nat
  BY <1>10, FS_CardinalityType
<1>12. Cardinality(S) <= MaxPMTs
  BY <1>6 DEF PATsFit, Here
<1> QED
  BY <1>1, <1>3, <1>5, <1>6, <1>7, <1>10, <1>11, <1>12 DEF Lists

\* No more entries than programs, and when there are as many, all of them.
LEMMA TableCounts ==
  ASSUME NEW S, NEW p, Lists(p, S), NEW q, IsSeq(q), \A i \in 1..Len(q) : q[i].id \in S,
         \A i, j \in 1..Len(q) : q[i].id = q[j].id => i = j
  PROVE  /\ Len(q) <= Cardinality(S)
         /\ Len(q) >= Cardinality(S) => \A s \in S : \E i \in 1..Len(q) : q[i].id = s
<1>1. PICK n : n = Len(q)
  OBVIOUS
<1>2. n \in Nat
  BY <1>1, SeqFacts
<1>3. PICK f : f = [i \in 1..n |-> q[i].id]
  OBVIOUS
<1>4. f \in [1..n -> S] /\ \A i, j \in 1..n : f[i] = f[j] => i = j
  BY <1>1, <1>3
<1>5. IsFiniteSet(S)
  BY DEF Lists
<1>6. n <= Cardinality(S) /\ (n >= Cardinality(S) => \A s \in S : \E i \in 1..n : f[i] = s)
  BY <1>2, <1>4, <1>5, Numbered
<1> QED
  BY <1>1, <1>3, <1>6

\* When the first entries have their PMTs, all programs have them.
LEMMA CheckSays ==
  ASSUME PATsFit, TableFits, AllReceived
  PROVE  Here \subseteq heard
<1>1. DOMAIN table = 1..Len(table) /\ Len(table) \in Nat
  BY SeqFacts DEF TableFits, Marked
<1>2. \A i \in 1..Len(table) : table[i].received => table[i].id \in heard
  BY DEF TableFits, Marked
<1>3. SUFFICES \A id \in Here : \E i \in 1..Len(table) : table[i].id = id /\ i \in 1..count
  <2>1. ASSUME NEW i \in 1..Len(table), i \in 1..count PROVE table[i].id \in heard
    BY <1>2, <2>1 DEF AllReceived
  <2> QED
    BY <1>3, <2>1
<1>4. CASE count = MaxPMTs
  <2>1. MaxPMTs \in Nat \ {0}
    BY ScanningAssumption
  <2>2. MaxPMTs \in 1..count
    BY <1>4, <2>1
  <2>3. MaxPMTs <= Len(table)
    BY <1>1, <2>2 DEF AllReceived
  <2>4. table # <<>>
    BY <1>1, <2>1, <2>3, NoStep
  <2>5. PICK p, S : p = Programs[tunedTo] /\ S = Here
    OBVIOUS
  <2>6. Lists(p, S)
    BY <2>4, <2>5, HereIs DEF TableFits, Marked
  <2>7. /\ Len(table) <= Cardinality(S)
        /\ Len(table) >= Cardinality(S) => \A s \in S : \E i \in 1..Len(table) : table[i].id = s
    BY <2>5, <2>6, TableCounts DEF TableFits, Marked
  <2>8. \A i \in 1..Len(table) : i \in 1..count
    BY <1>1, <1>4, <2>1, <2>6, <2>7 DEF Lists
  <2> QED
    BY <1>1, <2>1, <2>3, <2>5, <2>6, <2>7, <2>8 DEF Lists
<1>5. CASE count >= Len(table) /\ \A id \in Here : \E i \in 1..Len(table) : table[i].id = id
  <2>1. count \in Nat
    BY DEF TableFits, Marked
  <2>2. \A i \in 1..Len(table) : i \in 1..count
    BY <1>1, <1>5, <2>1
  <2> QED
    BY <1>5, <2>2
<1> QED
  BY <1>4, <1>5 DEF TableFits, Marked

\* Steps that leave the table alone.
LEMMA TableKeeps ==
  ASSUME TableFits, UNCHANGED <<table, count, heard, tunedTo>>,
         got' \subseteq Tables, got' # Tables,
         ("PMTs" \in got' \/ At(Input, "scan", "PMTs")') => Here \subseteq heard
  PROVE  TableFits'
BY DEF TableFits, Here

\* All of these ids are in the table.
Covers(t, ids) == \A k \in 1..Len(ids) : \E i \in 1..Len(t) : t[i].id = ids[k]

\* New entries are not received.
LEMMA FoundsMarked ==
  ASSUME NEW S, NEW p, Lists(p, S), NEW h, NEW t, Marked(t, S, h),
         NEW ids, IsSeq(ids), \A k \in 1..Len(ids) : ids[k] \in S,
         NEW r, r = FindOrAdd(t, ids)
  PROVE  Marked(r, S, h) /\ Covers(r, ids)
<1>1. IsFiniteSet(S) /\ Cardinality(S) <= MaxPMTs
  BY DEF Lists
<1>2. /\ IsSeq(t) /\ \A i \in 1..Len(t) : t[i].id \in S
      /\ \A i, j \in 1..Len(t) : t[i].id = t[j].id => i = j
  BY DEF Marked
<1>3. Founds(t, ids, r)
  BY <1>1, <1>2, FindOrAddIs
<1>4. Len(t) \in Nat /\ Len(r) \in Nat /\ Len(t) <= Len(r)
  BY <1>2, <1>3, SeqFacts DEF Founds
<1>5. ASSUME NEW i \in 1..Len(r)
      PROVE  /\ r[i] = [id |-> r[i].id, received |-> r[i].received]
             /\ r[i].id \in S /\ (r[i].received <=> r[i].id \in h)
  <2>1. CASE i > Len(t)
    <3>1. PICK e : e = r[i]
      OBVIOUS
    <3>2. /\ e = [id |-> e.id, received |-> FALSE]
          /\ \E k \in 1..Len(ids) : e.id = ids[k]
          /\ \A j \in 1..Len(t) : t[j].id # e.id
      BY <2>1, <3>1, <1>3 DEF Founds
    <3>3. e.received = FALSE
      BY <3>2
    <3>4. e.id \notin h
      BY <3>2 DEF Marked
    <3>5. e.id \in S
      BY <3>2
    <3> QED
      BY <3>1, <3>2, <3>3, <3>4, <3>5
  <2>2. CASE ~(i > Len(t))
    <3>1. i \in 1..Len(t)
      BY <1>4, <2>2
    <3>2. r[i] = t[i]
      BY <1>3, <3>1 DEF Founds
    <3> QED
      BY <3>1, <3>2 DEF Marked
  <2> QED
    BY <2>1, <2>2
<1>6. ASSUME NEW id \in h PROVE \E i \in 1..Len(r) : r[i].id = id
  <2>1. PICK i \in 1..Len(t) : t[i].id = id
    BY DEF Marked
  <2>2. i \in 1..Len(r) /\ r[i] = t[i]
    BY <1>3, <1>4 DEF Founds
  <2> QED
    BY <2>1, <2>2
<1>7. Covers(r, ids)
  BY <1>3 DEF Founds, Covers
<1> QED
  BY <1>3, <1>5, <1>6, <1>7 DEF Founds, Marked

\* A PMT that has come is marked in its entry.
LEMMA NowMarked ==
  ASSUME NEW S, NEW h, NEW r, Marked(r, S, h), NEW id \in S,
         \E i \in 1..Len(r) : r[i].id = id,
         NEW q, q = [i \in DOMAIN r |-> [r[i] EXCEPT !.received = @ \/ r[i].id = id]]
  PROVE  Marked(q, S, h \cup {id}) /\ Len(q) = Len(r) /\ \A i \in 1..Len(r) : q[i].id = r[i].id
<1>1. DOMAIN r = 1..Len(r) /\ Len(r) \in Nat
  BY SeqFacts DEF Marked
<1>2. PICK n : n = Len(r)
  OBVIOUS
<1>3. IsSeq(q) /\ Len(q) = n
  <2>1. q = [i \in 1..n |-> q[i]]
    BY <1>1, <1>2
  <2> QED
    BY <1>1, <1>2, <2>1, Listing
<1>4. ASSUME NEW i \in 1..n
      PROVE  /\ q[i].id = r[i].id
             /\ q[i] = [id |-> q[i].id, received |-> q[i].received]
             /\ q[i].id \in S /\ (q[i].received <=> q[i].id \in h \cup {id})
  <2>1. PICK x, y : x = r[i].id /\ y = r[i].received
    OBVIOUS
  <2>2. r[i] = [id |-> x, received |-> y] /\ x \in S /\ (y <=> x \in h)
    BY <1>2, <2>1 DEF Marked
  <2>3. PICK z : z = (y \/ x = id)
    OBVIOUS
  <2>4. q[i] = [id |-> x, received |-> z]
    BY <1>1, <1>2, <2>1, <2>2, <2>3
  <2>5. q[i].id = x /\ q[i].received = z
    BY <2>4
  <2>6. q[i] = [id |-> q[i].id, received |-> q[i].received]
    BY <2>4, <2>5
  <2>7. q[i].received <=> x \in h \cup {id}
    BY <2>2, <2>3, <2>5
  <2> QED
    BY <2>1, <2>2, <2>5, <2>6, <2>7
<1>5. \A i, j \in 1..n : q[i].id = q[j].id => i = j
  BY <1>2, <1>4 DEF Marked
<1>6. \A k \in h \cup {id} : \E i \in 1..n : q[i].id = k
  BY <1>2, <1>4 DEF Marked
<1>7. /\ \A i \in 1..Len(q) :
           /\ q[i] = [id |-> q[i].id, received |-> q[i].received]
           /\ q[i].id \in S /\ (q[i].received <=> q[i].id \in h \cup {id})
      /\ \A i, j \in 1..Len(q) : q[i].id = q[j].id => i = j
  BY <1>3, <1>4, <1>5
<1>8. \A k \in h \cup {id} : \E i \in 1..Len(q) : q[i].id = k
  BY <1>3, <1>6
<1>9. Marked(q, S, h \cup {id})
  BY <1>3, <1>7, <1>8 DEF Marked
<1> QED
  BY <1>2, <1>3, <1>4, <1>9

\* The PAT brings its programs into the table, and says how many they are.
LEMMA PATFits ==
  ASSUME PATsFit, TableFits, PATEvent, ~At(Input, "scan", "PMTs")'
  PROVE  TableFits'
<1>1. tunedTo \in Mux /\ UNCHANGED <<tunedTo, got, heard>>
  BY ScanningAssumption DEF PATEvent, Receiving, Arrives, Quietly, history
<1>2. PICK p, S : p = Programs[tunedTo] /\ S = Here
  OBVIOUS
<1>3. PICK r : r = FindOrAdd(table, p)
  OBVIOUS
<1>4. Lists(p, S) /\ Here' = S
  BY <1>1, <1>2, HereIs DEF Here
<1>5. table' = r /\ count' = Cardinality({k \in DOMAIN p : \E i \in DOMAIN r : r[i].id = p[k]})
  BY <1>2, <1>3 DEF PATEvent
<1>6. Marked(table, S, heard)
  BY <1>2 DEF TableFits
<1>7. Marked(r, S, heard) /\ \A k \in 1..Len(p) : \E i \in 1..Len(r) : r[i].id = p[k]
  <2>1. IsSeq(p) /\ \A k \in 1..Len(p) : p[k] \in S
    BY <1>4 DEF Lists
  <2>2. Marked(r, S, heard) /\ Covers(r, p)
    BY <1>3, <1>4, <1>6, <2>1, FoundsMarked
  <2> QED
    BY <2>2 DEF Covers
<1>8. DOMAIN p = 1..Len(p) /\ Len(p) \in Nat /\ DOMAIN r = 1..Len(r)
  BY <1>4, <1>7, SeqFacts DEF Lists, Marked
<1>9. {k \in DOMAIN p : \E i \in DOMAIN r : r[i].id = p[k]} = 1..Len(p)
  BY <1>7, <1>8
<1>10. count' = Len(p)
  <2>1. PICK n : n = Len(p)
    OBVIOUS
  <2>2. n \in Nat
    BY <1>8, <2>1
  <2>3. Cardinality(1..n) = n
    BY <2>2, FS_Interval
  <2> QED
    BY <1>5, <1>9, <2>1, <2>3
<1>11. Len(r) <= Cardinality(S)
  BY <1>4, <1>7, TableCounts DEF Marked
<1>12. count' \in Nat /\ count' >= Len(r)
  <2>1. Len(r) \in Nat
    BY <1>7, SeqFacts DEF Marked
  <2> QED
    BY <1>4, <1>8, <1>10, <1>11, <2>1 DEF Lists
<1>13. \A id \in S : \E i \in 1..Len(r) : r[i].id = id
  BY <1>4, <1>7 DEF Lists
<1>14. Marked(table, Here, heard)'
  BY <1>1, <1>4, <1>5, <1>7
<1> QED
  BY <1>1, <1>2, <1>4, <1>5, <1>12, <1>13, <1>14 DEF TableFits

\* A PMT finds or adds its program.
LEMMA PMTFits ==
  ASSUME PATsFit, TableFits, PMTEvent, ~At(Input, "scan", "PMTs")'
  PROVE  TableFits'
<1>1. tunedTo \in Mux /\ UNCHANGED <<tunedTo, got, count>>
  BY ScanningAssumption DEF PMTEvent, Receiving, Arrives, Quietly
<1>2. PICK p, S : p = Programs[tunedTo] /\ S = Here
  OBVIOUS
<1>3. PICK id \in S :
        /\ LET with == FindOrAdd(table, <<id>>)
           IN  table' = [i \in DOMAIN with |->
                           [with[i] EXCEPT !.received = @ \/ with[i].id = id]]
        /\ heard' = heard \cup {id}
  BY <1>2 DEF PMTEvent, Here
<1>4. PICK ids : ids = <<id>>
  OBVIOUS
<1>5. IsSeq(ids) /\ Len(ids) = 1 /\ ids[1] = id
  BY <1>4, Steps
<1>6. PICK r : r = FindOrAdd(table, ids)
  OBVIOUS
<1>7. PICK q : q = [i \in DOMAIN r |-> [r[i] EXCEPT !.received = @ \/ r[i].id = id]]
  OBVIOUS
<1>8. table' = q
  BY <1>3, <1>4, <1>6, <1>7
<1>9. Lists(p, S) /\ Here' = S
  BY <1>1, <1>2, HereIs DEF Here
<1>10. Marked(table, S, heard)
  BY <1>2 DEF TableFits
<1>11. \A k \in 1..Len(ids) : ids[k] \in S
  BY <1>5
<1>12. Marked(r, S, heard) /\ Covers(r, ids)
  BY <1>5, <1>6, <1>9, <1>10, <1>11, FoundsMarked
<1>13. \E i \in 1..Len(r) : r[i].id = id
  <2>1. 1 \in 1..Len(ids)
    BY <1>5
  <2> QED
    BY <1>5, <1>12, <2>1 DEF Covers
<1>14. Marked(q, S, heard \cup {id}) /\ Len(q) = Len(r) /\ \A i \in 1..Len(r) : q[i].id = r[i].id
  BY <1>7, <1>12, <1>13, NowMarked
<1>15. Marked(table, Here, heard)'
  BY <1>3, <1>8, <1>9, <1>14
<1>16. \/ count' = MaxPMTs
       \/ count' >= Len(q) /\ \A x \in S : \E i \in 1..Len(q) : q[i].id = x
  <2>1. CASE count = MaxPMTs
    BY <1>1, <2>1
  <2>2. CASE count >= Len(table) /\ \A x \in S : \E i \in 1..Len(table) : table[i].id = x
    <3>1. Len(q) \in Nat /\ Len(table) \in Nat /\ count \in Nat
      BY <1>10, <1>14, SeqFacts DEF Marked, TableFits
    <3>2. \A x \in S : \E i \in 1..Len(r) : r[i].id = x
      <4>1. PICK ms : ms = p
        OBVIOUS
      <4>2. /\ IsSeq(table) /\ \A i \in 1..Len(table) : table[i].id \in S
            /\ \A i, j \in 1..Len(table) : table[i].id = table[j].id => i = j
        BY <1>10 DEF Marked
      <4>3. Founds(table, ids, r)
        BY <1>5, <1>6, <1>9, <1>11, <4>2, FindOrAddIs DEF Lists
      <4>4. Len(table) <= Len(r) /\ \A i \in 1..Len(table) : r[i] = table[i]
        BY <4>3 DEF Founds
      <4>5. Len(r) \in Nat
        BY <1>12, SeqFacts DEF Marked
      <4>6. \A i \in 1..Len(table) : i \in 1..Len(r)
        BY <3>1, <4>4, <4>5
      <4> QED
        BY <2>2, <4>4, <4>6
    <3>3. Len(r) <= Cardinality(S) /\ Len(table) >= Cardinality(S)
      <4>1. Len(r) <= Cardinality(S)
        BY <1>9, <1>12, TableCounts DEF Marked
      <4>2. PICK f : f \in [S -> 1..Len(table)] /\ \A x \in S : table[f[x]].id = x
        <5>1. PICK g : g = [x \in S |-> CHOOSE i \in 1..Len(table) : table[i].id = x]
          OBVIOUS
        <5>2. \A x \in S : g[x] \in 1..Len(table) /\ table[g[x]].id = x
          BY <2>2, <5>1
        <5>3. g \in [S -> 1..Len(table)]
          BY <5>1, <5>2
        <5> QED
          BY <5>2, <5>3
      <4>3. PICK n : n = Len(table)
        OBVIOUS
      <4>4. f \in Injection(S, 1..n)
        BY <4>2, <4>3 DEF Injection, IsInjective
      <4>5. n \in Nat
        BY <3>1, <4>3
      <4>6. IsFiniteSet(1..n) /\ Cardinality(1..n) = n
        BY <4>5, FS_Interval
      <4>7. Cardinality(S) <= n
        BY <4>4, <4>6, FS_Injection
      <4> QED
        BY <1>9, <3>1, <4>1, <4>3, <4>7 DEF Lists
    <3>4. count >= Len(q)
      BY <1>9, <1>14, <2>2, <3>1, <3>3 DEF Lists
    <3> QED
      BY <1>1, <1>14, <3>2, <3>4
  <2> QED
    BY <1>2, <2>1, <2>2 DEF TableFits
<1>17. \/ count' = MaxPMTs
       \/ count' >= Len(table') /\ \A x \in Here' : \E i \in 1..Len(table') : table'[i].id = x
  BY <1>8, <1>9, <1>16
<1>18. count \in Nat /\ got \subseteq Tables /\ got # Tables
  BY DEF TableFits
<1>19. "PMTs" \in got' => Here' \subseteq heard'
  <2>1. "PMTs" \in got => S \subseteq heard
    BY <1>2 DEF TableFits
  <2> QED
    BY <1>1, <1>3, <1>9, <2>1
<1> QED
  BY <1>1, <1>15, <1>17, <1>18, <1>19 DEF TableFits

-----------------------------------------------------------------------------
(* What the machine does while it waits. *)

\* Nothing is tuned while the machine waits and nobody selects.
LEMMA NoTuneStep ==
  ASSUME CallsFit, Visited, state = "WaitingForTables", ~Tunes(User), TuneStep PROVE FALSE
<1>1. PICK t \in Thread : TuningStep(t) \/ Follow(t)
  BY DEF TuneStep
<1>2. CASE t = User
  BY <1>1, <1>2, UserTuningNow
<1>3. CASE t = Input
  <2>1. PICK step, x : step \in TuningNames /\ Doing(Input, step, x)
    BY <1>1, <1>3, TuningDoes
  <2>2. NamesIn({"scan", "again", "check"})
    BY DEF Visited
  <2>3. At(Input, step, x)
    BY <2>1 DEF Doing, At
  <2>4. step \in {"scan", "again", "check"}
    BY <2>2, <2>3, NamesAt
  <2> QED
    BY <2>1, <2>4 DEF TuningNames
<1> QED
  BY <1>1, <1>2, <1>3 DEF Thread

\* All that can happen while the machine goes on waiting.
LEMMA StillWaits ==
  ASSUME ScanKnown, Visited, [Next]_vars, ~WaitForTables, state' = "WaitingForTables"
  PROVE  /\ state = "WaitingForTables" /\ visits' = visits
         /\ \/ TablesEntered \/ TableReceived \/ NoTables \/ CheckPMTs \/ TimerAgain
            \/ Events \/ Command \/ FillList \/ Start \/ TuneStep \/ UNCHANGED vars
<1>1. CASE UNCHANGED vars
  BY <1>1 DEF vars, machine, history
<1>2. CASE TablesEntered \/ NoTables \/ CheckPMTs \/ TimerAgain
  <2>1. CASE CheckPMTs \/ TimerAgain
    BY <2>1 DEF CheckPMTs, TimerAgain, machine, history
  <2>2. CASE TablesEntered \/ NoTables
    BY <2>2 DEF TablesEntered, NoTables, On, Tick, history
  <2> QED
    BY <1>2, <2>1, <2>2
<1>3. CASE TableReceived
  BY <1>3 DEF TableReceived, On, history
<1>4. CASE Begin \/ NextEntry \/ NextParams \/ LockedOn \/ NoLock \/ NITEntered \/ Cancelled
  BY <1>4 DEF Begin, NextEntry, NextParams, LockedOn, NoLock, NITEntered, Cancelled, On, Goto,
     Stay, Tick, machine
<1>5. CASE NITDone \/ Cancel \/ Stop \/ Finish
  BY <1>5 DEF NITDone, Cancel, Stop, Finish, On, Goto, Stay, Tick, machine
<1>6. CASE Ignored
  BY <1>6 DEF Ignored, On, Stay
<1>7. CASE TuneFrontend \/ Restore
  <2>1. PICK step, x : step \in {"frontend", "restore"} /\ Doing(Input, step, x) /\ state' = state
    BY <1>7 DEF TuneFrontend, Restore, machine
  <2>2. NamesIn({"scan", "again", "check"}) /\ CallsFit
    BY <2>1 DEF Visited, ScanKnown
  <2>3. At(Input, step, x)
    BY <2>1 DEF Doing, At
  <2> QED
    BY <2>1, <2>2, <2>3, NamesAt
<1>8. CASE Events
  BY <1>8 DEF Events, Watcher, TimerTick, FrontendLocked, PATEvent, PMTEvent, SDTEvent, NITEvent,
     machine, history
<1>9. CASE Command
  BY <1>9, CommandCalls DEF ScanKnown, machine, history
<1>10. CASE FillList \/ Start \/ TuneStep
  BY <1>10 DEF FillList, Start, TuneStep, machine, history
<1> QED
  BY <1>1, <1>2, <1>3, <1>4, <1>5, <1>6, <1>7, <1>8, <1>9, <1>10 DEF Next, Step, MachineStep

\* The input thread has one next step.
LEMMA OneHead ==
  ASSUME NEW x, NEW y, At(Input, "scan", x), Doing(Input, "scan", y) PROVE x = y
<1>1. PICK b : b = <<"scan", x>>
  OBVIOUS
<1>2. PICK c : c = <<"scan", y>>
  OBVIOUS
<1>3. b = c /\ b[2] = x /\ c[2] = y
  BY <1>1, <1>2 DEF At, Doing
<1> QED
  BY <1>3

LEMMA OnlyScan ==
  ASSUME NEW x, At(Input, "scan", x), NEW step, step # "scan", NEW y, Doing(Input, step, y)
  PROVE  FALSE
<1>1. PICK b : b = <<"scan", x>>
  OBVIOUS
<1>2. PICK c : c = <<step, y>>
  OBVIOUS
<1>3. b = c /\ b[1] = "scan" /\ c[1] = step
  BY <1>1, <1>2 DEF At, Doing
<1> QED
  BY <1>3

\* When it has come to wait, it first makes everything ready.
LEMMA FirstReady ==
  ASSUME CallsFit, At(Input, "scan", "Entered"), Blank, TablesEntered
  PROVE  TableFits' /\ ~At(Input, "scan", "Entered")'
<1>1. /\ Doing(Input, "scan", "Entered") /\ Then(Input, <<>>)
      /\ got' = {} /\ heard' = {} /\ UNCHANGED <<table, count>>
  BY DEF TablesEntered, On, Stay
<1>2. CallsFit' /\ NamesIn({"again", "check"})'
  BY <1>1, ScanStays DEF Closing
<1>3. \A x : ~At(Input, "scan", x)'
  <2>1. \A step, x : At(Input, step, x)' => step \in {"again", "check"}
    BY <1>2, NamesNextAt
  <2> QED
    BY <2>1
<1>4. table' = <<>> /\ count' = MaxPMTs /\ MaxPMTs \in Nat
  BY <1>1, ScanningAssumption DEF Blank
<1>5. IsSeq(table') /\ Len(table') = 0
  BY <1>4, NoStep
<1>6. Marked(table, Here, heard)'
  BY <1>1, <1>5 DEF Marked
<1>7. got' \subseteq Tables /\ got' # Tables /\ "PMTs" \notin got'
  BY <1>1 DEF Tables
<1> QED
  BY <1>3, <1>4, <1>6, <1>7 DEF TableFits

\* A table, a tick or a check while it waits on.
LEMMA WaitsOn ==
  ASSUME PATsFit, CallsFit, TableFits, ~At(Input, "scan", "Entered"),
         TableReceived \/ NoTables \/ CheckPMTs \/ TimerAgain, state' = "WaitingForTables"
  PROVE  TableFits' /\ ~At(Input, "scan", "Entered")'
<1>1. ASSUME NEW step \in {"scan", "again", "check"}, NEW e, Doing(Input, step, e), Then(Input, <<>>)
      PROVE  \A x : ~At(Input, "scan", x)'
  <2>1. CallsFit' /\ NamesIn({"again", "check"})'
    BY <1>1, ScanStays DEF Closing
  <2>2. \A s, x : At(Input, s, x)' => s \in {"again", "check"}
    BY <2>1, NamesNextAt
  <2> QED
    BY <2>2
<1>2. CASE TableReceived
  <2>1. PICK k \in Tables :
          /\ Doing(Input, "scan", k) /\ got' = got \cup {k}
          /\ got' # Tables /\ Then(Input, <<>>)
          /\ UNCHANGED <<table, count, heard, tunedTo>>
    BY <1>2 DEF TableReceived, On, Stay, Goto, Quietly, history
  <2>2. got' \subseteq Tables /\ ("PMTs" \in got' => Here \subseteq heard)
    <3>1. k = "PMTs" => At(Input, "scan", "PMTs")
      BY <2>1 DEF Doing, At
    <3> QED
      BY <2>1, <3>1 DEF TableFits
  <2>3. \A x : ~At(Input, "scan", x)'
    BY <1>1, <2>1
  <2> QED
    BY <2>1, <2>2, <2>3, TableKeeps
<1>3. CASE NoTables
  <2>1. /\ Doing(Input, "scan", "Tick") /\ Then(Input, <<>>)
        /\ UNCHANGED <<table, count, heard, tunedTo, got>>
    BY <1>3 DEF NoTables, Tick, On, Stay, Goto, Quietly, history
  <2>2. \A x : ~At(Input, "scan", x)'
    BY <1>1, <2>1
  <2> QED
    BY <2>1, <2>2, TableKeeps DEF TableFits
<1>4. CASE TimerAgain
  <2>1. /\ Doing(Input, "again", None) /\ Then(Input, <<>>)
        /\ UNCHANGED <<table, count, heard, tunedTo, got>>
    BY <1>4 DEF TimerAgain, Quietly, history
  <2>2. \A x : ~At(Input, "scan", x)'
    BY <1>1, <2>1
  <2> QED
    BY <2>1, <2>2, TableKeeps DEF TableFits
<1>5. CASE CheckPMTs
  <2>1. /\ Doing(Input, "check", None) /\ UNCHANGED <<table, count, heard, tunedTo, got>>
        /\ \/ AllReceived /\ Then(Input, <<<<"scan", "PMTs">>>>)
           \/ Then(Input, <<>>)
    BY <1>5 DEF CheckPMTs, Quietly, machine, history
  <2>2. CASE Then(Input, <<>>)
    <3>1. \A x : ~At(Input, "scan", x)'
      BY <1>1, <2>1, <2>2
    <3> QED
      BY <2>1, <3>1, TableKeeps DEF TableFits
  <2>3. CASE AllReceived /\ Then(Input, <<<<"scan", "PMTs">>>>)
    <3>1. At(Input, "scan", "PMTs")'
      BY <2>1, <2>3, ScanGives
    <3>2. ~At(Input, "scan", "Entered")'
      <4>1. PICK b : b = <<"scan", "PMTs">>
        OBVIOUS
      <4>2. PICK c : c = <<"scan", "Entered">>
        OBVIOUS
      <4>3. b[2] = "PMTs" /\ c[2] = "Entered"
        BY <4>1, <4>2
      <4> QED
        BY <3>1, <4>1, <4>2, <4>3 DEF At
    <3>3. Here \subseteq heard
      BY <2>3, CheckSays
    <3> QED
      BY <2>1, <3>2, <3>3, TableKeeps DEF TableFits
  <2> QED
    BY <2>1, <2>2, <2>3
<1> QED
  BY <1>2, <1>3, <1>4, <1>5

\* The table of the first multiplex, at every step.
LEMMA FirstStays ==
  ASSUME PATsFit, ScanKnown, Visited, UserWaits, FirstFits, [Next]_vars
  PROVE  FirstFits'
<1>1. CallsFit
  BY DEF ScanKnown
<1>2. SUFFICES ASSUME ~raced', state' = "WaitingForTables", visits' = 1
               PROVE  IF At(Input, "scan", "Entered")' THEN Blank' ELSE TableFits'
  BY DEF FirstFits
<1>3. ~raced
  BY <1>2 DEF Next, Race, vars
<1>4. CASE WaitForTables
  <2>1. /\ Doing(Input, "wait", None) /\ Goto("WaitingForTables") /\ visits' = visits + 1
        /\ UNCHANGED <<table, count>> /\ state = "NextMux"
    BY <1>4, WaitsInNextMux DEF WaitForTables
  <2>2. At(Input, "scan", "Entered")'
    BY <1>1, <2>1, GotoGives
  <2>3. Blank
    <3>1. visits \in Nat /\ visits + 1 = 1
      BY <1>2, <2>1 DEF Visited
    <3>2. visits = 0
      BY <3>1
    <3> QED
      BY <2>1, <3>2 DEF Visited
  <2> QED
    BY <2>1, <2>2, <2>3 DEF Blank
<1>5. CASE ~WaitForTables
  <2>1. /\ state = "WaitingForTables" /\ visits = 1
        /\ \/ TablesEntered \/ TableReceived \/ NoTables \/ CheckPMTs \/ TimerAgain
           \/ Events \/ Command \/ FillList \/ Start \/ TuneStep \/ UNCHANGED vars
    BY <1>2, <1>5, StillWaits
  <2>2. ~Tunes(User)
    BY <1>3, <2>1 DEF UserWaits
  <2>3. IF At(Input, "scan", "Entered") THEN Blank ELSE TableFits
    BY <1>3, <2>1 DEF FirstFits
  <2>4. CASE TablesEntered
    <3>1. At(Input, "scan", "Entered")
      BY <2>4 DEF TablesEntered, On, Doing, At
    <3> QED
      BY <1>1, <2>3, <2>4, <3>1, FirstReady
  <2>5. CASE TableReceived \/ NoTables \/ CheckPMTs \/ TimerAgain
    <3>1. ~At(Input, "scan", "Entered")
      <4>1. TableReceived \/ NoTables => \E y : y # "Entered" /\ Doing(Input, "scan", y)
        BY DEF TableReceived, NoTables, Tick, On, Tables
      <4>2. CheckPMTs => Doing(Input, "check", None)
        BY DEF CheckPMTs
      <4>3. TimerAgain => Doing(Input, "again", None)
        BY DEF TimerAgain
      <4> QED
        BY <2>5, <4>1, <4>2, <4>3, OneHead, OnlyScan
    <3> QED
      BY <1>1, <1>2, <2>3, <2>5, <3>1, WaitsOn
  <2>6. CASE Events
    <3>1. /\ todo[Input] = <<>> /\ ~At(Input, "scan", "PMTs")'
          /\ ~At(Input, "scan", "Entered")'
      BY <1>1, <1>2, <2>6, EventNames
    <3>2. TableFits
      BY <2>3, <3>1 DEF At, Idle
    <3>3. CASE PATEvent
      BY <3>1, <3>2, <3>3, PATFits
    <3>4. CASE PMTEvent
      BY <3>1, <3>2, <3>4, PMTFits
    <3>5. CASE ~PATEvent /\ ~PMTEvent
      <4>1. UNCHANGED <<table, count, heard, tunedTo, got>>
        BY <2>6, <3>5 DEF Events, Watcher, TimerTick, FrontendLocked, SDTEvent, NITEvent, Arrives,
           Quietly, tuning, machine, history
      <4> QED
        BY <3>1, <3>2, <4>1, TableKeeps DEF TableFits
    <3> QED
      BY <3>1, <3>3, <3>4, <3>5
  <2>7. ASSUME UNCHANGED <<table, count, heard, tunedTo, got>>, todo'[Input] = todo[Input]
        PROVE  IF At(Input, "scan", "Entered")' THEN Blank' ELSE TableFits'
    <3>1. \A x : At(Input, "scan", x)' <=> At(Input, "scan", x)
      BY <2>7 DEF At, Idle
    <3>2. CASE At(Input, "scan", "Entered")
      BY <2>3, <2>7, <3>1, <3>2 DEF Blank
    <3>3. CASE ~At(Input, "scan", "Entered")
      BY <2>3, <2>7, <3>1, <3>3, TableKeeps DEF TableFits
    <3> QED
      BY <3>2, <3>3
  <2>8. CASE Command
    <3>1. todo'[Input] = todo[Input] /\ UNCHANGED <<table, count, heard, got>>
      BY <1>1, <2>8, CommandCalls DEF machine, history
    <3>2. tunedTo' = tunedTo
      BY <2>8 DEF Command, Scan, CancelScan, Select, tuning
    <3> QED
      BY <2>7, <3>1, <3>2
  <2>9. CASE FillList \/ Start
    <3>1. todo'[Input] = todo[Input]
      BY <1>1, <2>9, UserFills
    <3>2. UNCHANGED <<table, count, heard, tunedTo, got>>
      BY <2>9 DEF FillList, Start, machine, history
    <3> QED
      BY <2>7, <3>1, <3>2
  <2>10. CASE TuneStep
    BY <1>1, <2>1, <2>2, <2>10, NoTuneStep
  <2>11. CASE UNCHANGED vars
    BY <2>7, <2>11 DEF vars, tuning, machine, history
  <2> QED
    BY <2>1, <2>4, <2>5, <2>6, <2>8, <2>9, <2>10, <2>11
<1> QED
  BY <1>4, <1>5

LEMMA InitFirst == ASSUME Init PROVE FirstKnown
<1>1. PICK s \in {None} \cup {k \in Service : MuxOf[k] \in FirstRows} : TuningInit(s)
  BY DEF Init
<1>2. todo = [t \in Thread |-> <<>>] /\ state = "Stopped" /\ visits = 0
  BY <1>1 DEF TuningInit, Init
<1>3. \A t \in Thread : todo[t] = <<>>
  BY <1>2
<1>4. ~Tunes(User) /\ ~Tunes(Input)
  BY <1>3, NoStep, InputIs DEF Tunes
<1> QED
  BY <1>2, <1>4 DEF FirstKnown, Visited, Visiting, UserWaits, OneTunes, FirstFits

\* While the machine waits for the tables of the first multiplex of a scan,
\* and nobody has selected meanwhile, PMTsReceived has the programs of this
\* multiplex only, each once, and marks those whose PMTs have come; PMTCount
\* either reaches beyond all of them or is what none can reach.
THEOREM FirstIsKnown == ASSUME PATsFit PROVE Spec => []FirstKnown
<1>1. Init => FirstKnown
  BY InitFirst
<1>2. ScanKnown /\ FirstKnown /\ [Next]_vars => FirstKnown'
  BY VisitedStays, UserWaitsStays, FirstStays DEF FirstKnown
<1> QED
  BY <1>1, <1>2, ScanIsKnown, PTL DEF Spec

\* The step that leaves the first multiplex with everything received.
LEMMA LeavesComplete ==
  ASSUME ScanKnown, FirstKnown, [Next]_vars, state = "WaitingForTables", state' # state,
         got' = Tables, visits = 1, ~raced
  PROVE  heard = ToSet(Programs[tunedTo])
<1>1. CallsFit /\ Visited
  BY DEF ScanKnown, FirstKnown
<1>2. IF At(Input, "scan", "Entered") THEN Blank ELSE TableFits
  BY DEF FirstKnown, FirstFits
<1>3. \A step, x : At(Input, step, x) => step \in {"scan", "again", "check"}
  <2>1. NamesIn({"scan", "again", "check"})
    BY <1>1 DEF Visited
  <2> QED
    BY <1>1, <2>1, NamesAt
<1>4. TableReceived
  <2>1. CASE UNCHANGED vars
    BY <2>1 DEF vars, machine
  <2>2. CASE TableReceived
    BY <2>2
  <2>3. CASE Begin \/ NextEntry \/ NextParams \/ LockedOn \/ NoLock \/ NITEntered \/ Cancelled
    BY <2>3 DEF Begin, NextEntry, NextParams, LockedOn, NoLock, NITEntered, Cancelled, On, Tick
  <2>4. CASE NITDone \/ Stop \/ Ignored \/ TablesEntered
    BY <2>4 DEF NITDone, Stop, Ignored, TablesEntered, On, Tick, Stay
  <2>5. CASE TuneFrontend \/ Restore \/ CheckPMTs \/ TimerAgain
    BY <2>5 DEF TuneFrontend, Restore, CheckPMTs, TimerAgain, machine
  <2>6. CASE WaitForTables
    BY <2>6, WaitsInNextMux
  <2>7. CASE Finish
    BY <2>7 DEF Finish, Tables
  <2>8. CASE NoTables \/ Cancel
    <3>1. got' = got /\ \E y : y # "Entered" /\ Doing(Input, "scan", y)
      BY <2>8 DEF NoTables, Cancel, Tick, On
    <3>2. ~At(Input, "scan", "Entered")
      BY <3>1, OneHead
    <3> QED
      BY <1>2, <3>1, <3>2 DEF TableFits
  <2>9. CASE Events
    <3>1. got' = got
      BY <2>9 DEF Events, Watcher, TimerTick, FrontendLocked, PATEvent, PMTEvent, SDTEvent,
         NITEvent, machine
    <3>2. ~At(Input, "scan", "Entered")
      BY <1>1, <2>9, EventNames DEF At, Idle
    <3> QED
      BY <1>2, <3>1, <3>2 DEF TableFits
  <2>10. CASE Command
    BY <1>1, <2>10, CommandCalls DEF machine
  <2>11. CASE FillList \/ Start \/ TuneStep
    BY <2>11 DEF FillList, Start, TuneStep, machine
  <2> QED
    BY <2>1, <2>2, <2>3, <2>4, <2>5, <2>6, <2>7, <2>8, <2>9, <2>10, <2>11
       DEF Next, Step, MachineStep
<1>5. PICK k \in Tables : Doing(Input, "scan", k) /\ got' = got \cup {k}
  BY <1>4 DEF TableReceived, On
<1>6. At(Input, "scan", k) /\ ~At(Input, "scan", "Entered")
  BY <1>5, OneHead DEF Doing, At, Tables
<1>7. TableFits
  BY <1>2, <1>6
<1>8. Here \subseteq heard
  <2>1. "PMTs" \in got \/ k = "PMTs"
    BY <1>5 DEF Tables
  <2> QED
    BY <1>6, <1>7, <2>1 DEF TableFits
<1>9. heard \subseteq Here
  <2>1. PICK S : S = Here
    OBVIOUS
  <2>2. Marked(table, S, heard)
    BY <1>7, <2>1 DEF TableFits
  <2>3. ASSUME NEW id \in heard PROVE id \in S
    <3>1. PICK i \in 1..Len(table) : table[i].id = id
      BY <2>2 DEF Marked
    <3>2. table[i].id \in S
      BY <2>2 DEF Marked
    <3> QED
      BY <3>1, <3>2
  <2> QED
    BY <2>1, <2>3
<1> QED
  BY <1>8, <1>9 DEF Here

\* The first multiplex a scan locks to is only left as complete when the PMT of
\* every program in its PAT has come (CheckPMTsReceived), for any multiplexes
\* whose PATs PMTsReceived has room for, whatever order their tables come in.
THEOREM FirstIsComplete == ASSUME PATsFit PROVE Spec => FirstMultiplexComplete
<1>1. ScanKnown /\ FirstKnown /\ [Next]_vars =>
        [state = "WaitingForTables" /\ state' # state /\ got' = Tables /\ visits = 1 /\ ~raced
           => heard = ToSet(Programs[tunedTo])]_vars
  BY LeavesComplete
<1> QED
  BY <1>1, ScanIsKnown, FirstIsKnown, PTL DEF Spec, FirstMultiplexComplete

=============================================================================
