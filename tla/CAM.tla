--------------------------------- MODULE CAM ---------------------------------
(***************************************************************************)
(* The plugin for conditional access modules (plugins/cam.c, en50221.c):   *)
(* slots that are polled, sessions a module opens on them, and the CA PMTs *)
(* that tell a module which program to descramble. The poll and the PMTs   *)
(* both come on the input thread. The module (external) keeps the programs *)
(* it was told of. A transfer may fail at any time.                        *)
(***************************************************************************)
EXTENDS Integers, FiniteSets

CONSTANTS Slot,
          CA, MMI,          \* RI_CONDITIONAL_ACCESS_SUPPORT, RI_MMI
          Resource,         \* what a module may ask for, the two among it
          Known,            \* the resources there is a handler for
          Program,          \* program numbers
          Scrambled,        \* those with a CA descriptor,
          Compatible,       \* and those of a system the module supports
          Nothing, Released,
          MaxSessions,      \* MAX_SESSIONS
          MaxPrograms       \* CAM_PROG_MAX

ASSUME CAMAssumption ==
  /\ {CA, MMI} \subseteq Known /\ Known \subseteq Resource
  /\ Compatible \subseteq Scrambled /\ Scrambled \subseteq Program
  /\ MaxSessions \in Nat \ {0} /\ MaxPrograms \in Nat \ {0}
  /\ Nothing \notin Resource \cup Program
  /\ \A x \in {Nothing, Released} \cup Known : x \notin [ids : BOOLEAN, count : Int]

SessionIds == 1..MaxSessions

VARIABLES
  ready,     \* slots with a module that is ready, as the driver says
  active,    \* pb_active_slot
  table,     \* p_sessions
  service,   \* the program of the primary filter's service
  current,   \* currentPMT
  opens,     \* sessions the module takes for open
  owes,      \* sessions the module still has to confirm the closing of
  told,      \* the programs a module has been told of in a session
  half,      \* sessions whose opening failed half way
  misled,    \* sessions in which a CA PMT was lost, or one of another program was
             \* sent as an update of the current one
  crossed,   \* sessions both sides closed at once
  crashed

cam == <<ready, active, table, service, current, opens, owes, told,
         half, misled, crossed, crashed>>

module == <<opens, owes>>
pmts   == <<service, current>>

NoSession == [resource |-> Nothing, slot |-> Nothing, handle |-> Nothing,
              close |-> Nothing, data |-> Nothing]

CAMInit ==
  /\ ready = {} /\ active = {}
  /\ table = [i \in SessionIds |-> NoSession]
  /\ service \in Program /\ current = Nothing
  /\ opens = {} /\ owes = {} /\ told = [i \in SessionIds |-> {}]
  /\ half = {} /\ misled = {} /\ crossed = {}
  /\ crashed = FALSE

\* A handler of a closed session, and what it pointed to, stay in its entry.
Closed(e) == [e EXCEPT !.resource = Nothing,
                       !.data = IF e.close = Nothing THEN @ ELSE Released]

Allocated(i) == table[i].resource # Nothing
SessionsOf(s) == {i \in SessionIds : Allocated(i) /\ table[i].slot = s}

\* The sessions of a slot are closed here, and forgotten by the module.
CloseAll(s) ==
  /\ table' = [i \in SessionIds |-> IF i \in SessionsOf(s) THEN Closed(table[i]) ELSE table[i]]
  /\ opens' = opens \ SessionsOf(s) /\ owes' = owes \ SessionsOf(s)
  /\ half' = half \ SessionsOf(s) /\ misled' = misled \ SessionsOf(s)
  /\ crossed' = crossed \ SessionsOf(s)
  /\ told' = [i \in SessionIds |-> IF i \in SessionsOf(s) THEN {} ELSE told[i]]

Insert(s) ==
  /\ ~crashed /\ s \notin ready
  /\ ready' = ready \cup {s}
  /\ UNCHANGED <<active, table, module, pmts, told, half, misled, crossed, crashed>>

\* The module is taken out; the next poll finds the slot not ready.
Removed(s) ==
  /\ ~crashed /\ s \in ready
  /\ ready' = ready \ {s} /\ active' = active \ {s}
  /\ CloseAll(s)
  /\ UNCHANGED <<pmts, crashed>>

InitSlot(s) ==
  /\ ~crashed /\ s \in ready \ active
  /\ active' = active \cup {s}
  /\ UNCHANGED <<ready, table, module, pmts, told, half, misled, crossed, crashed>>

\* A transfer of the poll fails.
ResetSlot(s) ==
  /\ ~crashed /\ s \in active
  /\ active' = active \ {s}
  /\ CloseAll(s)
  /\ UNCHANGED <<ready, pmts, crashed>>

NewData(r) == IF r = CA THEN [ids |-> FALSE, count |-> 0] ELSE r

\* The entry is taken before the response is sent, and only filled after it:
\* a transfer that fails in between leaves it without its handler.
SessionOpen(s, r) ==
  LET free == {i \in SessionIds : ~Allocated(i)}
      i == CHOOSE x \in free : \A y \in free : x <= y
      taken == [table[i] EXCEPT !.resource = r, !.slot = s, !.close = Nothing]
      filled == [taken EXCEPT !.handle = r, !.data = NewData(r), !.close = r]
  IN
  /\ ~crashed /\ s \in active /\ free # {} /\ i # MaxSessions
  /\ \/ /\ r \in Known
        /\ table' = [table EXCEPT ![i] = filled]
        /\ opens' = opens \cup {i}
        /\ UNCHANGED <<half, owes>>
     \/ /\ r \notin Known
        /\ table' = [table EXCEPT ![i] = [taken EXCEPT !.resource = Nothing]]
        /\ UNCHANGED <<half, opens, owes>>
     \/ /\ table' = [table EXCEPT ![i] = taken]
        /\ half' = half \cup {i}
        /\ opens' \in {opens, opens \cup (IF r \in Known THEN {i} ELSE {})}
        /\ UNCHANGED owes
  /\ UNCHANGED <<ready, active, pmts, told, misled, crossed, crashed>>

----------------------------------------------------------------------------
(* CA PMTs. *)

CASessions == {i \in SessionIds : table[i].resource = CA}

\* Where a session was left half open there is no list of systems to look at.
Unusable(i) == table[i].data \in {Nothing, Released} \cup Known

\* A CA PMT is built from the descriptors of systems the module has named, and
\* not sent without one.
Sends(i, p) == table[i].data.ids /\ p \in Compatible

\* The session counts its programs; the first is sent as the only one.
CanAdd(d) == d.count < MaxPrograms
Added(d) == IF CanAdd(d) THEN [d EXCEPT !.count = @ + 1] ELSE d
AddTells(i, d, p, t) ==
  IF ~(CanAdd(d) /\ d.ids /\ p \in Compatible) THEN t
  ELSE IF d.count = 0 THEN {p} ELSE t \cup {p}

\* Sending one may fail, and nobody looks.
Missed(i, was, will, fails) == IF i \in fails THEN was[i] ELSE will[i]

Tell(will, fails) ==
  /\ told' = [i \in SessionIds |-> Missed(i, told, will, fails)]
  /\ misled' = misled \cup {i \in fails : will[i] # told[i]}

\* en50221_AddPMT: to all sessions for conditional access, with the data they
\* are to have.
AddPMT(t, p) ==
  \E fails \in SUBSET CASessions :
    /\ Tell([i \in SessionIds |->
               IF i \in CASessions THEN AddTells(i, t[i].data, p, told[i]) ELSE told[i]], fails)
    /\ table' = [i \in SessionIds |->
                   IF i \in CASessions THEN [t[i] EXCEPT !.data = Added(@)] ELSE t[i]]

\* en50221_UpdatePMT: a module that does not know the program is told all the same
\* of its update, and not that the one it knows is gone.
UpdatePMT(p) ==
  /\ misled' = misled \cup {i \in CASessions : /\ table[i].data.ids /\ p # current
                                               /\ {p, current} \cap Compatible # {}}
  /\ UNCHANGED <<table, told>>

\* Mutant: the program is updated, not taken back.
DeletePMTUpdates(p) ==
  UpdatePMT(p)

DeletePMT(p) ==
  \E fails \in SUBSET CASessions :
    /\ Tell([i \in SessionIds |->
               IF i \in CASessions /\ Sends(i, p) THEN told[i] \ {p} ELSE told[i]], fails)
    /\ table' = [i \in SessionIds |->
                   IF i \in CASessions THEN [table[i] EXCEPT !.data.count = @ - 1]
                   ELSE table[i]]

Crash == crashed' = TRUE /\ UNCHANGED <<table, told, misled>>

\* The module names its systems: the current PMT is sent again, in every
\* session.
CAInfo(i) ==
  /\ ~crashed /\ i \in opens \ half /\ table[i].resource = CA
  /\ LET named == [table EXCEPT ![i].data.ids = TRUE]
     IN  \/ current = Nothing /\ table' = named /\ UNCHANGED <<told, misled, crashed>>
         \/ current # Nothing /\ (\E k \in CASessions : Unusable(k)) /\ Crash
         \/ current # Nothing /\ (\A k \in CASessions : ~Unusable(k))
            /\ AddPMT(named, current) /\ UNCHANGED crashed
  /\ UNCHANGED <<ready, active, module, pmts, half, crossed>>

\* A PMT with a program to descramble, the first time: what is added is the
\* current PMT, which there is none of, so that a session which would be told
\* of it reads through NULL.
PMTAdded(p) ==
  /\ current = Nothing /\ p \in Scrambled
  /\ IF CASessions # {} THEN Crash ELSE UNCHANGED <<table, told, misled, crashed>>
  /\ current' = p

PMTUpdated(p) ==
  /\ current # Nothing /\ p \in Scrambled
  /\ IF \E k \in CASessions : Unusable(k) THEN Crash ELSE UpdatePMT(p) /\ UNCHANGED crashed
  /\ current' = p

PMTDeleted(p) ==
  /\ current # Nothing /\ p \notin Scrambled
  /\ IF \E k \in CASessions : Unusable(k) THEN Crash
     ELSE DeletePMT(current) /\ UNCHANGED crashed
  /\ current' = Nothing

\* Only the PMT of the primary filter's service counts.
ProcessPMT(p) ==
  /\ ~crashed /\ p = service
  /\ PMTAdded(p) \/ PMTUpdated(p) \/ PMTDeleted(p)
  /\ UNCHANGED <<ready, active, module, service, half, crossed>>

Select(p) ==
  /\ ~crashed /\ service # p /\ service' = p
  /\ UNCHANGED <<ready, active, table, current, module, told, half, misled,
                 crossed, crashed>>

----------------------------------------------------------------------------
(* The end of a session. *)

\* The module closes a menu, and the host asks it to close the session.
MMICloseMessage(i) ==
  /\ ~crashed /\ i \in opens \ (half \cup owes) /\ table[i].resource = MMI
  /\ owes' \in {owes, owes \cup {i}}
  /\ UNCHANGED <<ready, active, table, opens, pmts, told, half, misled, crossed, crashed>>

CloseSession(i) ==
  /\ table' = [table EXCEPT ![i] = Closed(@)]
  /\ told' = [told EXCEPT ![i] = {}]
  /\ half' = half \ {i} /\ misled' = misled \ {i}

\* The module asks to close a session, or confirms that one is closed. It may
\* have done both.
SessionClose(i) ==
  /\ ~crashed /\ i \in opens
  /\ CloseSession(i)
  /\ opens' = opens \ {i}
  /\ crossed' = IF i \in owes THEN crossed \cup {i} ELSE crossed
  /\ UNCHANGED <<ready, active, owes, pmts, crashed>>

\* The confirmation of a session that was closed meanwhile frees its data again,
\* or closes the session that has got its number.
CloseConfirmed(i) ==
  /\ ~crashed /\ i \in owes
  /\ CloseSession(i)
  /\ owes' = owes \ {i}
  /\ opens' = IF i \in crossed THEN opens ELSE opens \ {i}
  /\ crashed' = (~Allocated(i) /\ table[i].close # Nothing)
  /\ UNCHANGED <<ready, active, pmts, crossed>>

CAMNext ==
  \/ \E s \in Slot : \/ Insert(s) \/ Removed(s) \/ InitSlot(s) \/ ResetSlot(s)
                     \/ \E r \in Resource : SessionOpen(s, r)
  \/ \E i \in SessionIds : \/ CAInfo(i) \/ MMICloseMessage(i)
                           \/ SessionClose(i) \/ CloseConfirmed(i)
  \/ \E p \in Program : ProcessPMT(p) \/ Select(p)

CAMSpec == CAMInit /\ [][CAMNext]_cam

----------------------------------------------------------------------------

\* A module that has named its systems knows the program that is watched, if it
\* can descramble it, and no other, however often it names them and whichever
\* modules come and go. Not so where a CA PMT was lost or a PMT of another program
\* was sent as the current one's update, which every zap between two scrambled
\* programs does (cam.c:121), nor once the session has counted as many programs as it
\* may: it counts the current one again whenever any module names systems.
ModuleKnowsProgram ==
  \A i \in opens \ (half \cup crossed \cup misled) :
    ~crashed /\ table[i].resource = CA /\ table[i].data.ids
      => told[i] = {current} \cap Compatible \/ ~CanAdd(table[i].data)

\* What a module takes for an open session is one, with the handler and the data
\* of its resource; data is freed with its session, and no session has that of
\* another. Sessions opened half way or closed from both sides are excepted.
SessionsSound ==
  ~crashed =>
    \A i \in SessionIds \ (half \cup crossed) :
      /\ i \in opens <=> Allocated(i)
      /\ Allocated(i) => /\ table[i].handle = table[i].resource
                         /\ table[i].slot \in active
                         /\ IF table[i].resource = CA THEN ~Unusable(i)
                            ELSE table[i].data = table[i].resource

\* The program survives, but for this: a PMT to be descrambled, where there was none
\* before, crashes it if a module has opened a session for conditional access by
\* then (cam.c:117 passes on the current PMT, which is NULL), so only a module that
\* comes after the PMT is ever told; and a session that was opened half way or closed
\* from both sides may.
OnlyEarlySessionsCrash ==
  crashed => \/ current \in Scrambled /\ CASessions # {}
             \/ half # {} \/ crossed # {}

\* A module has sound sessions, and over them the program that is watched, and does
\* not crash the program but where that is named.
ModuleServed == ModuleKnowsProgram /\ SessionsSound /\ OnlyEarlySessionsCrash

=============================================================================
