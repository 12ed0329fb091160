----------------------------- MODULE PluginsProofs -----------------------------
(***************************************************************************)
(* What the plugins promise, for any number of filters, sessions, modules  *)
(* and clients: DSM-CC sessions that are not shared stay with the filter   *)
(* they were made for, the modules of conditional access know the program  *)
(* that is watched and are heard message by message, the clients of the    *)
(* dispatcher are told of the events they listen to and are counted, and   *)
(* one group captures the events of what is on the air.                    *)
(***************************************************************************)
EXTENDS DSMCC, CAM, EventsDispatcher, Dialogs, Epg, TLAPS, FiniteSetTheorems,
        SequenceTheorems, WellFoundedInduction

----------------------------------------------------------------------------
(* DSM-CC. *)

\* A download session never has a second reference: nothing takes one.
Download == [service : Channel, refs : {1}, pids : [Pid -> {"absent", "attached", "idle"}]]

DSMCCTyped ==
  /\ channel \in [Filter -> Channel \cup {Null}]
  /\ sessions \in [Filter -> {Off, Null} \cup Ids]
  /\ downloads \in [Ids -> Download \cup {Freed}]
  /\ made \in 0..MaxDownloads
  /\ tuned \in Multiplexes /\ informed \in BOOLEAN
  /\ shared \subseteq Ids /\ broken \in BOOLEAN

\* Those that were not made yet are free, and no filter has one of them.
MadeInOrder ==
  /\ \A d \in Ids : d > made => downloads[d] = Freed
  /\ \A f \in Filter : sessions[f] \in Ids => sessions[f] <= made

\* What a download session knows of is attached while its multiplex is tuned,
\* from the event of the tune on.
AttachedAsTuned ==
  informed => \A d \in Ids : downloads[d] # Freed =>
    \A p \in Pid : downloads[d].pids[p] \in {"absent", Attach(downloads[d].service)}

\* A download session that was never found again is its filter's alone.
OwnedAlone ==
  \A f \in Filter : sessions[f] \in Ids \ shared =>
    /\ channel[f] # Null /\ downloads[sessions[f]] # Freed
    /\ downloads[sessions[f]].service = channel[f]
    /\ \A g \in Filter \ {f} : sessions[g] # sessions[f]

\* Only a filter without a service is enabled without a download session.
NullWithoutService == \A f \in Filter : sessions[f] = Null /\ Null # Off => channel[f] = Null

DSMCCIInv == DSMCCTyped /\ MadeInOrder /\ AttachedAsTuned /\ OwnedAlone /\ NullWithoutService

\* The PIDs of a download session are attached or idle.
LEMMA AttachedOrIdle == ASSUME NEW s PROVE Attach(s) \in {"attached", "idle"}
  BY DEF Attach

\* A filter that leaves its download session destroys it: there is no second
\* reference.
LEMMA DroppedIsFreed ==
  ASSUME DSMCCTyped, NEW f \in Filter
  PROVE  Dropped(downloads, f) =
           [d \in Ids |-> IF d = sessions[f] THEN Freed ELSE downloads[d]]
<1> DEFINE ds == [d \in Ids |-> IF d = sessions[f] THEN Freed ELSE downloads[d]]
<1>1. downloads = [d \in Ids |-> downloads[d]]
  BY DEF DSMCCTyped
<1>2. CASE sessions[f] \notin Ids
  <2>1. ds = [d \in Ids |-> downloads[d]]
    BY <1>2
  <2> QED
    BY <1>1, <1>2, <2>1 DEF Dropped
<1>3. CASE sessions[f] \in Ids /\ downloads[sessions[f]] = Freed
  <2>1. \A d \in Ids : ds[d] = downloads[d]
    BY <1>3
  <2> QED
    BY <1>1, <1>3, <2>1 DEF Dropped, RefDec
<1>4. CASE sessions[f] \in Ids /\ downloads[sessions[f]] # Freed
  <2>1. downloads[sessions[f]].refs = 1
    BY <1>4 DEF DSMCCTyped, Download
  <2>2. Dropped(downloads, f) = [downloads EXCEPT ![sessions[f]] = Freed]
    BY <1>4, <2>1 DEF Dropped, RefDec
  <2>3. [downloads EXCEPT ![sessions[f]] = Freed] = ds
    BY <1>1
  <2> QED
    BY <2>2, <2>3
<1> QED
  BY <1>2, <1>3, <1>4

\* No session is there in the beginning.
LEMMA InitDSMCC == DSMCCInit => DSMCCIInv
<1> SUFFICES ASSUME DSMCCInit PROVE DSMCCIInv
  OBVIOUS
<1> USE DSMCCAssumption DEF DSMCCInit
<1>1. DSMCCTyped
  <2>1. sessions \in [Filter -> {Off, Null} \cup Ids] /\ downloads \in [Ids -> Download \cup {Freed}]
    OBVIOUS
  <2>2. made \in 0..MaxDownloads
    OBVIOUS
  <2>3. informed \in BOOLEAN /\ broken \in BOOLEAN
    OBVIOUS
  <2> QED
    BY <2>1, <2>2, <2>3 DEF DSMCCTyped
<1>2. MadeInOrder /\ AttachedAsTuned /\ OwnedAlone /\ NullWithoutService
  BY DEF MadeInOrder, AttachedAsTuned, OwnedAlone, NullWithoutService, Ids
<1> QED
  BY <1>1, <1>2 DEF DSMCCIInv

\* A filter gets the download session of a service, new or found, and has left
\* the one it had.
LEMMA EnableSessionKeepsIInv ==
  ASSUME DSMCCIInv, NEW f \in Filter, NEW s \in Channel \cup {Null},
         EnableSession(f, s), channel' = [channel EXCEPT ![f] = s],
         informed, UNCHANGED <<tuned, informed>>, broken' \in BOOLEAN
  PROVE  DSMCCIInv'
<1> DEFINE ds == Dropped(downloads, f)
<1> USE DSMCCAssumption
<1>1. /\ DSMCCTyped /\ MadeInOrder /\ AttachedAsTuned /\ OwnedAlone /\ NullWithoutService
  BY DEF DSMCCIInv
<1>2. ds = [d \in Ids |-> IF d = sessions[f] THEN Freed ELSE downloads[d]]
  BY <1>1, DroppedIsFreed
<1> HIDE DEF ds
<1>3. ds \in [Ids -> Download \cup {Freed}]
  BY <1>1, <1>2 DEF DSMCCTyped
<1>4. \A d \in Ids : ds[d] # Freed => ds[d] = downloads[d] /\ d # sessions[f]
  BY <1>2
<1>5. \A d \in Ids : d > made => ds[d] = Freed
  BY <1>1, <1>2 DEF MadeInOrder
<1>6. \A g \in Filter \ {f} : sessions[g] \in Ids \ shared => ds[sessions[g]] = downloads[sessions[g]]
  BY <1>1, <1>2 DEF OwnedAlone
<1>7. channel' \in [Filter -> Channel \cup {Null}]
  BY <1>1 DEF DSMCCTyped
<1>8. channel'[f] = s /\ \A g \in Filter \ {f} : channel'[g] = channel[g]
  BY <1>1 DEF DSMCCTyped
<1>9. tuned' \in Multiplexes /\ informed' \in BOOLEAN /\ broken' \in BOOLEAN
  BY <1>1 DEF DSMCCTyped
<1>10. CASE /\ s = Null
            /\ sessions' = [sessions EXCEPT ![f] = Null]
            /\ downloads' = ds
            /\ UNCHANGED <<made, shared>>
  <2>1. DSMCCTyped'
    BY <1>1, <1>3, <1>7, <1>9, <1>10 DEF DSMCCTyped
  <2>2. MadeInOrder'
    BY <1>1, <1>5, <1>10 DEF MadeInOrder, DSMCCTyped, Ids
  <2>3. AttachedAsTuned'
    BY <1>1, <1>4, <1>10 DEF AttachedAsTuned, Attach
  <2>4. OwnedAlone'
    BY <1>1, <1>6, <1>8, <1>10 DEF OwnedAlone, DSMCCTyped, Ids
  <2>5. NullWithoutService'
    BY <1>1, <1>8, <1>10 DEF NullWithoutService, DSMCCTyped
  <2> QED
    BY <2>1, <2>2, <2>3, <2>4, <2>5 DEF DSMCCIInv
<1>11. ASSUME NEW d \in Ids, s # Null, ds[d] # Freed, ds[d].service = s,
              sessions' = [sessions EXCEPT ![f] = d], shared' = shared \cup {d},
              downloads' = ds, UNCHANGED made
       PROVE  DSMCCIInv'
  <2>1. DSMCCTyped'
    BY <1>1, <1>3, <1>7, <1>9, <1>11 DEF DSMCCTyped
  <2>2. MadeInOrder'
    BY <1>1, <1>5, <1>11 DEF MadeInOrder, DSMCCTyped, Ids
  <2>3. AttachedAsTuned'
    BY <1>1, <1>4, <1>11 DEF AttachedAsTuned, Attach
  <2>4. OwnedAlone'
    BY <1>1, <1>6, <1>8, <1>11 DEF OwnedAlone, DSMCCTyped, Ids
  <2>5. NullWithoutService'
    BY <1>1, <1>8, <1>11 DEF NullWithoutService, DSMCCTyped, Ids
  <2> QED
    BY <2>1, <2>2, <2>3, <2>4, <2>5 DEF DSMCCIInv
<1>12. ASSUME NEW known \in {FALSE, On[s] = tuned}, s # Null, made < MaxDownloads,
              made' = made + 1,
              downloads' = [ds EXCEPT ![made + 1] = NewDownload(s, known)],
              sessions' = [sessions EXCEPT ![f] = made + 1], UNCHANGED shared
       PROVE  DSMCCIInv'
  <2> DEFINE new == NewDownload(s, known)
  <2>1. new.service = s /\ new \in Download
    BY <1>12, AttachedOrIdle DEF NewDownload, Download
  <2>2. \A p \in Pid : new.pids[p] \in {"absent", Attach(s)}
    BY DEF NewDownload
  <2>3. new # Freed
    BY <2>1 DEF Download
  <2>4. made \in Nat /\ made + 1 \in Ids
    BY <1>1, <1>12 DEF DSMCCTyped, Ids
  <2> HIDE DEF new
  <2>5. downloads'[made + 1] = new /\ \A d \in Ids \ {made + 1} : downloads'[d] = ds[d]
    BY <1>3, <1>12, <2>4 DEF new
  <2>6. sessions'[f] = made + 1 /\ \A g \in Filter \ {f} : sessions'[g] = sessions[g]
    BY <1>1, <1>12 DEF DSMCCTyped
  <2>7. DSMCCTyped'
    <3>1. downloads' \in [Ids -> Download \cup {Freed}]
      BY <1>3, <1>12, <2>1, <2>4 DEF new
    <3>2. sessions' \in [Filter -> {Off, Null} \cup Ids]
      BY <1>1, <1>12, <2>4 DEF DSMCCTyped
    <3> QED
      BY <1>1, <1>7, <1>9, <1>12, <2>4, <3>1, <3>2 DEF DSMCCTyped, Ids
  <2>8. MadeInOrder'
    <3>1. \A d \in Ids : d > made' => downloads'[d] = Freed
      BY <1>5, <1>12, <2>4, <2>5 DEF Ids
    <3>2. \A g \in Filter : sessions'[g] \in Ids => sessions'[g] <= made'
      BY <1>1, <1>12, <2>4, <2>6 DEF MadeInOrder, Ids
    <3> QED
      BY <3>1, <3>2 DEF MadeInOrder
  <2>9. AttachedAsTuned'
    <3> SUFFICES ASSUME NEW d \in Ids, downloads'[d] # Freed, NEW p \in Pid
                 PROVE  downloads'[d].pids[p] \in {"absent", Attach(downloads'[d].service)}
      BY DEF AttachedAsTuned, Attach
    <3>1. CASE d = made + 1
      BY <2>1, <2>2, <2>5, <3>1
    <3>2. CASE d # made + 1
      BY <1>1, <1>4, <2>5, <3>2 DEF AttachedAsTuned
    <3> QED
      BY <3>1, <3>2
  <2>10. OwnedAlone'
    <3> SUFFICES ASSUME NEW h \in Filter, sessions'[h] \in Ids \ shared
                 PROVE  /\ channel'[h] # Null /\ downloads'[sessions'[h]] # Freed
                        /\ downloads'[sessions'[h]].service = channel'[h]
                        /\ \A g \in Filter \ {h} : sessions'[g] # sessions'[h]
      BY <1>12 DEF OwnedAlone
    <3>1. \A g \in Filter : sessions[g] # made + 1
      BY <1>1, <2>4 DEF MadeInOrder
    <3>2. CASE h = f
      BY <1>8, <1>12, <2>1, <2>3, <2>5, <2>6, <3>1, <3>2
    <3>3. CASE h # f
      <4>1. sessions[h] \in Ids \ shared /\ sessions[h] # made + 1
        BY <2>6, <3>1, <3>3
      <4>2. downloads'[sessions'[h]] = downloads[sessions[h]]
        BY <1>6, <2>5, <2>6, <3>3, <4>1
      <4>3. \A g \in Filter \ {h} : sessions'[g] # sessions'[h]
        BY <1>1, <2>6, <3>3, <4>1 DEF OwnedAlone
      <4> QED
        BY <1>1, <1>8, <3>3, <4>1, <4>2, <4>3 DEF OwnedAlone
    <3> QED
      BY <3>2, <3>3
  <2>11. NullWithoutService'
    BY <1>1, <1>8, <2>4, <2>6 DEF NullWithoutService, Ids
  <2> QED
    BY <2>7, <2>8, <2>9, <2>10, <2>11 DEF DSMCCIInv
<1> QED
  BY <1>10, <1>11, <1>12 DEF EnableSession, ds

\* Commands of a filter keep what is known of the sessions.
LEMMA CommandsKeepIInv ==
  ASSUME DSMCCIInv, NEW f \in Filter,
         \/ Enable(f) \/ Disable(f) \/ FilterRemoved(f)
         \/ \E s \in Channel \cup {Null} : FilterChanged(f, s)
  PROVE  DSMCCIInv'
<1> USE DSMCCAssumption
<1>1. /\ DSMCCTyped /\ MadeInOrder /\ AttachedAsTuned /\ OwnedAlone /\ NullWithoutService
  BY DEF DSMCCIInv
<1>2. CASE Enable(f)
  <2>1. channel' = [channel EXCEPT ![f] = channel[f]] /\ channel[f] \in Channel \cup {Null}
    BY <1>1, <1>2 DEF Enable, DSMCCTyped
  <2>2. EnableSession(f, channel[f]) /\ informed /\ UNCHANGED <<tuned, informed>> /\ broken' \in BOOLEAN
    BY <1>1, <1>2 DEF Enable, Commanding, DSMCCTyped
  <2> QED
    BY <2>1, <2>2, EnableSessionKeepsIInv
<1>3. ASSUME Leave(f), informed, NEW s \in Channel \cup {Null},
             channel' = [channel EXCEPT ![f] = s]
      PROVE  DSMCCIInv'
  <2>1. downloads' = [d \in Ids |-> IF d = sessions[f] THEN Freed ELSE downloads[d]]
    BY <1>1, <1>3, DroppedIsFreed DEF Leave
  <2>2. sessions' = [sessions EXCEPT ![f] = Off] /\ UNCHANGED <<made, tuned, informed, shared>>
    BY <1>3 DEF Leave
  <2>3. broken' \in BOOLEAN
    BY <1>3 DEF Leave, Drops
  <2>4. DSMCCTyped'
    <3>1. downloads' \in [Ids -> Download \cup {Freed}]
      BY <1>1, <2>1 DEF DSMCCTyped
    <3> QED
      BY <1>1, <1>3, <2>2, <2>3, <3>1 DEF DSMCCTyped
  <2>5. MadeInOrder'
    BY <1>1, <2>1, <2>2 DEF MadeInOrder, DSMCCTyped, Ids
  <2>6. AttachedAsTuned'
    BY <1>1, <2>1, <2>2 DEF AttachedAsTuned, Attach
  <2>7. OwnedAlone'
    <3>1. \A g \in Filter \ {f} : sessions'[g] = sessions[g] /\ channel'[g] = channel[g]
      BY <1>1, <1>3, <2>2 DEF DSMCCTyped
    <3>2. sessions'[f] \notin Ids
      BY <1>1, <2>2 DEF DSMCCTyped, Ids
    <3> SUFFICES ASSUME NEW h \in Filter \ {f}, sessions[h] \in Ids \ shared
                 PROVE  /\ channel[h] # Null /\ downloads'[sessions[h]] # Freed
                        /\ downloads'[sessions[h]].service = channel[h]
                        /\ \A g \in Filter \ {h} : sessions'[g] # sessions[h]
      BY <2>2, <3>1, <3>2 DEF OwnedAlone
    <3>3. sessions[f] # sessions[h] /\ \A g \in Filter \ {f, h} : sessions'[g] # sessions[h]
      BY <1>1, <3>1 DEF OwnedAlone
    <3>4. downloads'[sessions[h]] = downloads[sessions[h]]
      BY <2>1, <3>3
    <3> QED
      BY <1>1, <3>2, <3>3, <3>4 DEF OwnedAlone
  <2>8. NullWithoutService'
    BY <1>1, <1>3, <2>2 DEF NullWithoutService, DSMCCTyped
  <2> QED
    BY <2>4, <2>5, <2>6, <2>7, <2>8 DEF DSMCCIInv
<1>4. CASE Disable(f)
  <2>1. channel' = [channel EXCEPT ![f] = channel[f]] /\ channel[f] \in Channel \cup {Null}
    BY <1>1, <1>4 DEF Disable, DSMCCTyped
  <2> QED
    BY <1>3, <1>4, <2>1 DEF Disable, Commanding
<1>5. CASE FilterRemoved(f)
  BY <1>3, <1>5 DEF FilterRemoved, Commanding
<1>6. ASSUME NEW s \in Channel \cup {Null}, FilterChanged(f, s) PROVE DSMCCIInv'
  <2>1. CASE sessions[f] # Off
    <3>1. EnableSession(f, s) /\ channel' = [channel EXCEPT ![f] = s]
      BY <1>6, <2>1 DEF FilterChanged
    <3>2. informed /\ UNCHANGED <<tuned, informed>>
      BY <1>6 DEF FilterChanged, Commanding
    <3>3. broken' \in BOOLEAN
      BY <1>6, <2>1 DEF FilterChanged, Drops
    <3> QED
      BY <3>1, <3>2, <3>3, EnableSessionKeepsIInv
  <2>2. CASE sessions[f] = Off
    <3>1. channel' = [channel EXCEPT ![f] = s] /\ UNCHANGED <<sessions, downloads, made, shared, broken, tuned, informed>>
      BY <1>6, <2>2 DEF FilterChanged
    <3>2. DSMCCTyped'
      BY <1>1, <3>1 DEF DSMCCTyped
    <3>3. MadeInOrder' /\ AttachedAsTuned'
      BY <1>1, <3>1 DEF MadeInOrder, AttachedAsTuned, Attach
    <3>4. OwnedAlone' /\ NullWithoutService'
      BY <1>1, <2>2, <3>1 DEF OwnedAlone, NullWithoutService, DSMCCTyped, Ids
    <3> QED
      BY <3>2, <3>3, <3>4 DEF DSMCCIInv
  <2> QED
    BY <2>1, <2>2
<1> QED
  BY <1>2, <1>4, <1>5, <1>6

\* So does the event of a tune, with which all are attached anew, or not.
LEMMA MultiplexChangedKeepsIInv == DSMCCIInv /\ MultiplexChanged => DSMCCIInv'
<1> SUFFICES ASSUME DSMCCIInv, MultiplexChanged PROVE DSMCCIInv'
  OBVIOUS
<1>1. /\ DSMCCTyped /\ MadeInOrder /\ AttachedAsTuned /\ OwnedAlone /\ NullWithoutService
  BY DEF DSMCCIInv
<1> DEFINE pids(d) == [p \in Pid |-> IF downloads[d].pids[p] = "absent" THEN "absent"
                                     ELSE Attach(downloads[d].service)]
<1>2. UNCHANGED <<channel, sessions, made, tuned, shared, broken>> /\ informed' = TRUE
  BY DEF MultiplexChanged
<1>3. \A d \in Ids : downloads[d] = Freed => downloads'[d] = Freed
  BY DEF MultiplexChanged, Live
<1>4. \A d \in Ids : downloads[d] # Freed => downloads'[d] = [downloads[d] EXCEPT !.pids = pids(d)]
  BY DEF MultiplexChanged, Live
<1>5. \A d \in Ids : downloads[d] # Freed =>
         /\ downloads'[d] \in Download
         /\ downloads'[d].service = downloads[d].service
         /\ downloads'[d].pids = pids(d)
  <2> SUFFICES ASSUME NEW d \in Ids, downloads[d] # Freed
               PROVE  /\ downloads'[d] \in Download
                      /\ downloads'[d].service = downloads[d].service
                      /\ downloads'[d].pids = pids(d)
    OBVIOUS
  <2>1. downloads[d] \in Download
    BY <1>1 DEF DSMCCTyped
  <2>2. pids(d) \in [Pid -> {"absent", "attached", "idle"}]
    BY AttachedOrIdle
  <2> HIDE DEF pids
  <2> QED
    BY <1>4, <2>1, <2>2 DEF Download
<1>6. \A d \in Ids : downloads[d] # Freed => downloads'[d] # Freed
  BY <1>5, DSMCCAssumption DEF Download
<1>7. DOMAIN downloads' = Ids /\ downloads' = [d \in Ids |-> downloads'[d]]
  BY DEF MultiplexChanged
<1>8. DSMCCTyped'
  <2>1. downloads' \in [Ids -> Download \cup {Freed}]
    BY <1>3, <1>5, <1>7
  <2> QED
    BY <1>1, <1>2, <2>1 DEF DSMCCTyped
<1>9. MadeInOrder'
  BY <1>1, <1>2, <1>3 DEF MadeInOrder
<1>10. AttachedAsTuned'
  <2> SUFFICES ASSUME NEW d \in Ids, downloads'[d] # Freed, NEW p \in Pid
               PROVE  downloads'[d].pids[p] \in {"absent", Attach(downloads[d].service)}
    BY <1>2, <1>3, <1>5 DEF AttachedAsTuned, Attach
  <2> QED
    BY <1>3, <1>5
<1>11. OwnedAlone'
  BY <1>1, <1>2, <1>5, <1>6 DEF OwnedAlone
<1>12. NullWithoutService'
  BY <1>1, <1>2 DEF NullWithoutService
<1> QED
  BY <1>8, <1>9, <1>10, <1>11, <1>12 DEF DSMCCIInv

\* And a section, whose PID is attached if its multiplex is tuned.
LEMMA SectionKeepsIInv ==
  ASSUME DSMCCIInv, NEW d \in Ids, NEW p \in Pid, Section(d, p) PROVE DSMCCIInv'
<1>1. /\ DSMCCTyped /\ MadeInOrder /\ AttachedAsTuned /\ OwnedAlone /\ NullWithoutService
  BY DEF DSMCCIInv
<1> DEFINE new == PIDAdd(downloads[d], p)
<1>2. downloads[d] # Freed /\ downloads[d] \in Download
  BY <1>1 DEF Section, Live, DSMCCTyped
<1>3. /\ new \in Download /\ new.service = downloads[d].service
      /\ \A q \in Pid : new.pids[q] \in {downloads[d].pids[q], Attach(downloads[d].service)}
  <2>1. CASE downloads[d].pids[p] # "absent"
    BY <1>2, <2>1 DEF PIDAdd
  <2>2. CASE downloads[d].pids[p] = "absent"
    <3>1. new = [downloads[d] EXCEPT !.pids[p] = Attach(downloads[d].service)]
      BY <2>2 DEF PIDAdd
    <3>2. Attach(downloads[d].service) \in {"absent", "attached", "idle"}
      BY AttachedOrIdle
    <3> DEFINE a == Attach(downloads[d].service)
    <3> HIDE DEF a
    <3>3. a \in {"absent", "attached", "idle"} /\ new = [downloads[d] EXCEPT !.pids[p] = a]
      BY <3>1, <3>2 DEF a
    <3> HIDE DEF new
    <3>4. new \in Download /\ new.service = downloads[d].service
          /\ \A q \in Pid : new.pids[q] \in {downloads[d].pids[q], a}
      BY <1>2, <3>3 DEF Download
    <3> QED
      BY <3>4 DEF a
  <2> QED
    BY <2>1, <2>2
<1>4. new # Freed
  BY <1>3, DSMCCAssumption DEF Download
<1> HIDE DEF new
<1>5. downloads' = [downloads EXCEPT ![d] = new] /\ UNCHANGED <<channel, sessions, made, tuned, informed, shared, broken>>
  BY DEF Section, new
<1>6. downloads'[d] = new /\ \A e \in Ids \ {d} : downloads'[e] = downloads[e]
  BY <1>1, <1>5 DEF DSMCCTyped
<1>7. DSMCCTyped'
  BY <1>1, <1>3, <1>5 DEF DSMCCTyped
<1>8. MadeInOrder'
  BY <1>1, <1>2, <1>5, <1>6 DEF MadeInOrder
<1>9. AttachedAsTuned'
  <2> SUFFICES ASSUME informed, NEW e \in Ids, downloads'[e] # Freed, NEW q \in Pid
               PROVE  downloads'[e].pids[q] \in {"absent", Attach(downloads'[e].service)}
    BY <1>5 DEF AttachedAsTuned, Attach
  <2>1. \A c \in Ids : downloads[c] # Freed => downloads[c].pids[q] \in {"absent", Attach(downloads[c].service)}
    BY <1>1 DEF AttachedAsTuned
  <2> QED
    BY <1>2, <1>3, <1>6, <2>1
<1>10. OwnedAlone'
  BY <1>1, <1>3, <1>4, <1>5, <1>6 DEF OwnedAlone
<1>11. NullWithoutService'
  BY <1>1, <1>5 DEF NullWithoutService
<1> QED
  BY <1>7, <1>8, <1>9, <1>10, <1>11 DEF DSMCCIInv

\* What is known of the sessions is what is promised to a filter.
LEMMA DSMCCIInvServes == DSMCCIInv => SessionsServed
<1> SUFFICES ASSUME DSMCCIInv, NEW f \in Filter, sessions[f] # Off, sessions[f] \notin shared
             PROVE  \/ channel[f] = Null /\ sessions[f] = Null
                    \/ /\ channel[f] # Null /\ sessions[f] \in Live
                       /\ downloads[sessions[f]].service = channel[f]
                       /\ informed => \A p \in Pid :
                            downloads[sessions[f]].pids[p] \in {"absent", Attach(channel[f])}
  BY DEF SessionsServed
<1>1. /\ DSMCCTyped /\ AttachedAsTuned /\ OwnedAlone /\ NullWithoutService
  BY DEF DSMCCIInv
<1>2. sessions[f] = Null \/ sessions[f] \in Ids
  BY <1>1 DEF DSMCCTyped
<1>3. CASE sessions[f] = Null
  BY <1>1, <1>3 DEF NullWithoutService
<1>4. CASE sessions[f] \in Ids
  <2>1. /\ channel[f] # Null /\ downloads[sessions[f]] # Freed
        /\ downloads[sessions[f]].service = channel[f]
    BY <1>1, <1>4 DEF OwnedAlone
  <2>2. informed => \A p \in Pid :
          downloads[sessions[f]].pids[p] \in {"absent", Attach(downloads[sessions[f]].service)}
    BY <1>1, <1>4, <2>1 DEF AttachedAsTuned
  <2> QED
    BY <1>4, <2>1, <2>2 DEF Live
<1> QED
  BY <1>2, <1>3, <1>4

\* A filter with DSM-CC enabled has the download session of its service, and
\* what that knows of is attached exactly while its multiplex is tuned, however
\* filters, services and tunes come and go; unless it came to share it.
THEOREM SessionsAreServed == DSMCCSpec => []SessionsServed
<1>1. ASSUME DSMCCIInv, [DSMCCNext]_dsmcc PROVE DSMCCIInv'
  <2>1. CASE UNCHANGED dsmcc
    BY <1>1, <2>1 DEF dsmcc, DSMCCIInv, DSMCCTyped, MadeInOrder, AttachedAsTuned, OwnedAlone,
                      NullWithoutService, Attach
  <2>2. ASSUME NEW m \in Multiplexes, Retune(m) PROVE DSMCCIInv'
    BY <1>1, <2>2 DEF Retune, DSMCCIInv, DSMCCTyped, MadeInOrder, AttachedAsTuned, OwnedAlone,
                      NullWithoutService
  <2>3. ASSUME NEW f \in Filter,
               \/ Enable(f) \/ Disable(f) \/ FilterRemoved(f)
               \/ \E s \in Channel \cup {Null} : FilterChanged(f, s)
        PROVE  DSMCCIInv'
    BY <1>1, <2>3, CommandsKeepIInv
  <2>4. CASE MultiplexChanged
    BY <1>1, <2>4, MultiplexChangedKeepsIInv
  <2>5. ASSUME NEW d \in Ids, NEW p \in Pid, Section(d, p) PROVE DSMCCIInv'
    BY <1>1, <2>5, SectionKeepsIInv
  <2> QED
    BY <1>1, <2>1, <2>2, <2>3, <2>4, <2>5 DEF DSMCCNext
<1> QED
  BY <1>1, InitDSMCC, DSMCCIInvServes, PTL DEF DSMCCSpec

----------------------------------------------------------------------------
(* Conditional access. *)

\* The data of a session for conditional access.
Systems == [ids : BOOLEAN, count : Int]

CAEntry == [resource : Resource \cup {Nothing}, slot : Slot \cup {Nothing},
            handle : Resource \cup {Nothing}, close : Resource \cup {Nothing},
            data : Known \cup {Nothing, Released} \cup Systems]

CAMTyped ==
  /\ ready \subseteq Slot /\ active \subseteq Slot
  /\ table \in [SessionIds -> CAEntry]
  /\ service \in Program /\ current \in Program \cup {Nothing}
  /\ opens \subseteq SessionIds /\ owes \subseteq SessionIds
  /\ half \subseteq SessionIds /\ misled \subseteq SessionIds /\ crossed \subseteq SessionIds
  /\ told \in [SessionIds -> SUBSET Program]

\* An entry is free, or was left half way, with the data of nobody's session in
\* both, or has the handler and the data of its resource.
Vacant(i) == table[i].data \in {Nothing, Released}
HalfWay(i) == table[i].slot \in active /\ table[i].close = Nothing /\ Vacant(i)
Filled(i) ==
  /\ table[i].resource \in Known /\ table[i].slot \in active
  /\ table[i].handle = table[i].resource /\ table[i].close = table[i].resource
  /\ table[i].data \in IF table[i].resource = CA THEN Systems ELSE {table[i].resource}
EntriesKept ==
  \A i \in SessionIds :
    /\ ~Allocated(i) => Vacant(i) /\ i \notin half
    /\ Allocated(i) => IF i \in half THEN HalfWay(i) ELSE Filled(i)

\* Both sides agree on what is open.
OpenOnBothSides ==
  \A i \in SessionIds \ (half \cup crossed) : i \in opens <=> Allocated(i)

\* A session whose module was not misled is told of nothing before its module has
\* named its systems, and then of no more than the current program: of that too,
\* but where it counts too many.
Naming(i) == table[i].resource = CA /\ i \notin half /\ table[i].data.ids
ToldOfCurrent ==
  /\ \A i \in misled : table[i].resource = CA /\ i \notin half
  /\ \A i \in SessionIds \ misled :
       IF Naming(i)
       THEN /\ told[i] \subseteq {current} \cap Compatible
            /\ told[i] = {current} \cap Compatible \/ ~CanAdd(table[i].data)
       ELSE told[i] = {}

\* A session that is still to be closed is open, or was closed from the other side.
OwedAreOpen == owes \subseteq opens \cup crossed

CAMIInv ==
  /\ crashed \in BOOLEAN /\ OwedAreOpen /\ OnlyEarlySessionsCrash
  /\ ~crashed => CAMTyped /\ EntriesKept /\ OpenOnBothSides /\ ToldOfCurrent

\* What is known between two steps of a program that has not crashed.
CAMKnown == CAMTyped /\ EntriesKept /\ OpenOnBothSides /\ ToldOfCurrent

\* An entry that is closed has no resource, and its data is not a session's.
LEMMA ClosedEntry ==
  ASSUME NEW e \in CAEntry
  PROVE  /\ Closed(e) \in CAEntry /\ Closed(e).resource = Nothing
         /\ Closed(e).data = IF e.close = Nothing THEN e.data ELSE Released
  BY DEF Closed, CAEntry

\* An entry with other data is the same otherwise.
LEMMA OtherData ==
  ASSUME NEW e \in CAEntry, NEW d \in Systems
  PROVE  /\ [e EXCEPT !.data = d] \in CAEntry
         /\ [e EXCEPT !.data = d].data = d
         /\ [e EXCEPT !.data = d].resource = e.resource
         /\ [e EXCEPT !.data = d].slot = e.slot
         /\ [e EXCEPT !.data = d].handle = e.handle
         /\ [e EXCEPT !.data = d].close = e.close
  BY DEF CAEntry

\* Nothing is open in the beginning.
LEMMA InitCAM == CAMInit => CAMIInv
<1> SUFFICES ASSUME CAMInit PROVE CAMIInv
  OBVIOUS
<1> USE CAMAssumption DEF CAMInit
<1>1. NoSession \in CAEntry /\ NoSession.resource = Nothing /\ NoSession.data = Nothing
  BY DEF NoSession, CAEntry
<1>2. table \in [SessionIds -> CAEntry] /\ \A i \in SessionIds : table[i] = NoSession
  BY <1>1
<1>3. CAMTyped
  <2>1. told \in [SessionIds -> SUBSET Program]
    OBVIOUS
  <2> QED
    BY <1>2, <2>1 DEF CAMTyped
<1>4. EntriesKept /\ OpenOnBothSides
  BY <1>1, <1>2 DEF EntriesKept, OpenOnBothSides, Allocated, Vacant
<1>5. ToldOfCurrent
  BY <1>1, <1>2 DEF ToldOfCurrent, Naming
<1> QED
  BY <1>3, <1>4, <1>5 DEF CAMIInv, OwedAreOpen, OnlyEarlySessionsCrash

\* The sessions of S are closed, and no others.
LEMMA ClosingKeepsCAM ==
  ASSUME CAMKnown, NEW S \in SUBSET SessionIds,
         table' = [i \in SessionIds |-> IF i \in S THEN Closed(table[i]) ELSE table[i]],
         told' = [i \in SessionIds |-> IF i \in S THEN {} ELSE told[i]],
         half' = half \ S, misled' = misled \ S,
         ready' \subseteq Slot, active' \subseteq active,
         \A i \in SessionIds \ S : Allocated(i) => table[i].slot \in active',
         UNCHANGED pmts,
         opens' \subseteq SessionIds, owes' \subseteq SessionIds, crossed' \subseteq SessionIds,
         crossed \subseteq crossed' \cup S,
         \A i \in SessionIds \ (half' \cup crossed') : i \in opens' <=> i \in opens \ S
  PROVE  CAMKnown'
<1> USE CAMAssumption
<1>1. CAMTyped /\ EntriesKept /\ OpenOnBothSides /\ ToldOfCurrent
  BY DEF CAMKnown
<1>2. UNCHANGED <<service, current>>
  BY DEF pmts
<1>3. \A i \in SessionIds : table[i] \in CAEntry
  BY <1>1 DEF CAMTyped
<1>4. \A i \in S : /\ table'[i] \in CAEntry /\ table'[i].resource = Nothing
                   /\ table'[i].data = IF table[i].close = Nothing THEN table[i].data ELSE Released
  BY <1>3, ClosedEntry
<1>5. \A i \in SessionIds \ S : table'[i] = table[i] /\ told'[i] = told[i]
  OBVIOUS
<1>6. CAMTyped'
  <2>1. table' \in [SessionIds -> CAEntry]
    BY <1>3, <1>4, <1>5
  <2>2. told' \in [SessionIds -> SUBSET Program]
    BY <1>1 DEF CAMTyped
  <2> QED
    BY <1>1, <1>2, <2>1, <2>2 DEF CAMTyped
<1>7. EntriesKept'
  <2>1. \A i \in S : ~Allocated(i)' /\ Vacant(i)' /\ i \notin half'
    <3> TAKE i \in S
    <3>1. Vacant(i) \/ table[i].close # Nothing
      BY <1>1 DEF EntriesKept, HalfWay, Filled, Allocated
    <3> QED
      BY <1>4, <3>1 DEF Allocated, Vacant
  <2>2. \A i \in SessionIds \ S :
          /\ ~Allocated(i)' => Vacant(i)' /\ i \notin half'
          /\ Allocated(i)' => IF i \in half' THEN HalfWay(i)' ELSE Filled(i)'
    BY <1>1, <1>5 DEF EntriesKept, HalfWay, Filled, Allocated, Vacant
  <2> QED
    BY <2>1, <2>2 DEF EntriesKept
<1>8. OpenOnBothSides'
  <2> SUFFICES ASSUME NEW i \in SessionIds \ (half' \cup crossed')
               PROVE  i \in opens' <=> Allocated(i)'
    BY DEF OpenOnBothSides
  <2>1. CASE i \in S
    BY <1>4, <2>1 DEF Allocated
  <2>2. CASE i \notin S
    BY <1>1, <1>5, <2>2 DEF OpenOnBothSides, Allocated
  <2> QED
    BY <2>1, <2>2
<1>9. ToldOfCurrent'
  <2>1. \A i \in misled' : table'[i].resource = CA /\ i \notin half'
    BY <1>1, <1>5 DEF ToldOfCurrent, CAMTyped
  <2> SUFFICES ASSUME NEW i \in SessionIds \ misled'
               PROVE  IF Naming(i)'
                      THEN /\ told'[i] \subseteq {current} \cap Compatible
                           /\ \/ told'[i] = {current} \cap Compatible
                              \/ ~CanAdd(table'[i].data)
                      ELSE told'[i] = {}
    BY <1>2, <2>1 DEF ToldOfCurrent, CanAdd
  <2>2. CASE i \in S
    BY <1>4, <2>2 DEF Naming
  <2>3. CASE i \notin S
    BY <1>1, <1>5, <2>3 DEF ToldOfCurrent, Naming
  <2> QED
    BY <2>2, <2>3
<1> QED
  BY <1>6, <1>7, <1>8, <1>9 DEF CAMKnown

\* So do a slot that is reset or emptied, and the end of one session.
LEMMA CloseAllKeepsCAM ==
  ASSUME CAMKnown, NEW s \in Slot, CloseAll(s), active' = active \ {s}, ready' \subseteq Slot,
         UNCHANGED pmts
  PROVE  CAMKnown'
<1> DEFINE S == SessionsOf(s)
<1>1. S \in SUBSET SessionIds /\ \A i \in SessionIds \ S : Allocated(i) => table[i].slot # s
  BY DEF SessionsOf
<1>2. \A i \in SessionIds : Allocated(i) => table[i].slot \in active
  BY DEF CAMKnown, EntriesKept, HalfWay, Filled
<1> HIDE DEF S
<1>3. /\ table' = [i \in SessionIds |-> IF i \in S THEN Closed(table[i]) ELSE table[i]]
      /\ told' = [i \in SessionIds |-> IF i \in S THEN {} ELSE told[i]]
      /\ opens' = opens \ S /\ owes' = owes \ S /\ half' = half \ S /\ misled' = misled \ S
      /\ crossed' = crossed \ S
  BY DEF CloseAll, S
<1>4. opens \subseteq SessionIds /\ owes \subseteq SessionIds /\ crossed \subseteq SessionIds
  BY DEF CAMKnown, CAMTyped
<1>5. \A i \in SessionIds \ S : Allocated(i) => table[i].slot \in active'
  BY <1>1, <1>2
<1> QED
  BY <1>1, <1>3, <1>4, <1>5, ClosingKeepsCAM

LEMMA CloseSessionKeepsCAM ==
  ASSUME CAMKnown, NEW i \in SessionIds, CloseSession(i), UNCHANGED <<ready, active, pmts>>,
         opens' \subseteq SessionIds, owes' \subseteq SessionIds, crossed' \subseteq SessionIds,
         crossed \subseteq crossed',
         opens' = opens \ {i} \/ (opens' = opens /\ i \in crossed')
  PROVE  CAMKnown'
<1>1. CAMTyped
  BY DEF CAMKnown
<1>2. table' = [j \in SessionIds |-> IF j \in {i} THEN Closed(table[j]) ELSE table[j]]
  BY <1>1 DEF CloseSession, CAMTyped
<1>3. told' = [j \in SessionIds |-> IF j \in {i} THEN {} ELSE told[j]]
  BY <1>1 DEF CloseSession, CAMTyped
<1>4. half' = half \ {i} /\ misled' = misled \ {i}
  BY DEF CloseSession
<1>5. \A j \in SessionIds \ {i} : Allocated(j) => table[j].slot \in active'
  BY DEF CAMKnown, EntriesKept, HalfWay, Filled
<1>6. ready' \subseteq Slot /\ active' \subseteq active /\ UNCHANGED pmts
  BY <1>1 DEF CAMTyped
<1>7. \A j \in SessionIds \ (half' \cup crossed') : j \in opens' <=> j \in opens \ {i}
  OBVIOUS
<1>8. {i} \in SUBSET SessionIds /\ crossed \subseteq crossed' \cup {i}
  OBVIOUS
<1> QED
  BY <1>2, <1>3, <1>4, <1>5, <1>6, <1>7, <1>8, ClosingKeepsCAM

\* A session takes a free entry, and leaves it free, half way or filled.
LEMMA OpeningKeepsCAM ==
  ASSUME CAMKnown, NEW i \in SessionIds, ~Allocated(i), NEW e \in CAEntry,
         table' = [table EXCEPT ![i] = e],
         UNCHANGED <<ready, active, pmts, told, misled, crossed>>, owes' \subseteq SessionIds,
         \/ /\ e.resource = Nothing /\ e.data \in {Nothing, Released}
            /\ half' = half /\ opens' = opens
         \/ /\ e.resource # Nothing /\ e.data \in {Nothing, Released}
            /\ e.slot \in active /\ e.close = Nothing
            /\ half' = half \cup {i} /\ opens' \in {opens, opens \cup {i}}
         \/ /\ e.resource \in Known /\ e.slot \in active
            /\ e.handle = e.resource /\ e.close = e.resource /\ e.data = NewData(e.resource)
            /\ half' = half /\ opens' = opens \cup {i}
  PROVE  CAMKnown'
<1> USE CAMAssumption
<1>1. CAMTyped /\ EntriesKept /\ OpenOnBothSides /\ ToldOfCurrent
  BY DEF CAMKnown
<1>2. UNCHANGED <<service, current>>
  BY DEF pmts
<1>3. table'[i] = e /\ \A k \in SessionIds \ {i} : table'[k] = table[k]
  BY <1>1 DEF CAMTyped
<1>4. i \notin half /\ i \notin misled /\ told[i] = {}
  BY <1>1 DEF EntriesKept, ToldOfCurrent, Naming, Allocated
<1>5. half' \subseteq SessionIds /\ opens' \subseteq SessionIds
  BY <1>1 DEF CAMTyped
<1>6. CAMTyped'
  BY <1>1, <1>2, <1>5 DEF CAMTyped
<1>7. EntriesKept'
  <2>1. \A k \in SessionIds \ {i} :
          /\ ~Allocated(k)' => Vacant(k)' /\ k \notin half'
          /\ Allocated(k)' => IF k \in half' THEN HalfWay(k)' ELSE Filled(k)'
    BY <1>1, <1>3 DEF EntriesKept, HalfWay, Filled, Allocated, Vacant
  <2>2. NewData(CA) \in Systems /\ \A r \in Known \ {CA} : NewData(r) = r
    BY DEF NewData, Systems
  <2>3. /\ ~Allocated(i)' => Vacant(i)' /\ i \notin half'
        /\ Allocated(i)' => IF i \in half' THEN HalfWay(i)' ELSE Filled(i)'
    BY <1>3, <1>4, <2>2 DEF HalfWay, Filled, Allocated, Vacant
  <2> QED
    BY <2>1, <2>3 DEF EntriesKept
<1>8. OpenOnBothSides'
  BY <1>1, <1>3 DEF OpenOnBothSides, Allocated
<1>9. ToldOfCurrent'
  <2>1. \A k \in misled' : table'[k].resource = CA /\ k \notin half'
    BY <1>1, <1>3, <1>4 DEF ToldOfCurrent, CAMTyped
  <2>2. ~Naming(i)'
    <3>1. ~NewData(CA).ids
      BY DEF NewData
    <3> QED
      BY <1>3, <3>1 DEF Naming
  <2>3. \A k \in SessionIds \ {i} : (Naming(k)' <=> Naming(k)) /\ (CanAdd(table[k].data)' <=> CanAdd(table[k].data))
    BY <1>3 DEF Naming, CanAdd
  <2> QED
    BY <1>1, <1>2, <1>3, <1>4, <2>1, <2>2, <2>3 DEF ToldOfCurrent
<1> QED
  BY <1>6, <1>7, <1>8, <1>9 DEF CAMKnown

\* Numbers have a first, which is what an entry is looked for by.
LEMMA FirstNumber ==
  ASSUME NEW T \in SUBSET Nat, T # {}
  PROVE  \E m \in T : \A k \in T : m <= k
<1> DEFINE R == OpToRel(<, Nat)
<1>1. IsWellFoundedOn(R, Nat)
  BY NatLessThanWellFounded
<1>2. \A x, y \in Nat : <<x, y>> \in R <=> x < y
  BY DEF OpToRel
<1> HIDE DEF R
<1>3. T \subseteq Nat
  OBVIOUS
<1>4. \E x \in T : \A y \in T : ~ (<<y, x>> \in R)
  BY <1>1, <1>3, WFMin
<1>5. PICK x \in T : \A y \in T : ~ (<<y, x>> \in R)
  BY <1>4
<1>6. ASSUME NEW y \in T PROVE x <= y
  <2>1. x \in Nat /\ y \in Nat /\ ~ (y < x)
    BY <1>2, <1>3, <1>5
  <2> QED
    BY <2>1
<1> QED
  BY <1>6

LEMMA SessionOpenKeepsCAM ==
  ASSUME CAMKnown, NEW s \in Slot, NEW r \in Resource, SessionOpen(s, r) PROVE CAMKnown'
<1> DEFINE free == {i \in SessionIds : ~Allocated(i)}
           i == CHOOSE x \in free : \A y \in free : x <= y
           taken == [table[i] EXCEPT !.resource = r, !.slot = s, !.close = Nothing]
           filled == [taken EXCEPT !.handle = r, !.data = NewData(r), !.close = r]
           refused == [taken EXCEPT !.resource = Nothing]
<1> USE CAMAssumption
<1>1. CAMTyped /\ EntriesKept
  BY DEF CAMKnown
<1>2. s \in active /\ free # {}
  BY DEF SessionOpen
<1>3. i \in SessionIds /\ ~Allocated(i)
  <2>1. free \subseteq Nat
    BY DEF SessionIds
  <2>2. PICK x \in free : \A y \in free : x <= y
    BY <1>2, <2>1, FirstNumber
  <2> QED
    BY <2>2
<1>4. /\ \/ r \in Known /\ table' = [table EXCEPT ![i] = filled]
            /\ opens' = opens \cup {i} /\ UNCHANGED <<half, owes>>
         \/ table' = [table EXCEPT ![i] = refused] /\ UNCHANGED <<half, opens, owes>>
         \/ table' = [table EXCEPT ![i] = taken] /\ half' = half \cup {i}
            /\ opens' \in {opens, opens \cup {i}} /\ UNCHANGED owes
      /\ UNCHANGED <<ready, active, pmts, told, misled, crossed>>
  BY DEF SessionOpen
<1>5. table[i] \in CAEntry /\ table[i].data \in {Nothing, Released} /\ owes \subseteq SessionIds
  BY <1>1, <1>3 DEF CAMTyped, EntriesKept, Vacant
<1> HIDE DEF i
<1>6. /\ taken \in CAEntry /\ taken.resource = r /\ taken.slot = s /\ taken.close = Nothing
      /\ taken.data = table[i].data
  BY <1>5 DEF CAEntry
<1>7. /\ refused \in CAEntry /\ refused.resource = Nothing /\ refused.data = table[i].data
  BY <1>5 DEF CAEntry
<1>8. r \in Known =>
        /\ filled \in CAEntry /\ filled.resource = r /\ filled.slot = s /\ filled.handle = r
        /\ filled.close = r /\ filled.data = NewData(r)
  <2>1. r \in Known => NewData(r) \in Known \cup Systems
    BY DEF NewData, Systems
  <2> DEFINE n == NewData(r)
  <2> HIDE DEF n
  <2>2. r \in Known => n \in Known \cup Systems
    BY <2>1 DEF n
  <2>3. filled = [taken EXCEPT !.handle = r, !.data = n, !.close = r]
    BY DEF n
  <2> HIDE DEF taken, filled
  <2> QED
    BY <1>6, <2>2, <2>3 DEF CAEntry, n
<1> HIDE DEF taken, filled, refused
<1>9. r # Nothing /\ owes' \subseteq SessionIds
  BY <1>4, <1>5
<1>10. CASE r \in Known /\ table' = [table EXCEPT ![i] = filled]
            /\ opens' = opens \cup {i} /\ UNCHANGED <<half, owes>>
  BY <1>2, <1>3, <1>4, <1>8, <1>9, <1>10, OpeningKeepsCAM
<1>11. CASE table' = [table EXCEPT ![i] = refused] /\ UNCHANGED <<half, opens, owes>>
  BY <1>3, <1>4, <1>5, <1>7, <1>9, <1>11, OpeningKeepsCAM
<1>12. CASE table' = [table EXCEPT ![i] = taken] /\ half' = half \cup {i}
            /\ opens' \in {opens, opens \cup {i}} /\ UNCHANGED owes
  BY <1>2, <1>3, <1>4, <1>5, <1>6, <1>9, <1>12, OpeningKeepsCAM
<1> QED
  BY <1>4, <1>10, <1>11, <1>12

\* Where all sessions for conditional access are usable, they have what is
\* needed to tell their modules.
LEMMA UsableSessions ==
  ASSUME CAMKnown, \A k \in CASessions : ~Unusable(k)
  PROVE  \A k \in CASessions : k \notin half /\ table[k].data \in Systems /\ Filled(k)
<1>1. EntriesKept
  BY DEF CAMKnown
<1> SUFFICES ASSUME NEW k \in CASessions
             PROVE  k \notin half /\ table[k].data \in Systems /\ Filled(k)
  OBVIOUS
<1>2. k \in SessionIds /\ table[k].resource = CA /\ Allocated(k)
  BY CAMAssumption DEF CASessions, Allocated
<1>3. ~Vacant(k)
  BY DEF Unusable, Vacant
<1>4. k \notin half
  BY <1>1, <1>2, <1>3 DEF EntriesKept, HalfWay
<1>5. Filled(k)
  BY <1>1, <1>2, <1>4 DEF EntriesKept
<1> QED
  BY <1>2, <1>4, <1>5 DEF Filled

\* Sessions for conditional access get other data, and their modules are told
\* more or less; what fails counts as misled.
LEMMA TellingKeepsCAM ==
  ASSUME CAMKnown, \A k \in CASessions : ~Unusable(k),
         NEW d, \A k \in CASessions : d[k] \in Systems,
         NEW will, \A k \in CASessions : will[k] \subseteq Program,
         \A k \in SessionIds \ CASessions : will[k] = told[k],
         NEW fails \in SUBSET CASessions, Tell(will, fails),
         table' = [k \in SessionIds |->
                     IF k \in CASessions THEN [table[k] EXCEPT !.data = d[k]] ELSE table[k]],
         UNCHANGED <<ready, active, service, opens, owes, half, crossed>>,
         current' \in Program \cup {Nothing},
         \A k \in CASessions \ misled :
           IF d[k].ids
           THEN /\ will[k] \subseteq {current'} \cap Compatible
                /\ will[k] = {current'} \cap Compatible \/ ~CanAdd(d[k])
           ELSE will[k] = {}
  PROVE  CAMKnown'
<1> USE CAMAssumption
<1>1. CAMTyped /\ EntriesKept /\ OpenOnBothSides /\ ToldOfCurrent
  BY DEF CAMKnown
<1>2. \A k \in CASessions : k \notin half /\ Filled(k)
  BY UsableSessions
<1>3. \A k \in CASessions :
        /\ table'[k] \in CAEntry /\ table'[k].data = d[k] /\ table'[k].resource = CA
        /\ table'[k].slot = table[k].slot /\ table'[k].handle = table[k].handle
        /\ table'[k].close = table[k].close
  <2> TAKE k \in CASessions
  <2>1. table[k] \in CAEntry /\ d[k] \in Systems /\ table[k].resource = CA /\ k \in SessionIds
    BY <1>1 DEF CAMTyped, CASessions
  <2>2. table'[k] = [table[k] EXCEPT !.data = d[k]]
    BY <2>1
  <2> QED
    BY <2>1, <2>2, OtherData, ZenonT(40)
<1>4. \A k \in SessionIds \ CASessions : table'[k] = table[k]
  OBVIOUS
<1>5. \A k \in SessionIds : told'[k] = IF k \in fails THEN told[k] ELSE will[k]
  BY DEF Tell, Missed
<1>6. misled' = misled \cup {k \in fails : will[k] # told[k]}
  BY DEF Tell
<1>7. CASessions \subseteq SessionIds /\ CASessions' = CASessions
  BY <1>3, <1>4 DEF CASessions
<1>8. CAMTyped'
  <2>1. table' \in [SessionIds -> CAEntry]
    BY <1>1, <1>3, <1>4 DEF CAMTyped
  <2>2. told' \in [SessionIds -> SUBSET Program]
    <3>1. told' = [k \in SessionIds |-> told'[k]]
      BY DEF Tell
    <3>2. \A k \in SessionIds : told'[k] \subseteq Program
      BY <1>1, <1>5 DEF CAMTyped
    <3> QED
      BY <3>1, <3>2
  <2>3. misled' \subseteq SessionIds
    BY <1>1, <1>6, <1>7 DEF CAMTyped
  <2> QED
    BY <1>1, <2>1, <2>2, <2>3 DEF CAMTyped
<1>9. EntriesKept'
  <2>1. \A k \in CASessions : Filled(k)' /\ Allocated(k)' /\ k \notin half'
    <3>1. \A k \in CASessions : table[k].resource = CA
      BY DEF CASessions
    <3> SUFFICES ASSUME NEW k \in CASessions PROVE Filled(k)' /\ Allocated(k)' /\ k \notin half'
      OBVIOUS
    <3>2. k \notin half' /\ active' = active
      BY <1>2
    <3>3. table'[k].resource = table[k].resource /\ table[k].resource = CA
      BY <1>3, <3>1
    <3>4. table'[k].data \in Systems /\ CA \in Known /\ CA # Nothing
      BY <1>3
    <3>5. table[k].slot \in active /\ table[k].handle = CA /\ table[k].close = CA
      BY <1>2, <3>3 DEF Filled
    <3>6. table'[k].slot \in active /\ table'[k].handle = CA /\ table'[k].close = CA
      BY <1>3, <3>5
    <3> QED
      BY <3>2, <3>3, <3>4, <3>6 DEF Filled, Allocated
  <2>2. \A k \in SessionIds \ CASessions :
          /\ ~Allocated(k)' => Vacant(k)' /\ k \notin half'
          /\ Allocated(k)' => IF k \in half' THEN HalfWay(k)' ELSE Filled(k)'
    BY <1>1, <1>4 DEF EntriesKept, HalfWay, Filled, Allocated, Vacant
  <2> QED
    BY <2>1, <2>2 DEF EntriesKept
<1>10. OpenOnBothSides'
  <2>1. \A k \in SessionIds : Allocated(k)' <=> Allocated(k)
    BY <1>3, <1>4 DEF Allocated, CASessions
  <2> QED
    BY <1>1, <2>1 DEF OpenOnBothSides
<1>11. ToldOfCurrent'
  <2>1. \A k \in misled' : table'[k].resource = CA /\ k \notin half'
    <3> TAKE k \in misled'
    <3>1. k \in CASessions \/ k \in misled
      BY <1>6
    <3>2. k \in CASessions
      BY <1>1, <3>1 DEF ToldOfCurrent, CASessions, CAMTyped
    <3> QED
      BY <1>2, <1>3, <3>2
  <2> SUFFICES ASSUME NEW k \in SessionIds \ misled'
               PROVE  IF Naming(k)'
                      THEN /\ told'[k] \subseteq {current'} \cap Compatible
                           /\ told'[k] = {current'} \cap Compatible \/ ~CanAdd(table[k].data)'
                      ELSE told'[k] = {}
    BY <2>1 DEF ToldOfCurrent
  <2>2. k \notin misled /\ told'[k] = will[k]
    BY <1>5, <1>6
  <2>3. CASE k \in CASessions
    <3>1. Naming(k)' <=> d[k].ids
      BY <1>2, <1>3, <2>3 DEF Naming
    <3>2. CanAdd(table[k].data)' <=> CanAdd(d[k])
      BY <1>3, <2>3 DEF CanAdd
    <3> QED
      BY <2>2, <2>3, <3>1, <3>2
  <2>4. CASE k \notin CASessions
    <3>1. ~Naming(k)' /\ ~Naming(k) /\ told'[k] = told[k]
      BY <1>4, <2>2, <2>4 DEF Naming, CASessions
    <3> QED
      BY <1>1, <2>2, <3>1 DEF ToldOfCurrent
  <2> QED
    BY <2>3, <2>4
<1> QED
  BY <1>8, <1>9, <1>10, <1>11 DEF CAMKnown

\* What a session counts and tells its module when a program is added.
LEMMA AddedOnce ==
  ASSUME NEW i, NEW d \in Systems, NEW p \in Program, NEW t \in SUBSET Program
  PROVE  /\ Added(d) \in Systems /\ Added(d).ids = d.ids
         /\ AddTells(i, d, p, t) \subseteq Program
         /\ ~d.ids => AddTells(i, d, p, t) = t
         /\ ~CanAdd(d) => Added(d) = d /\ AddTells(i, d, p, t) = t
         /\ p \notin Compatible => AddTells(i, d, p, t) = t
         /\ d.ids /\ CanAdd(d) /\ p \in Compatible /\ t \subseteq {p} => AddTells(i, d, p, t) = {p}
<1>1. Added(d) \in Systems /\ Added(d).ids = d.ids
  BY DEF Added, Systems
<1> QED
  BY <1>1 DEF Added, AddTells

\* A module that names its systems has the current program sent in every session.
LEMMA CAInfoKeepsCAM ==
  ASSUME CAMKnown, NEW i \in SessionIds, CAInfo(i), ~crashed' PROVE CAMKnown'
<1> USE CAMAssumption
<1>1. CAMTyped /\ EntriesKept /\ OpenOnBothSides /\ ToldOfCurrent
  BY DEF CAMKnown
<1>2. i \in CASessions /\ i \notin half /\ Filled(i) /\ table[i].data \in Systems /\ table[i] \in CAEntry
  <2>1. table[i].resource = CA /\ i \notin half /\ Allocated(i)
    BY DEF CAInfo, Allocated
  <2> QED
    BY <1>1, <2>1 DEF EntriesKept, CASessions, Filled, CAMTyped
<1> DEFINE data == [table[i].data EXCEPT !.ids = TRUE]
           named == [table EXCEPT ![i].data.ids = TRUE]
<1>3. data \in Systems /\ data.ids /\ data.count = table[i].data.count
  BY <1>2 DEF Systems
<1>4. named = [table EXCEPT ![i] = [table[i] EXCEPT !.data = data]]
  BY <1>1 DEF CAMTyped
<1> DEFINE e == [table[i] EXCEPT !.data = data]
<1> HIDE DEF data
<1>5. /\ e \in CAEntry /\ e.data = data /\ e.resource = table[i].resource
      /\ e.slot = table[i].slot /\ e.handle = table[i].handle /\ e.close = table[i].close
  BY <1>2, <1>3, OtherData
<1> HIDE DEF e
<1>6. named = [table EXCEPT ![i] = e]
  BY <1>4 DEF e
<1> HIDE DEF named
<1>7. UNCHANGED <<ready, active, opens, owes, service, current, half, crossed>>
  BY DEF CAInfo, module, pmts
<1>8. \A k \in SessionIds \ misled :
        IF Naming(k) THEN /\ told[k] \subseteq {current} \cap Compatible
                          /\ told[k] = {current} \cap Compatible \/ ~CanAdd(table[k].data)
        ELSE told[k] = {}
  BY <1>1 DEF ToldOfCurrent
<1>9. CASE current = Nothing /\ table' = named /\ UNCHANGED <<told, misled>>
  <2>1. table'[i] = e /\ \A k \in SessionIds \ {i} : table'[k] = table[k]
    BY <1>1, <1>6, <1>9 DEF CAMTyped
  <2>2. CAMTyped'
    BY <1>1, <1>5, <1>6, <1>7, <1>9 DEF CAMTyped
  <2>3. EntriesKept'
    <3>1. \A k \in SessionIds \ {i} :
            /\ ~Allocated(k)' => Vacant(k)' /\ k \notin half'
            /\ Allocated(k)' => IF k \in half' THEN HalfWay(k)' ELSE Filled(k)'
      BY <1>1, <1>7, <2>1 DEF EntriesKept, HalfWay, Filled, Allocated, Vacant
    <3>2. Allocated(i)' /\ i \notin half' /\ Filled(i)'
      BY <1>2, <1>3, <1>5, <1>7, <2>1 DEF CASessions, Filled, Allocated
    <3> QED
      BY <3>1, <3>2 DEF EntriesKept
  <2>4. OpenOnBothSides'
    BY <1>1, <1>5, <1>7, <2>1 DEF OpenOnBothSides, Allocated
  <2>5. ToldOfCurrent'
    <3>1. \A k \in SessionIds \ {i} : (Naming(k)' <=> Naming(k)) /\ (CanAdd(table[k].data)' <=> CanAdd(table[k].data))
      BY <1>7, <2>1 DEF Naming, CanAdd
    <3>2. \A k \in misled' : table'[k].resource = CA /\ k \notin half'
      BY <1>1, <1>5, <1>7, <1>9, <2>1 DEF ToldOfCurrent, CAMTyped
    <3>3. i \notin misled => told[i] = {} /\ Naming(i)'
      <4>1. Naming(i)'
        BY <1>2, <1>3, <1>5, <1>7, <2>1 DEF Naming, CASessions
      <4>2. Nothing \notin Compatible
        OBVIOUS
      <4> QED
        BY <1>8, <1>9, <4>1, <4>2
    <3>4. {current} \cap Compatible = {}
      BY <1>9
    <3> QED
      BY <1>7, <1>8, <1>9, <3>1, <3>2, <3>3, <3>4 DEF ToldOfCurrent
  <2> QED
    BY <2>2, <2>3, <2>4, <2>5 DEF CAMKnown
<1>10. CASE current # Nothing /\ (\A k \in CASessions : ~Unusable(k)) /\ AddPMT(named, current)
  <2> DEFINE d == [k \in SessionIds |-> Added(named[k].data)]
             will == [k \in SessionIds |->
                        IF k \in CASessions THEN AddTells(k, named[k].data, current, told[k]) ELSE told[k]]
  <2>1. PICK fails \in SUBSET CASessions :
          /\ Tell(will, fails)
          /\ table' = [k \in SessionIds |->
                         IF k \in CASessions THEN [named[k] EXCEPT !.data = Added(@)] ELSE named[k]]
    BY <1>10 DEF AddPMT
  <2>2. named[i] = e /\ \A k \in SessionIds \ {i} : named[k] = table[k]
    BY <1>1, <1>6 DEF CAMTyped
  <2>3. \A k \in CASessions : k \notin half /\ table[k].data \in Systems
    BY <1>10, UsableSessions
  <2>4. current \in Program /\ CASessions \subseteq SessionIds
    BY <1>1, <1>10 DEF CAMTyped, CASessions
  <2>5. \A k \in CASessions : /\ named[k].data \in Systems
                              /\ named[k].data.count = table[k].data.count
                              /\ table[k].data.ids => named[k].data.ids
    <3> TAKE k \in CASessions
    <3>1. CASE k = i
      BY <1>3, <1>5, <2>2, <3>1
    <3>2. CASE k # i
      BY <2>2, <2>3, <2>4, <3>2
    <3> QED
      BY <3>1, <3>2
  <2>6. \A k \in SessionIds : told[k] \in SUBSET Program
    BY <1>1 DEF CAMTyped
  <2>7. \A k \in CASessions : d[k] \in Systems /\ will[k] \subseteq Program
    BY <2>5, <2>4, <2>6, AddedOnce
  <2>8. \A k \in SessionIds \ CASessions : will[k] = told[k]
    OBVIOUS
  <2>9. table' = [k \in SessionIds |->
                    IF k \in CASessions THEN [table[k] EXCEPT !.data = d[k]] ELSE table[k]]
    <3>1. [named[i] EXCEPT !.data = Added(@)] = [table[i] EXCEPT !.data = d[i]]
      <4>1. [e EXCEPT !.data = Added(e.data)] = [table[i] EXCEPT !.data = Added(e.data)]
        BY <1>2 DEF e, CAEntry
      <4> QED
        BY <2>2, <4>1
    <3>2. \A k \in CASessions \ {i} : [named[k] EXCEPT !.data = Added(@)] = [table[k] EXCEPT !.data = d[k]]
      BY <2>2, <2>4
    <3> QED
      BY <1>2, <2>1, <2>2, <3>1, <3>2
  <2>10. ASSUME NEW k \in CASessions \ misled
         PROVE  IF d[k].ids
                THEN /\ will[k] \subseteq {current} \cap Compatible
                     /\ will[k] = {current} \cap Compatible \/ ~CanAdd(d[k])
                ELSE will[k] = {}
    <3> DEFINE c == named[k].data
    <3>1. c \in Systems /\ k \in SessionIds
      BY <2>5, <2>4
    <3>2. d[k] = Added(c) /\ will[k] = AddTells(k, c, current, told[k])
      BY <2>4
    <3>3. CanAdd(c) <=> CanAdd(table[k].data)
      BY <2>5 DEF CanAdd
    <3>4. Naming(k) => c.ids
      BY <2>5 DEF Naming
    <3> HIDE DEF c, d, will
    <3>5. CASE ~c.ids
      <4>1. told[k] = {}
        BY <1>8, <2>4, <3>4, <3>5
      <4> QED
        BY <2>4, <2>6, <3>1, <3>2, <3>5, <4>1, AddedOnce
    <3>6. CASE c.ids
      <4>1. /\ told[k] \subseteq {current} \cap Compatible
            /\ told[k] = {current} \cap Compatible \/ ~CanAdd(c) \/ told[k] = {}
        BY <1>8, <3>1, <3>3
      <4>2. Added(c).ids
        BY <2>4, <2>6, <3>1, <3>6, AddedOnce
      <4>3. CASE ~CanAdd(c)
        BY <2>4, <2>6, <3>1, <3>2, <4>1, <4>2, <4>3, AddedOnce
      <4>4. CASE CanAdd(c) /\ current \in Compatible
        <5>1. will[k] = {current}
          BY <2>4, <2>6, <3>1, <3>2, <3>6, <4>1, <4>4, AddedOnce
        <5> QED
          BY <3>2, <4>2, <4>4, <5>1
      <4>5. CASE current \notin Compatible
        <5>2. AddTells(k, c, current, told[k]) = told[k]
          BY <4>5 DEF AddTells
        <5>3. will[k] = told[k]
          BY <3>2, <5>2
        <5> QED
          BY <3>2, <4>1, <4>2, <4>5, <5>3
      <4> QED
        BY <4>3, <4>4, <4>5
    <3> QED
      BY <3>5, <3>6
  <2> HIDE DEF d, will
  <2> QED
    BY <1>1, <1>7, <1>10, <2>1, <2>4, <2>7, <2>8, <2>9, <2>10, TellingKeepsCAM
<1> QED
  BY <1>9, <1>10 DEF CAInfo, Crash, named

\* A PMT without anything to descramble is taken back in every session.
LEMMA DeletePMTKeepsCAM ==
  ASSUME CAMKnown, NEW p \in Program, PMTDeleted(p), ~crashed',
         UNCHANGED <<ready, active, module, service, half, crossed>>
  PROVE  CAMKnown'
<1> USE CAMAssumption
<1>1. CAMTyped /\ ToldOfCurrent
  BY DEF CAMKnown
<1>2. /\ current \in Program /\ current' = Nothing
      /\ (\A k \in CASessions : ~Unusable(k)) /\ DeletePMT(current)
  BY <1>1 DEF PMTDeleted, Crash, CAMTyped
<1> DEFINE d == [k \in SessionIds |-> [table[k].data EXCEPT !.count = @ - 1]]
           will == [k \in SessionIds |->
                      IF k \in CASessions /\ Sends(k, current) THEN told[k] \ {current} ELSE told[k]]
<1>3. PICK fails \in SUBSET CASessions :
        /\ Tell(will, fails)
        /\ table' = [k \in SessionIds |->
                       IF k \in CASessions THEN [table[k] EXCEPT !.data.count = @ - 1] ELSE table[k]]
  BY <1>2 DEF DeletePMT
<1>4. \A k \in CASessions : k \notin half /\ table[k].data \in Systems /\ k \in SessionIds
  BY <1>2, UsableSessions DEF CASessions
<1>5. \A k \in CASessions : /\ d[k] \in Systems /\ d[k].ids = table[k].data.ids
                            /\ will[k] \subseteq Program
  <2> TAKE k \in CASessions
  <2>1. told[k] \in SUBSET Program
    BY <1>1, <1>4 DEF CAMTyped
  <2>2. table[k].data \in Systems /\ d[k] = [table[k].data EXCEPT !.count = @ - 1]
    BY <1>4
  <2> HIDE DEF d
  <2> QED
    BY <1>4, <2>1, <2>2 DEF Systems
<1>6. \A k \in SessionIds \ CASessions : will[k] = told[k]
  OBVIOUS
<1>7. table' = [k \in SessionIds |->
                  IF k \in CASessions THEN [table[k] EXCEPT !.data = d[k]] ELSE table[k]]
  BY <1>3, <1>4
<1>8. ASSUME NEW k \in CASessions \ misled
      PROVE  IF d[k].ids
             THEN /\ will[k] \subseteq {current'} \cap Compatible
                  /\ will[k] = {current'} \cap Compatible \/ ~CanAdd(d[k])
             ELSE will[k] = {}
  <2>1. k \in SessionIds \ misled /\ (Naming(k) <=> table[k].data.ids)
    BY <1>4 DEF Naming, CASessions
  <2>2. IF table[k].data.ids
        THEN told[k] \subseteq {current} \cap Compatible
        ELSE told[k] = {}
    BY <1>1, <2>1 DEF ToldOfCurrent
  <2>3. {current'} \cap Compatible = {}
    BY <1>2
  <2>4. will[k] = IF Sends(k, current) THEN told[k] \ {current} ELSE told[k]
    BY <2>1
  <2>5. Sends(k, current) <=> table[k].data.ids /\ current \in Compatible
    BY DEF Sends
  <2>6. d[k].ids = table[k].data.ids
    BY <1>5
  <2> HIDE DEF d, will
  <2> QED
    BY <2>2, <2>3, <2>4, <2>5, <2>6
<1> HIDE DEF d, will
<1>9. UNCHANGED <<ready, active, service, opens, owes, half, crossed>>
  BY <1>2 DEF module
<1> QED
  BY <1>2, <1>3, <1>5, <1>6, <1>7, <1>8, <1>9, TellingKeepsCAM

\* The PMT of the program that is watched: the first of it finds no session to
\* tell, and its updates change nothing of what is told.
LEMMA ProcessPMTKeepsCAM ==
  ASSUME CAMKnown, NEW p \in Program, ProcessPMT(p), ~crashed' PROVE CAMKnown'
<1> USE CAMAssumption
<1>1. CAMTyped /\ EntriesKept /\ OpenOnBothSides /\ ToldOfCurrent
  BY DEF CAMKnown
<1>2. UNCHANGED <<ready, active, opens, owes, service, half, crossed>>
  BY DEF ProcessPMT, module
<1>3. ASSUME UNCHANGED <<table, told>>, current' = p,
             misled \subseteq misled',
             misled' \subseteq misled \cup {k \in CASessions : table[k].data.ids /\ ~Unusable(k)},
             \A k \in SessionIds \ misled' :
               Naming(k) => p = current \/ {p, current} \cap Compatible = {}
      PROVE  CAMKnown'
  <2>1. CAMTyped'
    BY <1>1, <1>2, <1>3 DEF CAMTyped, CASessions
  <2>2. EntriesKept' /\ OpenOnBothSides'
    BY <1>1, <1>2, <1>3 DEF EntriesKept, OpenOnBothSides, Allocated, HalfWay, Filled, Vacant
  <2>3. \A i \in misled' : table'[i].resource = CA /\ i \notin half'
    <3> TAKE i \in misled'
    <3>1. CASE i \in misled
      BY <1>1, <1>2, <1>3, <3>1 DEF ToldOfCurrent
    <3>2. CASE i \in CASessions /\ ~Unusable(i)
      <4>1. i \in SessionIds /\ table[i].resource = CA /\ Allocated(i)
        BY <3>2 DEF CASessions, Allocated
      <4>2. ~HalfWay(i)
        BY <3>2 DEF HalfWay, Vacant, Unusable
      <4> QED
        BY <1>1, <1>2, <1>3, <4>1, <4>2 DEF EntriesKept
    <3> QED
      BY <1>3, <3>1, <3>2
  <2>4. ToldOfCurrent'
    <3>1. \A i \in SessionIds : (Naming(i)' <=> Naming(i)) /\ (CanAdd(table[i].data)' <=> CanAdd(table[i].data))
      BY <1>2, <1>3 DEF Naming, CanAdd
    <3>2. ASSUME NEW i \in SessionIds \ misled'
          PROVE  IF Naming(i)
                 THEN /\ told[i] \subseteq {p} \cap Compatible
                      /\ told[i] = {p} \cap Compatible \/ ~CanAdd(table[i].data)
                 ELSE told[i] = {}
      <4>1. IF Naming(i)
            THEN /\ told[i] \subseteq {current} \cap Compatible
                 /\ told[i] = {current} \cap Compatible \/ ~CanAdd(table[i].data)
            ELSE told[i] = {}
        BY <1>1, <1>3, <3>2 DEF ToldOfCurrent
      <4>2. Naming(i) => {p} \cap Compatible = {current} \cap Compatible
        BY <1>3, <3>2
      <4> QED
        BY <4>1, <4>2
    <3> QED
      BY <1>3, <2>3, <3>1, <3>2 DEF ToldOfCurrent
  <2> QED
    BY <2>1, <2>2, <2>4 DEF CAMKnown
<1>4. CASE PMTAdded(p)
  <2>1. CASessions = {} /\ UNCHANGED <<table, told, misled>> /\ current' = p
    BY <1>4 DEF PMTAdded, Crash
  <2>2. \A k \in SessionIds : ~Naming(k)
    BY <2>1 DEF Naming, CASessions
  <2> QED
    BY <1>3, <2>1, <2>2
<1>5. CASE PMTUpdated(p)
  <2>1. /\ UpdatePMT(p) /\ current' = p
        /\ \A k \in CASessions : ~Unusable(k)
    BY <1>5 DEF PMTUpdated, Crash
  <2>2. /\ UNCHANGED <<table, told>>
        /\ misled' = misled \cup {k \in CASessions : /\ table[k].data.ids /\ p # current
                                                     /\ {p, current} \cap Compatible # {}}
    BY <2>1 DEF UpdatePMT
  <2>3. \A k \in SessionIds \ misled' :
          Naming(k) => p = current \/ {p, current} \cap Compatible = {}
    BY <2>2 DEF Naming, CASessions
  <2>4. misled' \subseteq misled \cup {k \in CASessions : table[k].data.ids /\ ~Unusable(k)}
    BY <2>1, <2>2
  <2> QED
    BY <1>3, <2>1, <2>2, <2>3, <2>4
<1>6. CASE PMTDeleted(p)
  BY <1>6, DeletePMTKeepsCAM DEF ProcessPMT
<1> QED
  BY <1>4, <1>5, <1>6 DEF ProcessPMT

\* Steps that touch neither the sessions nor what their modules were told.
LEMMA OthersKeepCAM ==
  ASSUME CAMKnown, UNCHANGED <<table, opens, current, told, half, misled, crossed>>,
         ready' \subseteq Slot, active \subseteq active', active' \subseteq Slot,
         service' \in Program, owes' \subseteq SessionIds
  PROVE  CAMKnown'
<1>1. CAMTyped /\ EntriesKept /\ OpenOnBothSides /\ ToldOfCurrent
  BY DEF CAMKnown
<1>2. CAMTyped'
  BY <1>1 DEF CAMTyped
<1>3. EntriesKept' /\ OpenOnBothSides'
  BY <1>1 DEF EntriesKept, OpenOnBothSides, Allocated, HalfWay, Filled, Vacant
<1>4. ToldOfCurrent'
  BY <1>1 DEF ToldOfCurrent, Naming, CanAdd
<1> QED
  BY <1>2, <1>3, <1>4 DEF CAMKnown

\* A step of slots, sessions or PMTs keeps what is known.
LEMMA NextKeepsCAM == CAMKnown /\ CAMNext /\ ~crashed' => CAMKnown'
<1> SUFFICES ASSUME CAMKnown, CAMNext, ~crashed' PROVE CAMKnown'
  OBVIOUS
<1>1. CAMTyped
  BY DEF CAMKnown
<1>2. ASSUME NEW s \in Slot, Insert(s) \/ InitSlot(s) PROVE CAMKnown'
  <2>1. UNCHANGED <<table, opens, owes, service, current, told, half, misled, crossed>>
    BY <1>2 DEF Insert, InitSlot, module, pmts
  <2>2. ready' \subseteq Slot /\ active \subseteq active' /\ active' \subseteq Slot
    BY <1>1, <1>2 DEF Insert, InitSlot, CAMTyped
  <2> QED
    BY <1>1, <2>1, <2>2, OthersKeepCAM DEF CAMTyped
<1>3. ASSUME NEW s \in Slot, Removed(s) \/ ResetSlot(s) PROVE CAMKnown'
  <2>1. CloseAll(s) /\ active' = active \ {s} /\ ready' \subseteq Slot /\ UNCHANGED pmts
    BY <1>1, <1>3 DEF Removed, ResetSlot, CAMTyped
  <2> QED
    BY <2>1, CloseAllKeepsCAM
<1>4. ASSUME NEW s \in Slot, NEW r \in Resource, SessionOpen(s, r) PROVE CAMKnown'
  BY <1>4, SessionOpenKeepsCAM
<1>5. ASSUME NEW i \in SessionIds, CAInfo(i) PROVE CAMKnown'
  BY <1>5, CAInfoKeepsCAM
<1>6. ASSUME NEW i \in SessionIds, MMICloseMessage(i) PROVE CAMKnown'
  <2>1. UNCHANGED <<ready, active, table, opens, service, current, told, half, misled, crossed>>
    BY <1>6 DEF MMICloseMessage, pmts
  <2>2. owes' \subseteq SessionIds
    BY <1>1, <1>6 DEF MMICloseMessage, CAMTyped
  <2> QED
    BY <1>1, <2>1, <2>2, OthersKeepCAM DEF CAMTyped
<1>7. ASSUME NEW i \in SessionIds, SessionClose(i) PROVE CAMKnown'
  <2>1. CloseSession(i) /\ UNCHANGED <<ready, active, pmts>> /\ opens' = opens \ {i}
    BY <1>7 DEF SessionClose
  <2>2. /\ opens' \subseteq SessionIds /\ owes' \subseteq SessionIds
        /\ crossed' \subseteq SessionIds /\ crossed \subseteq crossed'
    BY <1>1, <1>7 DEF SessionClose, CAMTyped
  <2> QED
    BY <2>1, <2>2, CloseSessionKeepsCAM
<1>8. ASSUME NEW i \in SessionIds, CloseConfirmed(i) PROVE CAMKnown'
  <2>1. CloseSession(i) /\ UNCHANGED <<ready, active, pmts, crossed>>
    BY <1>8 DEF CloseConfirmed
  <2>2. opens' = opens \ {i} \/ (opens' = opens /\ i \in crossed')
    BY <1>8, <2>1 DEF CloseConfirmed
  <2>3. /\ opens' \subseteq SessionIds /\ owes' \subseteq SessionIds
        /\ crossed' \subseteq SessionIds /\ crossed \subseteq crossed'
    BY <1>1, <1>8, <2>1, <2>2 DEF CloseConfirmed, CAMTyped
  <2> QED
    BY <2>1, <2>2, <2>3, CloseSessionKeepsCAM
<1>9. ASSUME NEW p \in Program, ProcessPMT(p) PROVE CAMKnown'
  BY <1>9, ProcessPMTKeepsCAM
<1>10. ASSUME NEW p \in Program, Select(p) PROVE CAMKnown'
  <2>1. UNCHANGED <<ready, active, table, opens, owes, current, told, half, misled, crossed>>
    BY <1>10 DEF Select, module
  <2>2. service' \in Program
    BY <1>10 DEF Select
  <2> QED
    BY <1>1, <2>1, <2>2, OthersKeepCAM DEF CAMTyped
<1> QED
  BY <1>2, <1>3, <1>4, <1>5, <1>6, <1>7, <1>8, <1>9, <1>10 DEF CAMNext

LEMMA OwedStayOpen ==
  ASSUME CAMTyped, OwedAreOpen, CAMNext PROVE OwedAreOpen'
<1> USE DEF OwedAreOpen
<1>1. ASSUME NEW s \in Slot, Removed(s) \/ ResetSlot(s) PROVE OwedAreOpen'
  BY <1>1 DEF Removed, ResetSlot, CloseAll
<1>2. ASSUME NEW s \in Slot, NEW r \in Resource, SessionOpen(s, r) PROVE OwedAreOpen'
  <2>1. owes' = owes /\ crossed' = crossed /\ opens \subseteq opens'
    BY <1>2 DEF SessionOpen
  <2> QED
    BY <2>1
<1>3. ASSUME NEW i \in SessionIds, MMICloseMessage(i) PROVE OwedAreOpen'
  BY <1>3 DEF MMICloseMessage
<1>4. ASSUME NEW i \in SessionIds, SessionClose(i) PROVE OwedAreOpen'
  <2>1. opens' = opens \ {i} /\ owes' = owes
        /\ crossed' = IF i \in owes THEN crossed \cup {i} ELSE crossed
    BY <1>4 DEF SessionClose
  <2> QED
    BY <2>1
<1>5. ASSUME NEW i \in SessionIds, CloseConfirmed(i) PROVE OwedAreOpen'
  <2>1. owes' = owes \ {i} /\ opens \ {i} \subseteq opens' /\ crossed' = crossed
    BY <1>5 DEF CloseConfirmed
  <2> QED
    BY <2>1
<1>6. \/ UNCHANGED <<opens, owes, crossed>>
      \/ \E s \in Slot : Removed(s) \/ ResetSlot(s) \/ \E r \in Resource : SessionOpen(s, r)
      \/ \E i \in SessionIds : MMICloseMessage(i) \/ SessionClose(i) \/ CloseConfirmed(i)
  BY DEF CAMNext, Insert, InitSlot, CAInfo, ProcessPMT, Select, module
<1> QED
  BY <1>1, <1>2, <1>3, <1>4, <1>5, <1>6

\* What is unusable was opened half way.
LEMMA UnusableIsHalf ==
  ASSUME CAMKnown, NEW k \in CASessions, Unusable(k) PROVE k \in half
<1>1. k \in SessionIds /\ table[k].resource = CA /\ Allocated(k)
  BY CAMAssumption DEF CASessions, Allocated
<1>2. \A x \in {Nothing, Released} \cup Known : x \notin Systems
  BY CAMAssumption DEF Systems
<1>3. ~Filled(k)
  BY <1>1, <1>2 DEF Filled, Unusable
<1> QED
  BY <1>1, <1>3 DEF CAMKnown, EntriesKept

\* A step that crashes the program is one of those named.
LEMMA CrashingStep ==
  ASSUME CAMKnown, OwedAreOpen, CAMNext, crashed = FALSE, crashed' # FALSE
  PROVE  crashed' = TRUE /\ OnlyEarlySessionsCrash'
<1>1. ASSUME NEW i \in SessionIds, CAInfo(i) PROVE crashed' = TRUE /\ OnlyEarlySessionsCrash'
  <2>1. /\ crashed' = TRUE /\ half' = half
        /\ \E k \in CASessions : Unusable(k)
    <3>1. half' = half /\ (Crash \/ UNCHANGED crashed)
          /\ (Crash => (\E k \in CASessions : Unusable(k)) \/ UNCHANGED crashed)
      BY <1>1 DEF CAInfo
    <3> QED
      BY <3>1 DEF Crash
  <2> QED
    BY <2>1, UnusableIsHalf DEF OnlyEarlySessionsCrash
<1>2. ASSUME NEW i \in SessionIds, CloseConfirmed(i) PROVE crashed' = TRUE /\ OnlyEarlySessionsCrash'
  <2>1. /\ i \in owes /\ ~Allocated(i) /\ crossed' = crossed
        /\ crashed' = TRUE
    BY <1>2 DEF CloseConfirmed
  <2>2. i \in crossed
    <3>1. i \notin half
      BY <2>1 DEF CAMKnown, EntriesKept
    <3>2. i \in opens \/ i \in crossed
      BY <2>1 DEF OwedAreOpen
    <3> QED
      BY <2>1, <3>1, <3>2 DEF CAMKnown, OpenOnBothSides
  <2> QED
    BY <2>1, <2>2 DEF OnlyEarlySessionsCrash
<1>3. ASSUME NEW p \in Program, ProcessPMT(p) PROVE crashed' = TRUE /\ OnlyEarlySessionsCrash'
  <2>1. half' = half
    BY <1>3 DEF ProcessPMT
  <2>2. CASE \E k \in CASessions : Unusable(k)
    <3>1. half' # {}
      BY <2>1, <2>2, UnusableIsHalf
    <3>2. crashed' = TRUE
      BY <1>3, <2>2 DEF ProcessPMT, PMTAdded, PMTUpdated, PMTDeleted, Crash
    <3> QED
      BY <3>1, <3>2 DEF OnlyEarlySessionsCrash
  <2>3. CASE \A k \in CASessions : ~Unusable(k)
    <3>1. /\ PMTAdded(p) /\ CASessions # {} /\ Crash
      <4>1. ~PMTUpdated(p)
        BY <2>3 DEF PMTUpdated
      <4>2. ~PMTDeleted(p)
        BY <2>3 DEF PMTDeleted
      <4>3. PMTAdded(p)
        BY <1>3, <4>1, <4>2 DEF ProcessPMT
      <4>4. CASessions # {}
        <5> SUFFICES ASSUME CASessions = {} PROVE crashed' = crashed
          OBVIOUS
        <5>1. UNCHANGED <<table, told, misled, crashed>>
          BY <4>3 DEF PMTAdded
        <5> QED
          BY <5>1
      <4> QED
        BY <4>3, <4>4 DEF PMTAdded
    <3>2. CASessions' = CASessions /\ current' \in Scrambled /\ crashed' = TRUE
      BY <3>1 DEF PMTAdded, Crash, CASessions
    <3> QED
      BY <3>1, <3>2 DEF OnlyEarlySessionsCrash
  <2> QED
    BY <2>2, <2>3
<1>4. \/ crashed' = crashed
      \/ \E i \in SessionIds : CloseConfirmed(i) \/ CAInfo(i)
      \/ \E p \in Program : ProcessPMT(p)
  <2>1. ASSUME NEW s \in Slot,
               Insert(s) \/ Removed(s) \/ InitSlot(s) \/ ResetSlot(s) \/ \E r \in Resource : SessionOpen(s, r)
        PROVE  crashed' = crashed
    <3>1. ASSUME NEW r \in Resource, SessionOpen(s, r) PROVE crashed' = crashed
      <4>1. UNCHANGED <<ready, active, pmts, told, misled, crossed, crashed>>
        BY <3>1, Zenon DEF SessionOpen
      <4> QED
        BY <4>1
    <3>2. CASE Insert(s) \/ InitSlot(s)
      BY <3>2 DEF Insert, InitSlot
    <3>3. CASE Removed(s) \/ ResetSlot(s)
      BY <3>3 DEF Removed, ResetSlot
    <3> QED
      BY <2>1, <3>1, <3>2, <3>3
  <2>2. ASSUME NEW i \in SessionIds, MMICloseMessage(i) \/ SessionClose(i) PROVE crashed' = crashed
    BY <2>2 DEF MMICloseMessage, SessionClose
  <2>3. ASSUME NEW p \in Program, Select(p) PROVE crashed' = crashed
    BY <2>3 DEF Select
  <2> QED
    BY <2>1, <2>2, <2>3 DEF CAMNext
<1> QED
  BY <1>1, <1>2, <1>3, <1>4

\* The program never goes on after it has crashed, and is not between the two.
LEMMA NextKeepsCAMIInv == CAMIInv /\ [CAMNext]_cam => CAMIInv'
<1> SUFFICES ASSUME CAMIInv, [CAMNext]_cam PROVE CAMIInv'
  OBVIOUS
<1>1. CASE UNCHANGED cam
  BY <1>1 DEF cam, CAMIInv, CAMTyped, EntriesKept, OpenOnBothSides, ToldOfCurrent, Allocated,
              HalfWay, Filled, Vacant, Naming, CanAdd, OwedAreOpen, OnlyEarlySessionsCrash, CASessions
<1>2. CASE CAMNext
  <2>1. ~crashed /\ crashed \in BOOLEAN
    BY <1>2 DEF CAMIInv, CAMNext, Insert, Removed, InitSlot, ResetSlot, SessionOpen, CAInfo, MMICloseMessage,
                SessionClose, CloseConfirmed, ProcessPMT, Select
  <2>2. CAMKnown /\ OwedAreOpen
    BY <2>1 DEF CAMIInv, CAMKnown
  <2>3. OwedAreOpen'
    BY <1>2, <2>2, OwedStayOpen DEF CAMKnown
  <2>4. CASE crashed' # FALSE
    <3>1. crashed' = TRUE /\ OnlyEarlySessionsCrash'
      BY <1>2, <2>1, <2>2, <2>4, CrashingStep
    <3> QED
      BY <2>3, <3>1 DEF CAMIInv
  <2>5. CASE crashed' = FALSE
    <3>1. CAMKnown'
      BY <1>2, <2>2, <2>5, NextKeepsCAM
    <3> QED
      BY <2>3, <2>5, <3>1 DEF CAMIInv, CAMKnown, OnlyEarlySessionsCrash
  <2> QED
    BY <2>4, <2>5
<1> QED
  BY <1>1, <1>2

\* What is known of the sessions is what is promised to a module.
LEMMA CAMIInvServes == CAMIInv => ModuleServed
<1> SUFFICES ASSUME CAMIInv PROVE ModuleServed
  OBVIOUS
<1>1. ModuleKnowsProgram
  <2> SUFFICES ASSUME NEW i \in opens \ (half \cup crossed \cup misled), ~crashed,
                      table[i].resource = CA, table[i].data.ids
               PROVE  told[i] = {current} \cap Compatible \/ ~CanAdd(table[i].data)
    BY DEF ModuleKnowsProgram
  <2>1. ToldOfCurrent /\ i \in SessionIds \ misled
    BY DEF CAMIInv, CAMTyped
  <2>2. Naming(i)
    BY DEF Naming
  <2> QED
    BY <2>1, <2>2 DEF ToldOfCurrent
<1>2. SessionsSound
  <2> SUFFICES ASSUME ~crashed, NEW i \in SessionIds \ (half \cup crossed)
               PROVE  /\ i \in opens <=> Allocated(i)
                      /\ Allocated(i) => /\ table[i].handle = table[i].resource
                                         /\ table[i].slot \in active
                                         /\ IF table[i].resource = CA THEN ~Unusable(i)
                                            ELSE table[i].data = table[i].resource
    BY DEF SessionsSound
  <2>1. (i \in opens <=> Allocated(i)) /\ (Allocated(i) => Filled(i))
    BY DEF CAMIInv, OpenOnBothSides, EntriesKept
  <2>2. \A x \in {Nothing, Released} \cup Known : x \notin Systems
    BY CAMAssumption DEF Systems
  <2> QED
    BY <2>1, <2>2 DEF Filled, Unusable
<1>3. OnlyEarlySessionsCrash
  BY DEF CAMIInv
<1> QED
  BY <1>1, <1>2, <1>3 DEF ModuleServed

\* A module that has named its systems knows the program that is watched, and what
\* it takes for a session is one, for any number of slots, sessions and programs;
\* but for sessions left half way, closed from both sides, or in which a PMT was lost or
\* sent as the update of another program's; and the program has not crashed but where
\* that is named.
THEOREM ModulesAreServed == CAMSpec => []ModuleServed
  BY InitCAM, NextKeepsCAMIInv, CAMIInvServes, PTL DEF CAMSpec

-----------------------------------------------------------------------------
(* The events dispatcher. *)

Listener == [name : Label, all : BOOLEAN, events : Seq(DOMAIN Selects), refs : Int]
Doings == {"add", "register", "remove", "unregister", "release", "addevent", "rmevent"}

\* The types of the dispatcher's state; what commands and the list have was made.
DispatcherTyped ==
  /\ created \in 0..MaxListeners
  /\ listenersList \in Seq(1..created)
  /\ listener \in [Listeners -> Listener]
  /\ command \in [Client -> {Idle} \cup [at : Doings, l : 1..created]]
  /\ listenersMutex \in Client \cup {Free} /\ eventsMutex \in Event \cup {Free}
  /\ callbacks \in Nat
  /\ fired \in Nat /\ jobs \in Seq([event : Event, n : Nat])
  /\ notified \in [Listeners -> Seq(Nat)] /\ due \in [Listeners -> SUBSET Nat]
  /\ removedTwice \subseteq Listeners /\ leaked \subseteq Listeners

Doing(c, what) == command[c].at = what

\* The callback is registered while there are listeners, but for the client that
\* registers or unregisters it with the mutex held.
Registered ==
  /\ \A c \in Client : Doing(c, "register") \/ Doing(c, "unregister") <=> listenersMutex = c
  /\ \A c \in Client : Doing(c, "register") => Len(listenersList) = 1 /\ callbacks = 0
  /\ \A c \in Client : Doing(c, "unregister") => listenersList = <<>> /\ callbacks \in {0, 1}
  /\ listenersMutex = Free => callbacks = IF listenersList = <<>> THEN 0 ELSE 1

\* The jobs are in the order of the events, and what was told came before them.
ToldInOrder ==
  /\ \A i, j \in 1..Len(jobs) : i < j => jobs[i].n < jobs[j].n
  /\ \A i \in 1..Len(jobs) : jobs[i].n <= fired
  /\ \A l \in Listeners :
       /\ \A i, j \in 1..Len(notified[l]) : i < j => notified[l][i] < notified[l][j]
       /\ \A i \in 1..Len(notified[l]) :
            /\ notified[l][i] <= fired
            /\ \A j \in 1..Len(jobs) : notified[l][i] < jobs[j].n

\* What is due was told, or will be by a job: the listener is listed and asks
\* for the event.
DueIsQueued ==
  \A l \in Listeners : \A n \in due[l] :
    /\ l \in ToSet(listenersList)
    /\ \/ n \in ToSet(notified[l])
       \/ \E j \in 1..Len(jobs) : jobs[j].n = n /\ Asks(l, jobs[j].event)

\* A listener is listed once, and after it was made; one client removes it,
\* unless two have found it to do so.
ListedOnce ==
  /\ \A i, j \in 1..Len(listenersList) : listenersList[i] = listenersList[j] => i = j
  /\ \A c \in Client : Doing(c, "add") =>
       /\ command[c].l \notin ToSet(listenersList)
       /\ \A d \in Client \ {c} : command[d] # Idle => command[d].l # command[c].l
  /\ \A l \in Listeners \ removedTwice :
       /\ \A c, d \in Client : Removes(c, l) /\ Removes(d, l) => c = d
       /\ \A c \in Client : Removes(c, l) => (Doing(c, "remove") <=> l \in ToSet(listenersList))

\* References are never fewer than those who have them.
Accounted(l) ==
  LET refs == Cardinality(Holders(l)) + IF Kept(l) THEN 1 ELSE 0
  IN  listener[l].refs >= refs /\ (l \notin leaked => listener[l].refs = refs)

Counted ==
  /\ dangling => removedTwice # {}
  /\ \A l \in Listeners \ removedTwice : Accounted(l)

DispatcherIInv ==
  DispatcherTyped /\ Registered /\ ToldInOrder /\ DueIsQueued /\ ListedOnce /\ Counted

\* Adding to a sequence, taking from it and removing one of its elements.
LEMMA SequenceSteps ==
  ASSUME NEW S, NEW q \in Seq(S)
  PROVE  /\ Len(q) \in Nat /\ \A i \in 1..Len(q) : q[i] \in S
         /\ q = <<>> <=> Len(q) = 0
         /\ ToSet(q) = {q[i] : i \in 1..Len(q)}
         /\ \A e \in S : /\ Append(q, e) \in Seq(S) /\ Len(Append(q, e)) = Len(q) + 1
                         /\ \A i \in 1..Len(q) : Append(q, e)[i] = q[i]
                         /\ Append(q, e)[Len(q) + 1] = e
         /\ q # <<>> => /\ Head(q) = q[1] /\ Head(q) \in S
                        /\ Tail(q) \in Seq(S) /\ Len(Tail(q)) = Len(q) - 1
                        /\ \A i \in 1..Len(Tail(q)) : Tail(q)[i] = q[i + 1]
<1>1. Len(q) \in Nat /\ \A i \in 1..Len(q) : q[i] \in S
  OBVIOUS
<1>2. q = <<>> <=> Len(q) = 0
  BY EmptySeq, <1>1
<1>3. ToSet(q) = {q[i] : i \in 1..Len(q)}
  BY LenProperties DEF ToSet
<1>4. \A e \in S : /\ Append(q, e) \in Seq(S) /\ Len(Append(q, e)) = Len(q) + 1
                   /\ \A i \in 1..Len(q) : Append(q, e)[i] = q[i]
                   /\ Append(q, e)[Len(q) + 1] = e
  OBVIOUS
<1>5. ASSUME q # <<>>
      PROVE  /\ Head(q) = q[1] /\ Head(q) \in S
             /\ Tail(q) \in Seq(S) /\ Len(Tail(q)) = Len(q) - 1
             /\ \A i \in 1..Len(Tail(q)) : Tail(q)[i] = q[i + 1]
  BY <1>1, <1>2, <1>5
<1> QED
  BY <1>1, <1>2, <1>3, <1>4, <1>5

LEMMA Removing ==
  ASSUME NEW S, NEW q \in Seq(S), NEW k \in 1..Len(q)
  PROVE  /\ RemoveAt(q, k) \in Seq(S) /\ Len(RemoveAt(q, k)) = Len(q) - 1
         /\ \A i \in 1..Len(q) - 1 : RemoveAt(q, k)[i] = IF i < k THEN q[i] ELSE q[i + 1]
<1> DEFINE first == SubSeq(q, 1, k - 1)
           rest  == SubSeq(q, k + 1, Len(q))
<1>1. Len(q) \in Nat /\ k \in Nat
  OBVIOUS
<1>2. /\ first \in Seq(S) /\ Len(first) = k - 1
      /\ \A i \in 1..k - 1 : first[i] = q[i]
  BY <1>1
<1>3. /\ rest \in Seq(S) /\ Len(rest) = Len(q) - k
      /\ \A i \in 1..Len(q) - k : rest[i] = q[k + i]
  BY <1>1
<1>4. RemoveAt(q, k) = first \o rest
  BY DEF RemoveAt
<1> HIDE DEF first, rest
<1>5. /\ first \o rest \in Seq(S) /\ Len(first \o rest) = Len(first) + Len(rest)
      /\ \A i \in 1..Len(first) + Len(rest) :
           (first \o rest)[i] = IF i <= Len(first) THEN first[i] ELSE rest[i - Len(first)]
  BY <1>2, <1>3, ConcatProperties
<1>6. ASSUME NEW i \in 1..Len(q) - 1
      PROVE  RemoveAt(q, k)[i] = IF i < k THEN q[i] ELSE q[i + 1]
  <2>1. CASE i < k
    BY <1>1, <1>2, <1>3, <1>4, <1>5, <2>1
  <2>2. CASE ~(i < k)
    <3>1. i - (k - 1) \in 1..Len(q) - k
      BY <1>1, <2>2
    <3>2. rest[i - (k - 1)] = q[i + 1]
      BY <1>1, <1>3, <3>1
    <3> QED
      BY <1>1, <1>2, <1>3, <1>4, <1>5, <2>2, <3>2
  <2> QED
    BY <2>1, <2>2
<1> QED
  BY <1>1, <1>2, <1>3, <1>4, <1>5, <1>6

\* What a command under way says.
LEMMA CommandIs ==
  ASSUME DispatcherTyped, NEW c \in Client
  PROVE  \/ command[c] = Idle /\ command[c].at = "idle"
         \/ /\ command[c] # Idle /\ command[c].at \in Doings
            /\ command[c] \in [at : Doings, l : 1..created]
            /\ command[c].l \in 1..created /\ command[c].l \in Listeners
<1>1. created \in Nat /\ 1..created \subseteq Listeners
  BY EventsDispatcherAssumption DEF DispatcherTyped, Listeners
<1>2. Idle.at = "idle" /\ "idle" \notin Doings
  BY DEF Idle, Doings
<1>3. CASE command[c] = Idle
  BY <1>2, <1>3
<1>4. CASE command[c] # Idle
  <2>1. command[c] \in [at : Doings, l : 1..created]
    BY <1>4 DEF DispatcherTyped
  <2> QED
    BY <1>1, <1>4, <2>1
<1> QED
  BY <1>3, <1>4

\* What a step of one client leaves alone.
OthersLeft(c) == \A d \in Client \ {c} : command'[d] = command[d]

LEMMA BecomesIs ==
  ASSUME DispatcherTyped, NEW c \in Client, NEW next, Becomes(c, next)
  PROVE  command'[c] = next /\ OthersLeft(c) /\ DOMAIN command' = Client
BY DEF DispatcherTyped, Becomes, OthersLeft

\* A step of one client takes it to the holders of a listener or from them.
LEMMA HoldersMove ==
  ASSUME DispatcherTyped, NEW c \in Client, OthersLeft(c), NEW l \in Listeners
  PROVE  /\ Cardinality(Holders(l)) \in Nat /\ Cardinality(Holders(l)') \in Nat
         /\ (c \in Holders(l) <=> c \in Holders(l)') =>
              Cardinality(Holders(l)') = Cardinality(Holders(l))
         /\ c \in Holders(l) /\ c \notin Holders(l)' =>
              Cardinality(Holders(l)) = Cardinality(Holders(l)') + 1
         /\ c \notin Holders(l) /\ c \in Holders(l)' =>
              Cardinality(Holders(l)') = Cardinality(Holders(l)) + 1
<1> DEFINE before == Holders(l)
           after  == Holders(l)'
<1>1. before \subseteq Client /\ after \subseteq Client /\ before \ {c} = after \ {c}
  BY DEF Holders, OthersLeft
<1>2. IsFiniteSet(Client)
  BY EventsDispatcherAssumption
<1> HIDE DEF before, after
<1>3. IsFiniteSet(before) /\ IsFiniteSet(after)
  BY <1>1, <1>2, FS_Subset
<1>4. Cardinality(before) \in Nat /\ Cardinality(after) \in Nat
  BY <1>3, FS_CardinalityType
<1>5. (c \in before <=> c \in after) => before = after
  BY <1>1
<1>6. ASSUME c \in before, c \notin after PROVE Cardinality(before) = Cardinality(after) + 1
  <2>1. before = after \cup {c}
    BY <1>1, <1>6
  <2> QED
    BY <1>3, <1>6, <2>1, FS_AddElement
<1>7. ASSUME c \notin before, c \in after PROVE Cardinality(after) = Cardinality(before) + 1
  <2>1. after = before \cup {c}
    BY <1>1, <1>7
  <2> QED
    BY <1>3, <1>7, <2>1, FS_AddElement
<1> QED
  BY <1>4, <1>5, <1>6, <1>7 DEF before, after

\* A client goes on to something it may do.
LEMMA BecomesTyped ==
  ASSUME DispatcherTyped, NEW c \in Client, NEW next, Becomes(c, next),
         created' \in Nat, created <= created',
         next \in {Idle} \cup [at : Doings, l : 1..created']
  PROVE  command' \in [Client -> {Idle} \cup [at : Doings, l : 1..created']]
<1>1. 1..created \subseteq 1..created'
  BY EventsDispatcherAssumption DEF DispatcherTyped
<1>2. command \in [Client -> {Idle} \cup [at : Doings, l : 1..created']]
  <2>1. [at : Doings, l : 1..created] \subseteq [at : Doings, l : 1..created']
    BY <1>1
  <2> QED
    BY <2>1 DEF DispatcherTyped
<1> QED
  BY <1>2 DEF Becomes

\* The parts of a listener, and changing its references.
LEMMA ListenerParts ==
  ASSUME NEW L \in Listener
  PROVE  /\ L.refs \in Int /\ L.events \in Seq(DOMAIN Selects) /\ L.all \in BOOLEAN
         /\ ObjectRefDec(L) \in Listener /\ ObjectRefDec(L).refs = L.refs - 1
         /\ ObjectRefDec(L).all = L.all /\ ObjectRefDec(L).events = L.events
  BY DEF Listener, ObjectRefDec

LEMMA ListenerFields ==
  ASSUME NEW L \in Listener, NEW n \in Int
  PROVE  /\ [L EXCEPT !.refs = n] \in Listener
         /\ [L EXCEPT !.refs = n].refs = n
         /\ [L EXCEPT !.refs = n].all = L.all
         /\ [L EXCEPT !.refs = n].events = L.events
  BY DEF Listener

LEMMA AddedTyped ==
  ASSUME NEW L \in Listener, NEW f \in Filters
  PROVE  /\ AddListenerEvent(L, f) \in Listener /\ AddListenerEvent(L, f).refs = L.refs
         /\ AddListenerEvent(L, f).all = (L.all \/ f = All)
         /\ AddListenerEvent(L, f).events = IF f = All THEN L.events ELSE Append(L.events, f)
<1>1. L.events \in Seq(DOMAIN Selects) /\ L.all \in BOOLEAN
  BY ListenerParts
<1>2. f # All => f \in DOMAIN Selects
  BY DEF Filters
<1>3. (IF f = All THEN L.events ELSE Append(L.events, f)) \in Seq(DOMAIN Selects)
  <2>1. f # All => Append(L.events, f) \in Seq(DOMAIN Selects)
    BY <1>1, <1>2
  <2> QED
    BY <1>1, <2>1, Zenon
<1>4. (L.all \/ f = All) \in BOOLEAN
  OBVIOUS
<1> QED
  BY <1>3, <1>4 DEF AddListenerEvent, Listener

LEMMA RefsChange ==
  ASSUME listener \in [Listeners -> Listener], NEW l \in Listeners, NEW n \in Int,
         listener' = [listener EXCEPT ![l].refs = n]
  PROVE  /\ listener' \in [Listeners -> Listener]
         /\ listener'[l].refs = n
         /\ listener'[l].all = listener[l].all /\ listener'[l].events = listener[l].events
         /\ \A k \in Listeners \ {l} : listener'[k] = listener[k]
<1>1. listener' = [listener EXCEPT ![l] = [listener[l] EXCEPT !.refs = n]]
  OBVIOUS
<1>2. listener[l] \in Listener
  OBVIOUS
<1> QED
  BY <1>1, <1>2, ListenerFields

\* Every action keeps the types of the dispatcher.
LEMMA DispatcherTypedKept == ASSUME DispatcherTyped, DispatcherNext PROVE DispatcherTyped'
<1>0. created \in Nat /\ MaxListeners \in Nat /\ 1..created \subseteq Listeners
  BY EventsDispatcherAssumption DEF DispatcherTyped, Listeners
<1>1. ASSUME NEW c \in Client, NEW x \in Label, CommandAddListener(c, x) PROVE DispatcherTyped'
  <2>1. /\ created' = created + 1 /\ created + 1 \in Listeners
        /\ listener' = [listener EXCEPT ![created + 1] =
                          [name |-> x, all |-> FALSE, events |-> <<>>, refs |-> 1]]
        /\ Becomes(c, [at |-> "add", l |-> created + 1])
    BY <1>0, <1>1 DEF CommandAddListener, Listeners
  <2>2. command' \in [Client -> {Idle} \cup [at : Doings, l : 1..created']]
    <3>1. [at |-> "add", l |-> created + 1] \in [at : Doings, l : 1..created']
      BY <1>0, <2>1 DEF Doings
    <3> QED
      BY <1>0, <2>1, <3>1, BecomesTyped
  <2>3. listener' \in [Listeners -> Listener]
    <3>1. <<>> \in Seq(DOMAIN Selects)
      BY EmptySeq
    <3>2. [name |-> x, all |-> FALSE, events |-> <<>>, refs |-> 1] \in Listener
      BY <3>1 DEF Listener
    <3> QED
      BY <2>1, <3>2 DEF DispatcherTyped
  <2>4. created' \in 0..MaxListeners /\ listenersList' \in Seq(1..created')
    <3>1. listenersList' = listenersList /\ created' \in 0..MaxListeners
      BY <1>0, <1>1, <2>1 DEF CommandAddListener
    <3>2. 1..created \subseteq 1..created'
      BY <1>0, <2>1
    <3> QED
      BY <3>1, <3>2, SeqMonotonic DEF DispatcherTyped
  <2> QED
    BY <1>1, <2>2, <2>3, <2>4 DEF CommandAddListener, DispatcherTyped
<1>2. ASSUME NEW c \in Client, NEW x \in Label, NEW does \in {"remove", "addevent", "rmevent"},
             FindListener(c, x, does)
      PROVE  DispatcherTyped'
  <2>1. PICK i \in Named(x) :
          LET l == listenersList[i] IN
            /\ listener' = [listener EXCEPT ![l].refs = @ + 1]
            /\ Becomes(c, [at |-> does, l |-> l])
            /\ removedTwice' = removedTwice \/ removedTwice' = removedTwice \cup {l}
    BY <1>2 DEF FindListener
  <2>2. listenersList[i] \in 1..created /\ created' = created
    BY <1>2, LenProperties DEF Named, DispatcherTyped, FindListener
  <2>3. command' \in [Client -> {Idle} \cup [at : Doings, l : 1..created']]
    <3>1. [at |-> does, l |-> listenersList[i]] \in [at : Doings, l : 1..created']
      BY <2>2 DEF Doings
    <3> QED
      BY <1>0, <2>1, <2>2, <3>1, BecomesTyped
  <2>4. listener' \in [Listeners -> Listener]
    <3> DEFINE l == listenersList[i]
    <3>1. listener' = [listener EXCEPT ![l].refs = listener[l].refs + 1] /\ l \in Listeners
      BY <1>0, <2>1, <2>2
    <3>2. listener \in [Listeners -> Listener] /\ listener[l].refs + 1 \in Int
      <4>1. listener[l] \in Listener
        BY <3>1 DEF DispatcherTyped
      <4>2. listener[l].refs \in Int
        BY <4>1, ListenerParts
      <4> QED
        BY <4>2 DEF DispatcherTyped
    <3> HIDE DEF l
    <3> QED
      BY <3>1, <3>2, RefsChange
  <2>5. removedTwice' \subseteq Listeners
    BY <1>0, <2>1, <2>2 DEF DispatcherTyped
  <2> QED
    BY <1>2, <2>2, <2>3, <2>4, <2>5 DEF FindListener, DispatcherTyped
<1>3. ASSUME NEW c \in Client, AddListener(c) PROVE DispatcherTyped'
  <2>1. command[c].l \in 1..created /\ command[c] \in [at : Doings, l : 1..created]
    BY <1>3, CommandIs DEF AddListener, Idle
  <2>2. listenersList' \in Seq(1..created')
    BY <1>3, <2>1 DEF AddListener, DispatcherTyped
  <2>3. created' = created
    BY <1>3 DEF AddListener
  <2>4. command' \in [Client -> {Idle} \cup [at : Doings, l : 1..created']]
    <3>1. [command[c] EXCEPT !.at = "register"] \in [at : Doings, l : 1..created']
      BY <2>1, <2>3 DEF Doings
    <3>2. PICK next \in {Idle, [command[c] EXCEPT !.at = "register"]} : Becomes(c, next)
      BY <1>3 DEF AddListener
    <3> QED
      BY <1>0, <2>3, <3>1, <3>2, BecomesTyped
  <2>5. listenersMutex' \in Client \cup {Free}
    BY <1>3 DEF AddListener, DispatcherTyped
  <2> QED
    BY <1>3, <2>2, <2>3, <2>4, <2>5 DEF AddListener, DispatcherTyped
<1>4. ASSUME NEW c \in Client, EventsRegisterListener(c) PROVE DispatcherTyped'
  <2>1. created' = created /\ Becomes(c, Idle)
    BY <1>4 DEF EventsRegisterListener
  <2>2. command' \in [Client -> {Idle} \cup [at : Doings, l : 1..created']]
    BY <1>0, <2>1, BecomesTyped
  <2> QED
    BY <1>4, <2>1, <2>2 DEF EventsRegisterListener, DispatcherTyped
<1>5. ASSUME NEW c \in Client, RemoveListener(c) PROVE DispatcherTyped'
  <2>1. command[c].l \in 1..created /\ command[c] \in [at : Doings, l : 1..created]
    BY <1>5, CommandIs DEF RemoveListener, Idle
  <2>2. created' = created /\ due' \in [Listeners -> SUBSET Nat]
    BY <1>5 DEF RemoveListener, Excused, DispatcherTyped
  <2>3. listenersList' \in Seq(1..created')
    <3>1. CASE listenersList' = listenersList
      BY <2>2, <3>1 DEF DispatcherTyped
    <3>2. ASSUME NEW i \in DOMAIN listenersList, listenersList' = RemoveAt(listenersList, i)
          PROVE  listenersList' \in Seq(1..created')
      <4>1. listenersList \in Seq(1..created) /\ i \in 1..Len(listenersList)
        BY <3>2, LenProperties DEF DispatcherTyped
      <4> QED
        BY <2>2, <3>2, <4>1, Removing
    <3> QED
      BY <1>5, <3>1, <3>2 DEF RemoveListener
  <2>4. command' \in [Client -> {Idle} \cup [at : Doings, l : 1..created']]
    <3>1. /\ [command[c] EXCEPT !.at = "unregister"] \in [at : Doings, l : 1..created']
          /\ [command[c] EXCEPT !.at = "release"] \in [at : Doings, l : 1..created']
      BY <2>1, <2>2 DEF Doings
    <3>2. PICK next \in {[command[c] EXCEPT !.at = "unregister"], [command[c] EXCEPT !.at = "release"]} :
            Becomes(c, next)
      BY <1>5 DEF RemoveListener
    <3> QED
      BY <1>0, <2>2, <3>1, <3>2, BecomesTyped
  <2>5. listenersMutex' \in Client \cup {Free}
    BY <1>5 DEF RemoveListener, DispatcherTyped
  <2> QED
    BY <1>5, <2>2, <2>3, <2>4, <2>5 DEF RemoveListener, DispatcherTyped
<1>6. ASSUME NEW c \in Client, EventsUnregisterListener(c) PROVE DispatcherTyped'
  <2>1. command[c].l \in 1..created /\ command[c] \in [at : Doings, l : 1..created]
    BY <1>6, CommandIs DEF EventsUnregisterListener, Idle
  <2>2. created' = created /\ Becomes(c, [command[c] EXCEPT !.at = "release"])
    BY <1>6 DEF EventsUnregisterListener
  <2>3. [command[c] EXCEPT !.at = "release"] \in [at : Doings, l : 1..created']
    BY <2>1, <2>2 DEF Doings
  <2>4. command' \in [Client -> {Idle} \cup [at : Doings, l : 1..created']]
    BY <1>0, <2>2, <2>3, BecomesTyped
  <2> QED
    BY <1>6, <2>2, <2>4 DEF EventsUnregisterListener, DispatcherTyped
<1>7. ASSUME NEW c \in Client, ReleaseListener(c) PROVE DispatcherTyped'
  <2>1. command[c].l \in Listeners
    BY <1>7, CommandIs DEF ReleaseListener, Idle
  <2>2. created' = created /\ Becomes(c, Idle)
    BY <1>7 DEF ReleaseListener
  <2>3. command' \in [Client -> {Idle} \cup [at : Doings, l : 1..created']]
    BY <1>0, <2>2, BecomesTyped
  <2>4. listener' \in [Listeners -> Listener]
    <3> DEFINE l == command[c].l
               n == IF listener[l].refs < 2 THEN 0 ELSE listener[l].refs - 2
    <3>1. listener' = [listener EXCEPT ![l].refs = n]
      BY <1>7 DEF ReleaseListener
    <3>2. listener \in [Listeners -> Listener] /\ n \in Int
      <4>1. listener[l] \in Listener
        BY <2>1 DEF DispatcherTyped
      <4>2. listener[l].refs \in Int
        BY <4>1, ListenerParts
      <4> QED
        BY <4>2 DEF DispatcherTyped
    <3> HIDE DEF l, n
    <3> QED
      BY <2>1, <3>1, <3>2, RefsChange DEF l
  <2> QED
    BY <1>7, <2>2, <2>3, <2>4 DEF ReleaseListener, DispatcherTyped
<1>8. ASSUME NEW c \in Client, NEW f \in Filters, CommandAddListenEvent(c, f) PROVE DispatcherTyped'
  <2>1. command[c].l \in Listeners
    BY <1>8, CommandIs DEF CommandAddListenEvent, Idle
  <2>2. created' = created /\ Becomes(c, Idle)
    BY <1>8 DEF CommandAddListenEvent
  <2>3. command' \in [Client -> {Idle} \cup [at : Doings, l : 1..created']]
    BY <1>0, <2>2, BecomesTyped
  <2>4. AddListenerEvent(listener[command[c].l], f) \in Listener
    <3> DEFINE L == listener[command[c].l]
    <3>1. L \in Listener
      BY <2>1 DEF DispatcherTyped
    <3> HIDE DEF L
    <3> QED
      BY <3>1, AddedTyped DEF L
  <2>5. listener' \in [Listeners -> Listener]
    <3>1. listener' = [listener EXCEPT ![command[c].l] =
                         ObjectRefDec(AddListenerEvent(listener[command[c].l], f))]
      BY <1>8 DEF CommandAddListenEvent
    <3>2. ObjectRefDec(AddListenerEvent(listener[command[c].l], f)) \in Listener
      BY <2>4, ListenerParts
    <3> QED
      BY <2>1, <3>1, <3>2 DEF DispatcherTyped
  <2> QED
    BY <1>8, <2>2, <2>3, <2>5 DEF CommandAddListenEvent, DispatcherTyped
<1>9. ASSUME NEW c \in Client, NEW f \in Filters, CommandRemoveListenEvent(c, f)
      PROVE  DispatcherTyped'
  <2>1. command[c].l \in Listeners
    BY <1>9, CommandIs DEF CommandRemoveListenEvent, Idle
  <2>2. created' = created /\ Becomes(c, Idle)
    BY <1>9 DEF CommandRemoveListenEvent
  <2>3. command' \in [Client -> {Idle} \cup [at : Doings, l : 1..created']]
    BY <1>0, <2>2, BecomesTyped
  <2>4. \A L \in RemoveListenerEvent(listener[command[c].l], f) : L \in Listener
    <3> DEFINE K == listener[command[c].l]
    <3>1. K \in Listener /\ K.events \in Seq(DOMAIN Selects)
      BY <2>1 DEF DispatcherTyped, Listener
    <3>2. \A i \in DOMAIN K.events : RemoveAt(K.events, i) \in Seq(DOMAIN Selects)
      BY <3>1, LenProperties, Removing
    <3> HIDE DEF K
    <3>3. \A L \in RemoveListenerEvent(K, f) : L \in Listener
      BY <3>1, <3>2 DEF RemoveListenerEvent, Listener
    <3> QED
      BY <3>3 DEF K
  <2>5. listener' \in [Listeners -> Listener]
    <3>1. CASE listener' = listener
      BY <3>1 DEF DispatcherTyped
    <3>2. ASSUME NEW L \in RemoveListenerEvent(listener[command[c].l], f),
                 listener' = [listener EXCEPT ![command[c].l] = ObjectRefDec(L)]
          PROVE  listener' \in [Listeners -> Listener]
      <4>1. ObjectRefDec(L) \in Listener
        BY <2>4, ListenerParts
      <4> QED
        BY <2>1, <3>2, <4>1 DEF DispatcherTyped
    <3> QED
      BY <1>9, <3>1, <3>2 DEF CommandRemoveListenEvent
  <2>6. due' \in [Listeners -> SUBSET Nat] /\ leaked' \subseteq Listeners
    BY <1>9, <2>1 DEF CommandRemoveListenEvent, Excused, DispatcherTyped
  <2> QED
    BY <1>9, <2>2, <2>3, <2>5, <2>6 DEF CommandRemoveListenEvent, DispatcherTyped
<1>10. ASSUME NEW e \in Event, EventsFireEventListeners(e) PROVE DispatcherTyped'
  BY <1>10 DEF EventsFireEventListeners, DispatcherTyped
<1>11. CASE DeferredInformListeners
  <2>1. jobs # <<>> /\ jobs \in Seq([event : Event, n : Nat])
    BY <1>11 DEF DeferredInformListeners, DispatcherTyped
  <2>2. Head(jobs) \in [event : Event, n : Nat] /\ Tail(jobs) \in Seq([event : Event, n : Nat])
    BY <2>1, SequenceSteps
  <2>3. notified' \in [Listeners -> Seq(Nat)]
    <3>1. \A l \in Listeners : notified[l] \in Seq(Nat) /\ Append(notified[l], Head(jobs).n) \in Seq(Nat)
      BY <2>2 DEF DispatcherTyped
    <3> QED
      BY <1>11, <3>1 DEF DeferredInformListeners
  <2> QED
    BY <1>11, <2>2, <2>3 DEF DeferredInformListeners, DispatcherTyped
<1>12. CASE EventCallback
  <2>1. eventsMutex \in Event /\ fired' = fired + 1 /\ fired + 1 \in Nat
    BY <1>12 DEF EventCallback, DispatcherTyped
  <2>2. jobs' \in Seq([event : Event, n : Nat])
    <3> DEFINE new == [i \in 1..callbacks |-> [event |-> eventsMutex, n |-> fired']]
    <3>1. callbacks \in Nat
      BY DEF DispatcherTyped
    <3>2. new \in Seq([event : Event, n : Nat])
      BY <2>1, <3>1
    <3>3. jobs' = jobs \o new
      BY <1>12 DEF EventCallback
    <3> HIDE DEF new
    <3> QED
      BY <3>2, <3>3 DEF DispatcherTyped
  <2>3. due' \in [Listeners -> SUBSET Nat]
    BY <1>12, <2>1 DEF EventCallback, DispatcherTyped
  <2>4. eventsMutex' \in Event \cup {Free}
    BY <1>12 DEF EventCallback
  <2> QED
    BY <1>12, <2>1, <2>2, <2>3, <2>4 DEF EventCallback, DispatcherTyped
<1> QED
  BY <1>1, <1>2, <1>3, <1>4, <1>5, <1>6, <1>7, <1>8, <1>9, <1>10, <1>11, <1>12
     DEF DispatcherNext

\* A step that leaves the list, the callbacks and the mutex, and in which no
\* client comes to register or unregister or ceases to.
LEMMA RegisteredApart ==
  ASSUME Registered, UNCHANGED <<listenersList, callbacks, listenersMutex>>,
         \A d \in Client : (Doing(d, "register") <=> Doing(d, "register")')
                           /\ (Doing(d, "unregister") <=> Doing(d, "unregister")')
  PROVE  Registered'
BY DEF Registered

\* The callback stays registered as the listeners come and go.
LEMMA RegisteredKept == ASSUME DispatcherTyped, Registered, DispatcherNext PROVE Registered'
<1> USE DEF Doing
<1>0. Free \notin Client
  BY EventsDispatcherAssumption DEF Free
<1>1. ASSUME NEW c \in Client, NEW next, Becomes(c, next),
             command[c].at \notin {"register", "unregister"},
             next.at \notin {"register", "unregister"},
             UNCHANGED <<listenersList, callbacks, listenersMutex>>
      PROVE  Registered'
  <2>1. command'[c] = next /\ \A d \in Client \ {c} : command'[d] = command[d]
    BY <1>1, BecomesIs DEF OthersLeft
  <2> QED
    BY <1>1, <2>1, RegisteredApart
<1>2. ASSUME NEW c \in Client, NEW x \in Label, CommandAddListener(c, x) PROVE Registered'
  BY <1>1, <1>2 DEF CommandAddListener, Idle
<1>3. ASSUME NEW c \in Client, NEW x \in Label, NEW does \in {"remove", "addevent", "rmevent"},
             FindListener(c, x, does)
      PROVE  Registered'
  <2>1. PICK l : Becomes(c, [at |-> does, l |-> l])
    BY <1>3 DEF FindListener
  <2>2. [at |-> does, l |-> l].at = does /\ does \notin {"register", "unregister"}
    OBVIOUS
  <2>3. command[c].at \notin {"register", "unregister"}
    BY <1>3 DEF FindListener, Idle
  <2>4. UNCHANGED <<listenersList, callbacks, listenersMutex>>
    BY <1>3 DEF FindListener
  <2> QED
    BY <1>1, <2>1, <2>2, <2>3, <2>4
<1>4. ASSUME NEW c \in Client, AddListener(c) PROVE Registered'
  <2>1. /\ command[c].at = "add" /\ listenersMutex = Free /\ callbacks' = callbacks
        /\ listenersList' = Append(listenersList, command[c].l)
    BY <1>4 DEF AddListener
  <2>2. command[c].l \in 1..created /\ command[c] \in [at : Doings, l : 1..created]
    BY <2>1, CommandIs DEF Idle
  <2>3. /\ Len(listenersList') = Len(listenersList) + 1 /\ Len(listenersList) \in Nat
        /\ listenersList' # <<>> /\ (listenersList = <<>> <=> Len(listenersList) = 0)
    <3>1. listenersList \in Seq(1..created)
      BY DEF DispatcherTyped
    <3>2. listenersList' \in Seq(1..created) /\ Len(listenersList') = Len(listenersList) + 1
      BY <2>1, <2>2, <3>1, SequenceSteps
    <3> QED
      BY <3>1, <3>2, SequenceSteps
  <2>4. \A d \in Client : command[d].at \notin {"register", "unregister"}
    BY <1>0, <2>1 DEF Registered
  <2>5. CASE Len(listenersList') = 1
    <3>1. Becomes(c, [command[c] EXCEPT !.at = "register"]) /\ listenersMutex' = c
      BY <1>4, <2>5 DEF AddListener
    <3>2. command'[c] = [command[c] EXCEPT !.at = "register"]
          /\ \A d \in Client \ {c} : command'[d] = command[d]
      BY <3>1, BecomesIs DEF OthersLeft
    <3>3. command'[c].at = "register"
      BY <2>2, <3>2
    <3>4. callbacks = 0
      BY <2>1, <2>3, <2>5 DEF Registered
    <3> QED
      BY <1>0, <2>1, <2>4, <2>5, <3>1, <3>2, <3>3, <3>4 DEF Registered
  <2>6. CASE Len(listenersList') # 1
    <3>1. Becomes(c, Idle) /\ listenersMutex' = Free
      BY <1>4, <2>1, <2>6 DEF AddListener
    <3>2. command'[c].at = "idle" /\ \A d \in Client \ {c} : command'[d] = command[d]
      BY <3>1, BecomesIs DEF OthersLeft, Idle
    <3>3. listenersList # <<>> /\ callbacks = 1
      BY <2>1, <2>3, <2>6 DEF Registered
    <3> QED
      BY <1>0, <2>1, <2>3, <2>4, <3>1, <3>2, <3>3 DEF Registered
  <2> QED
    BY <2>5, <2>6
<1>5. ASSUME NEW c \in Client, EventsRegisterListener(c) PROVE Registered'
  <2>1. /\ command[c].at = "register" /\ callbacks' = callbacks + 1
        /\ listenersMutex' = Free /\ Becomes(c, Idle) /\ listenersList' = listenersList
    BY <1>5 DEF EventsRegisterListener
  <2>2. command'[c].at = "idle" /\ \A d \in Client \ {c} : command'[d] = command[d]
    BY <2>1, BecomesIs DEF OthersLeft, Idle
  <2>3. /\ \A d \in Client \ {c} : command[d].at \notin {"register", "unregister"}
        /\ Len(listenersList) = 1 /\ callbacks = 0
    BY <2>1 DEF Registered
  <2>4. listenersList # <<>>
    BY <2>3, EmptySeq
  <2> QED
    BY <1>0, <2>1, <2>2, <2>3, <2>4 DEF Registered
<1>6. ASSUME NEW c \in Client, RemoveListener(c) PROVE Registered'
  <2>1. command[c].at = "remove" /\ listenersMutex = Free /\ callbacks' = callbacks
    BY <1>6 DEF RemoveListener
  <2>2. command[c] \in [at : Doings, l : 1..created]
    BY <2>1, CommandIs DEF Idle
  <2>3. \A d \in Client : command[d].at \notin {"register", "unregister"}
    BY <1>0, <2>1 DEF Registered
  <2>4. callbacks \in {0, 1}
    BY <2>1 DEF Registered
  <2>5. CASE listenersList' = <<>>
    <3>1. Becomes(c, [command[c] EXCEPT !.at = "unregister"]) /\ listenersMutex' = c
      BY <1>6, <2>5 DEF RemoveListener
    <3>2. command'[c].at = "unregister" /\ \A d \in Client \ {c} : command'[d] = command[d]
      BY <2>2, <3>1, BecomesIs DEF OthersLeft
    <3> QED
      BY <1>0, <2>1, <2>3, <2>4, <2>5, <3>1, <3>2 DEF Registered
  <2>6. CASE listenersList' # <<>>
    <3>1. Becomes(c, [command[c] EXCEPT !.at = "release"]) /\ listenersMutex' = Free
      BY <1>6, <2>1, <2>6 DEF RemoveListener
    <3>2. command'[c].at = "release" /\ \A d \in Client \ {c} : command'[d] = command[d]
      BY <2>2, <3>1, BecomesIs DEF OthersLeft
    <3>3. listenersList # <<>>
      <4>1. CASE listenersList' = listenersList
        BY <2>6, <4>1
      <4>2. ASSUME NEW i \in DOMAIN listenersList PROVE listenersList # <<>>
        OBVIOUS
      <4> QED
        BY <1>6, <4>1, <4>2 DEF RemoveListener
    <3>4. callbacks = 1
      BY <2>1, <3>3 DEF Registered
    <3> QED
      BY <1>0, <2>1, <2>3, <2>6, <3>1, <3>2, <3>4 DEF Registered
  <2> QED
    BY <2>5, <2>6
<1>7. ASSUME NEW c \in Client, EventsUnregisterListener(c) PROVE Registered'
  <2>1. /\ command[c].at = "unregister" /\ callbacks' = IF callbacks > 0 THEN callbacks - 1 ELSE 0
        /\ listenersMutex' = Free /\ listenersList' = listenersList
        /\ Becomes(c, [command[c] EXCEPT !.at = "release"])
    BY <1>7 DEF EventsUnregisterListener
  <2>2. command[c] \in [at : Doings, l : 1..created]
    BY <2>1, CommandIs DEF Idle
  <2>3. command'[c].at = "release" /\ \A d \in Client \ {c} : command'[d] = command[d]
    BY <2>1, <2>2, BecomesIs DEF OthersLeft
  <2>4. /\ \A d \in Client \ {c} : command[d].at \notin {"register", "unregister"}
        /\ listenersList = <<>> /\ callbacks \in {0, 1}
    BY <2>1 DEF Registered
  <2> QED
    BY <1>0, <2>1, <2>3, <2>4 DEF Registered
<1>8. ASSUME NEW c \in Client, ReleaseListener(c) PROVE Registered'
  BY <1>1, <1>8 DEF ReleaseListener, Idle
<1>9. ASSUME NEW c \in Client, NEW f \in Filters,
             CommandAddListenEvent(c, f) \/ CommandRemoveListenEvent(c, f)
      PROVE  Registered'
  <2>1. /\ command[c].at \in {"addevent", "rmevent"} /\ Becomes(c, Idle)
        /\ UNCHANGED <<listenersList, callbacks, listenersMutex>>
    BY <1>9 DEF CommandAddListenEvent, CommandRemoveListenEvent
  <2> QED
    BY <1>1, <2>1 DEF Idle
<1>10. CASE (\E e \in Event : EventsFireEventListeners(e)) \/ EventCallback \/ DeferredInformListeners
  <2>1. UNCHANGED <<listenersList, callbacks, listenersMutex, command>>
    BY <1>10 DEF EventsFireEventListeners, EventCallback, DeferredInformListeners
  <2> QED
    BY <2>1 DEF Registered
<1> QED
  BY <1>2, <1>3, <1>4, <1>5, <1>6, <1>7, <1>8, <1>9, <1>10 DEF DispatcherNext

\* What is in a sequence after adding to it or removing from it.
LEMMA MembersAdded ==
  ASSUME NEW S, NEW q \in Seq(S), NEW e \in S
  PROVE  ToSet(Append(q, e)) = ToSet(q) \cup {e}
<1> DEFINE r == Append(q, e)
<1>1. /\ r \in Seq(S) /\ Len(r) = Len(q) + 1 /\ Len(q) \in Nat
      /\ \A i \in 1..Len(q) : r[i] = q[i]
      /\ r[Len(q) + 1] = e
  BY SequenceSteps
<1> HIDE DEF r
<1>2. ToSet(q) = {q[i] : i \in 1..Len(q)} /\ ToSet(r) = {r[i] : i \in 1..Len(r)}
  BY <1>1, LenProperties DEF ToSet
<1>3. \A v : v \in ToSet(r) <=> v \in ToSet(q) \/ v = e
  <2> SUFFICES ASSUME NEW v PROVE v \in ToSet(r) <=> v \in ToSet(q) \/ v = e
    OBVIOUS
  <2>1. v \in ToSet(r) => v \in ToSet(q) \/ v = e
    BY <1>1, <1>2
  <2>2. v \in ToSet(q) => v \in ToSet(r)
    BY <1>1, <1>2
  <2>3. e \in ToSet(r)
    BY <1>1, <1>2
  <2> QED
    BY <2>1, <2>2, <2>3
<1> QED
  BY <1>3 DEF r

LEMMA MembersRemoved ==
  ASSUME NEW S, NEW q \in Seq(S), NEW k \in 1..Len(q),
         \A i, j \in 1..Len(q) : q[i] = q[j] => i = j
  PROVE  /\ ToSet(RemoveAt(q, k)) = ToSet(q) \ {q[k]}
         /\ \A i, j \in 1..Len(RemoveAt(q, k)) : RemoveAt(q, k)[i] = RemoveAt(q, k)[j] => i = j
<1> DEFINE r == RemoveAt(q, k)
<1>1. /\ r \in Seq(S) /\ Len(r) = Len(q) - 1 /\ Len(q) \in Nat /\ k \in Nat
      /\ \A i \in 1..Len(r) : r[i] = IF i < k THEN q[i] ELSE q[i + 1]
  <2>1. Len(q) \in Nat
    BY LenProperties
  <2>2. k \in Nat
    BY <2>1
  <2>3. /\ r \in Seq(S) /\ Len(r) = Len(q) - 1
        /\ \A i \in 1..Len(q) - 1 : r[i] = IF i < k THEN q[i] ELSE q[i + 1]
    BY Removing, Zenon
  <2> HIDE DEF r
  <2> QED
    BY <2>1, <2>2, <2>3, Zenon
<1> HIDE DEF r
<1>2. ToSet(q) = {q[i] : i \in 1..Len(q)} /\ ToSet(r) = {r[i] : i \in 1..Len(r)}
  BY <1>1, LenProperties DEF ToSet
<1>3. ASSUME NEW i \in 1..Len(r) PROVE r[i] \in ToSet(q) /\ r[i] # q[k]
  <2>1. CASE i < k
    BY <1>1, <1>2, <2>1
  <2>2. CASE ~(i < k)
    <3>1. r[i] = q[i + 1] /\ i + 1 \in 1..Len(q) /\ i + 1 # k
      BY <1>1, <2>2
    <3> QED
      BY <1>2, <3>1
  <2> QED
    BY <2>1, <2>2
<1>4. ASSUME NEW i \in 1..Len(q), q[i] # q[k] PROVE q[i] \in ToSet(r)
  <2>1. CASE i < k
    <3>1. i \in 1..Len(r) /\ r[i] = q[i]
      BY <1>1, <2>1
    <3> QED
      BY <1>2, <3>1
  <2>2. CASE ~(i < k)
    <3>1. i # k
      BY <1>4
    <3>2. i - 1 \in 1..Len(r) /\ r[i - 1] = q[i]
      BY <1>1, <2>2, <3>1
    <3> QED
      BY <1>2, <3>2
  <2> QED
    BY <2>1, <2>2
<1>5. ToSet(r) = ToSet(q) \ {q[k]}
  BY <1>2, <1>3, <1>4, SMTT(20)
<1>6. ASSUME NEW i \in 1..Len(r), NEW j \in 1..Len(r), r[i] = r[j] PROVE i = j
  <2>1. (IF i < k THEN i ELSE i + 1) = IF j < k THEN j ELSE j + 1
    BY <1>1, <1>6, SMTT(20)
  <2> QED
    BY <1>1, <2>1
<1> QED
  BY <1>5, <1>6 DEF r

\* A callback is registered once or not at all.
LEMMA OnceAtMost == ASSUME DispatcherTyped, Registered PROVE callbacks \in {0, 1}
  BY DEF Registered, DispatcherTyped

\* The numbers of the jobs.
LEMMA JobNumbers ==
  ASSUME DispatcherTyped
  PROVE  Len(jobs) \in Nat /\ \A j \in 1..Len(jobs) : jobs[j].n \in Nat
<1>1. jobs \in Seq([event : Event, n : Nat])
  BY DEF DispatcherTyped
<1>2. \A j \in 1..Len(jobs) : jobs[j] \in [event : Event, n : Nat]
  BY <1>1, ElementOfSeq
<1> QED
  BY <1>1, <1>2, LenProperties

\* The jobs after an event: those that were there and one for the callback.
LEMMA JobsAfterEvent ==
  ASSUME DispatcherTyped, Registered, EventCallback
  PROVE  /\ Len(jobs) \in Nat /\ Len(jobs') = Len(jobs) + callbacks /\ callbacks \in {0, 1}
         /\ \A j \in 1..Len(jobs) : jobs'[j] = jobs[j]
         /\ callbacks = 1 => jobs'[Len(jobs) + 1] = [event |-> eventsMutex, n |-> fired + 1]
<1> DEFINE new == [i \in 1..callbacks |-> [event |-> eventsMutex, n |-> fired']]
<1>1. eventsMutex \in Event /\ fired' = fired + 1 /\ fired + 1 \in Nat /\ jobs' = jobs \o new
  BY DEF EventCallback, DispatcherTyped
<1>2. callbacks \in {0, 1} /\ callbacks \in Nat
  BY OnceAtMost
<1>3. new \in Seq([event : Event, n : Nat]) /\ Len(new) = callbacks
  BY <1>1, <1>2
<1>4. \A i \in 1..callbacks : new[i] = [event |-> eventsMutex, n |-> fired + 1]
  BY <1>1
<1>5. jobs \in Seq([event : Event, n : Nat]) /\ Len(jobs) \in Nat
  BY DEF DispatcherTyped
<1> HIDE DEF new
<1>6. /\ Len(jobs \o new) = Len(jobs) + Len(new)
      /\ \A i \in 1..Len(jobs) + Len(new) :
           (jobs \o new)[i] = IF i <= Len(jobs) THEN jobs[i] ELSE new[i - Len(jobs)]
  BY <1>3, <1>5, ConcatProperties
<1>7. ASSUME callbacks = 1
      PROVE  jobs'[Len(jobs) + 1] = [event |-> eventsMutex, n |-> fired + 1]
  <2>1. (Len(jobs) + 1) - Len(jobs) = 1 /\ Len(jobs) + 1 \in 1..Len(jobs) + Len(new)
        /\ ~(Len(jobs) + 1 <= Len(jobs))
    BY <1>3, <1>5, <1>7
  <2>2. jobs'[Len(jobs) + 1] = new[1]
    BY <1>1, <1>6, <2>1
  <2> QED
    BY <1>4, <1>7, <2>2
<1>8. \A j \in 1..Len(jobs) : jobs'[j] = jobs[j]
  BY <1>1, <1>2, <1>3, <1>5, <1>6
<1> QED
  BY <1>1, <1>2, <1>3, <1>5, <1>6, <1>7, <1>8

\* The order of events is kept.
LEMMA OrderIsKept ==
  ASSUME DispatcherTyped, Registered, ToldInOrder, DispatcherNext PROVE ToldInOrder'
<1>1. CASE UNCHANGED <<jobs, fired, notified>>
  BY <1>1 DEF ToldInOrder
<1>2. CASE EventCallback
  <2>1. fired \in Nat /\ fired' = fired + 1 /\ notified' = notified
    BY <1>2 DEF EventCallback, DispatcherTyped
  <2>2. /\ Len(jobs) \in Nat /\ Len(jobs') = Len(jobs) + callbacks /\ callbacks \in {0, 1}
        /\ \A j \in 1..Len(jobs) : jobs'[j] = jobs[j]
        /\ callbacks = 1 => jobs'[Len(jobs) + 1].n = fired + 1
    BY <1>2, JobsAfterEvent
  <2>3. \A j \in 1..Len(jobs') : j \in 1..Len(jobs) \/ (j = Len(jobs) + 1 /\ callbacks = 1)
    BY <2>2
  <2>4. \A j \in 1..Len(jobs) : jobs[j].n \in Nat /\ jobs[j].n <= fired
    BY JobNumbers DEF ToldInOrder
  <2>5. \A i, j \in 1..Len(jobs') : i < j => jobs'[i].n < jobs'[j].n
    <3> SUFFICES ASSUME NEW i \in 1..Len(jobs'), NEW j \in 1..Len(jobs'), i < j
                 PROVE  jobs'[i].n < jobs'[j].n
      OBVIOUS
    <3>1. CASE j \in 1..Len(jobs)
      <4>1. i \in 1..Len(jobs)
        BY <2>2, <3>1
      <4> QED
        BY <2>2, <3>1, <4>1 DEF ToldInOrder
    <3>2. CASE j = Len(jobs) + 1 /\ callbacks = 1
      <4>1. i \in 1..Len(jobs)
        BY <2>2, <3>2
      <4> QED
        BY <2>1, <2>2, <2>4, <3>2, <4>1
    <3> QED
      BY <2>3, <3>1, <3>2
  <2>6. \A j \in 1..Len(jobs') : jobs'[j].n <= fired'
    BY <2>1, <2>2, <2>3, <2>4
  <2>7. ASSUME NEW l \in Listeners, NEW i \in 1..Len(notified[l])
        PROVE  /\ notified[l][i] <= fired'
               /\ \A j \in 1..Len(jobs') : notified[l][i] < jobs'[j].n
    <3>1. notified[l][i] \in Nat /\ notified[l][i] <= fired
      BY DEF DispatcherTyped, ToldInOrder
    <3>2. \A j \in 1..Len(jobs) : notified[l][i] < jobs[j].n
      BY DEF ToldInOrder
    <3> QED
      BY <2>1, <2>2, <2>3, <3>1, <3>2
  <2> QED
    BY <2>1, <2>5, <2>6, <2>7 DEF ToldInOrder
<1>3. CASE DeferredInformListeners
  <2>1. jobs # <<>> /\ jobs' = Tail(jobs) /\ fired' = fired
        /\ jobs \in Seq([event : Event, n : Nat])
    BY <1>3 DEF DeferredInformListeners, DispatcherTyped
  <2>2. /\ Len(jobs) \in Nat \ {0} /\ Len(jobs') = Len(jobs) - 1 /\ Head(jobs) = jobs[1]
        /\ \A j \in 1..Len(jobs') : jobs'[j] = jobs[j + 1]
        /\ \A j \in 1..Len(jobs) : jobs[j].n \in Nat
    <3>1. Len(jobs) \in Nat \ {0} /\ \A j \in 1..Len(jobs) : jobs[j].n \in Nat
      BY <2>1, JobNumbers, EmptySeq
    <3> QED
      BY <2>1, <3>1, SequenceSteps
  <2>3. \A j \in 1..Len(jobs') : j + 1 \in 1..Len(jobs) /\ jobs[1].n < jobs'[j].n
    BY <2>2 DEF ToldInOrder
  <2>4. /\ \A i, j \in 1..Len(jobs') : i < j => jobs'[i].n < jobs'[j].n
        /\ \A i \in 1..Len(jobs') : jobs'[i].n <= fired'
    BY <2>1, <2>2, <2>3 DEF ToldInOrder
  <2>5. ASSUME NEW l \in Listeners
        PROVE  /\ \A i, j \in 1..Len(notified'[l]) : i < j => notified'[l][i] < notified'[l][j]
               /\ \A i \in 1..Len(notified'[l]) :
                    /\ notified'[l][i] <= fired'
                    /\ \A j \in 1..Len(jobs') : notified'[l][i] < jobs'[j].n
    <3> DEFINE old == notified[l]
    <3>1. /\ old \in Seq(Nat) /\ Len(old) \in Nat /\ \A i \in 1..Len(old) : old[i] \in Nat
      BY DEF DispatcherTyped
    <3>2. /\ \A i, j \in 1..Len(old) : i < j => old[i] < old[j]
          /\ \A i \in 1..Len(old) : old[i] <= fired /\ old[i] < jobs[1].n
          /\ \A i \in 1..Len(old) : \A j \in 1..Len(jobs) : old[i] < jobs[j].n
      <4>1. 1 \in 1..Len(jobs)
        BY <2>2
      <4> QED
        BY <4>1 DEF ToldInOrder
    <3>3. jobs[1].n \in Nat /\ jobs[1].n <= fired /\ fired \in Nat
      BY <2>2 DEF ToldInOrder, DispatcherTyped
    <3>4. notified'[l] = old \/ notified'[l] = Append(old, jobs[1].n)
      BY <1>3, <2>2 DEF DeferredInformListeners
    <3> HIDE DEF old
    <3>5. CASE notified'[l] = old
      BY <2>1, <2>2, <2>3, <3>1, <3>2, <3>5
    <3>6. CASE notified'[l] = Append(old, jobs[1].n)
      <4>1. /\ Len(notified'[l]) = Len(old) + 1
            /\ \A i \in 1..Len(old) : notified'[l][i] = old[i]
            /\ notified'[l][Len(old) + 1] = jobs[1].n
        BY <3>1, <3>3, <3>6
      <4>2. \A i \in 1..Len(notified'[l]) : i \in 1..Len(old) \/ i = Len(old) + 1
        BY <3>1, <4>1
      <4>3. \A i, j \in 1..Len(notified'[l]) : i < j => notified'[l][i] < notified'[l][j]
        <5> SUFFICES ASSUME NEW i \in 1..Len(notified'[l]), NEW j \in 1..Len(notified'[l]), i < j
                     PROVE  notified'[l][i] < notified'[l][j]
          OBVIOUS
        <5>1. i \in 1..Len(old)
          BY <3>1, <4>1
        <5> QED
          BY <3>1, <3>2, <4>1, <4>2, <5>1
      <4>4. \A i \in 1..Len(notified'[l]) : notified'[l][i] <= fired'
        BY <2>1, <3>2, <3>3, <4>1, <4>2
      <4>5. \A i \in 1..Len(notified'[l]), j \in 1..Len(jobs') : notified'[l][i] < jobs'[j].n
        BY <2>2, <2>3, <3>2, <4>1, <4>2
      <4> QED
        BY <4>3, <4>4, <4>5
    <3> QED
      BY <3>4, <3>5, <3>6
  <2> QED
    BY <2>4, <2>5 DEF ToldInOrder
<1> QED
  BY <1>1, <1>2, <1>3
     DEF DispatcherNext, CommandAddListener, FindListener, AddListener, EventsRegisterListener,
         RemoveListener, EventsUnregisterListener, ReleaseListener, CommandAddListenEvent,
         CommandRemoveListenEvent, EventsFireEventListeners

\* Listeners that are listed have been made.
LEMMA ListedAreMade ==
  ASSUME DispatcherTyped
  PROVE  /\ \A l \in ToSet(listenersList) : l \in 1..created /\ l \in Listeners
         /\ created \in Nat /\ created + 1 \notin ToSet(listenersList)
<1>1. created \in Nat /\ created <= MaxListeners /\ MaxListeners \in Nat
  BY EventsDispatcherAssumption DEF DispatcherTyped
<1>2. listenersList \in Seq(1..created)
  BY DEF DispatcherTyped
<1>3. \A l \in ToSet(listenersList) : l \in 1..created
  <2>1. \A i \in 1..Len(listenersList) : listenersList[i] \in 1..created
    BY <1>2, ElementOfSeq
  <2>2. DOMAIN listenersList = 1..Len(listenersList)
    BY <1>2, LenProperties
  <2> QED
    BY <2>1, <2>2 DEF ToSet
<1> QED
  BY <1>1, <1>3 DEF Listeners

\* The list after a listener was removed.
LEMMA ListAfterRemoval ==
  ASSUME DispatcherTyped, ListedOnce, NEW c \in Client, RemoveListener(c)
  PROVE  /\ ToSet(listenersList') = ToSet(listenersList) \ {command[c].l}
         /\ \A i, j \in 1..Len(listenersList') : listenersList'[i] = listenersList'[j] => i = j
<1>1. /\ listenersList \in Seq(1..created)
      /\ \A i, j \in 1..Len(listenersList) : listenersList[i] = listenersList[j] => i = j
  BY DEF DispatcherTyped, ListedOnce
<1>2. CASE command[c].l \notin ToSet(listenersList) /\ listenersList' = listenersList
  BY <1>1, <1>2
<1>3. ASSUME NEW k \in DOMAIN listenersList, listenersList[k] = command[c].l,
             listenersList' = RemoveAt(listenersList, k)
      PROVE  /\ ToSet(listenersList') = ToSet(listenersList) \ {command[c].l}
             /\ \A i, j \in 1..Len(listenersList') : listenersList'[i] = listenersList'[j] => i = j
  <2>1. k \in 1..Len(listenersList)
    BY <1>1, LenProperties
  <2> QED
    BY <1>1, <1>3, <2>1, MembersRemoved
<1> QED
  BY <1>2, <1>3 DEF RemoveListener

\* The references of listeners and the events they ask for after a step of a
\* client that looks at one of them.
Found(c, l, does) ==
  /\ l \in Listeners
  /\ listener'[l].refs = listener[l].refs + 1
  /\ listener'[l].all = listener[l].all /\ listener'[l].events = listener[l].events
  /\ \A k \in Listeners \ {l} : listener'[k] = listener[k]
  /\ command'[c] = [at |-> does, l |-> l] /\ OthersLeft(c)
  /\ removedTwice' = IF does = "remove" /\ \E d \in Client \ {c} : Removes(d, l)
                     THEN removedTwice \cup {l} ELSE removedTwice

LEMMA FoundSteps ==
  ASSUME DispatcherTyped, NEW c \in Client, NEW x \in Label,
         NEW does \in {"remove", "addevent", "rmevent"}, FindListener(c, x, does)
  PROVE  \E l \in ToSet(listenersList) : Found(c, l, does)
<1>1. PICK i \in Named(x) :
        LET l == listenersList[i] IN
          /\ listener' = [listener EXCEPT ![l].refs = @ + 1]
          /\ Becomes(c, [at |-> does, l |-> l])
          /\ removedTwice' = IF does = "remove" /\ \E d \in Client \ {c} : Removes(d, l)
                             THEN removedTwice \cup {l} ELSE removedTwice
  BY DEF FindListener
<1> DEFINE l == listenersList[i]
<1>2. l \in ToSet(listenersList) /\ l \in Listeners
  BY ListedAreMade DEF Named, ToSet
<1>3. /\ listener' = [listener EXCEPT ![l].refs = listener[l].refs + 1]
      /\ Becomes(c, [at |-> does, l |-> l])
      /\ removedTwice' = IF does = "remove" /\ \E d \in Client \ {c} : Removes(d, l)
                         THEN removedTwice \cup {l} ELSE removedTwice
  BY <1>1
<1> HIDE DEF l
<1>4. listener \in [Listeners -> Listener] /\ listener[l].refs + 1 \in Int
  <2>1. listener[l] \in Listener
    BY <1>2 DEF DispatcherTyped
  <2> QED
    BY <2>1, ListenerParts DEF DispatcherTyped
<1>5. /\ listener'[l].refs = listener[l].refs + 1
      /\ listener'[l].all = listener[l].all /\ listener'[l].events = listener[l].events
      /\ \A k \in Listeners \ {l} : listener'[k] = listener[k]
  BY <1>2, <1>3, <1>4, RefsChange
<1>6. command'[c] = [at |-> does, l |-> l] /\ OthersLeft(c)
  BY <1>3, BecomesIs
<1> QED
  BY <1>2, <1>3, <1>5, <1>6 DEF Found

LEMMA ReleaseSteps ==
  ASSUME DispatcherTyped, NEW c \in Client, ReleaseListener(c)
  PROVE  LET l == command[c].l IN
           /\ command[c].at = "release" /\ l \in Listeners
           /\ listener[l].refs \in Int
           /\ listener'[l].refs = IF listener[l].refs < 2 THEN 0 ELSE listener[l].refs - 2
           /\ listener'[l].all = listener[l].all /\ listener'[l].events = listener[l].events
           /\ \A k \in Listeners \ {l} : listener'[k] = listener[k]
           /\ command'[c] = Idle /\ OthersLeft(c)
           /\ dangling' = (dangling \/ listener[l].refs < 2)
<1> DEFINE l == command[c].l
           n == IF listener[l].refs < 2 THEN 0 ELSE listener[l].refs - 2
<1>1. /\ command[c].at = "release" /\ listener' = [listener EXCEPT ![l].refs = n]
      /\ dangling' = (dangling \/ listener[l].refs < 2) /\ Becomes(c, Idle)
  BY DEF ReleaseListener
<1>2. l \in Listeners
  BY <1>1, CommandIs DEF Idle
<1>3. listener \in [Listeners -> Listener] /\ listener[l].refs \in Int
  <2>1. listener[l] \in Listener
    BY <1>2 DEF DispatcherTyped
  <2> QED
    BY <2>1, ListenerParts DEF DispatcherTyped
<1>4. n \in Int
  BY <1>3
<1>5. command'[c] = Idle /\ OthersLeft(c)
  BY <1>1, BecomesIs
<1> HIDE DEF l, n
<1>6. /\ listener'[l].refs = n
      /\ listener'[l].all = listener[l].all /\ listener'[l].events = listener[l].events
      /\ \A k \in Listeners \ {l} : listener'[k] = listener[k]
  BY <1>1, <1>2, <1>3, <1>4, RefsChange
<1> QED
  BY <1>1, <1>2, <1>3, <1>5, <1>6 DEF l, n

LEMMA AddEventSteps ==
  ASSUME DispatcherTyped, NEW c \in Client, NEW f \in Filters, CommandAddListenEvent(c, f),
         NEW l, l = command[c].l
  PROVE  /\ command[c].at = "addevent" /\ l \in Listeners
         /\ listener[l].refs \in Int /\ listener'[l].refs = listener[l].refs - 1
         /\ \A e : Asks(l, e) => Asks(l, e)'
         /\ \A k \in Listeners \ {l} : listener'[k] = listener[k]
         /\ command'[c] = Idle /\ OthersLeft(c)
         /\ dangling' = (dangling \/ listener[l].refs = 0)
<1> DEFINE L == listener[l]
           K == AddListenerEvent(L, f)
<1>1. /\ command[c].at = "addevent" /\ listener' = [listener EXCEPT ![l] = ObjectRefDec(K)]
      /\ dangling' = (dangling \/ L.refs = 0) /\ Becomes(c, Idle)
  BY DEF CommandAddListenEvent
<1>2. l \in Listeners
  BY <1>1, CommandIs DEF Idle
<1>3. L \in Listener
  BY <1>2 DEF DispatcherTyped
<1>4. command'[c] = Idle /\ OthersLeft(c)
  BY <1>1, BecomesIs
<1>5. listener'[l] = ObjectRefDec(K) /\ \A k \in Listeners \ {l} : listener'[k] = listener[k]
  BY <1>1, <1>2 DEF DispatcherTyped
<1> HIDE DEF L
<1>6. /\ K \in Listener /\ K.refs = L.refs /\ K.all = (L.all \/ f = All)
      /\ K.events = IF f = All THEN L.events ELSE Append(L.events, f)
  BY <1>3, AddedTyped
<1>7. L.refs \in Int /\ L.events \in Seq(DOMAIN Selects)
  BY <1>3, ListenerParts
<1> HIDE DEF K
<1>8. /\ listener'[l].refs = L.refs - 1
      /\ listener'[l].all = K.all /\ listener'[l].events = K.events
  BY <1>5, <1>6, ListenerParts
<1>9. ToSet(L.events) \subseteq ToSet(K.events)
  <2>1. CASE f = All
    BY <1>6, <2>1
  <2>2. CASE f # All
    <3>1. f \in DOMAIN Selects /\ K.events = Append(L.events, f)
      BY <1>6, <2>2 DEF Filters
    <3>2. ToSet(Append(L.events, f)) = ToSet(L.events) \cup {f}
      BY <1>7, <3>1, MembersAdded
    <3> QED
      BY <3>1, <3>2
  <2> QED
    BY <2>1, <2>2
<1>10. \A e : Asks(l, e) => Asks(l, e)'
  <2>1. L = listener[l]
    BY DEF L
  <2>2. listener[l].all => listener'[l].all
    BY <1>6, <1>8, <2>1, Zenon
  <2>3. \A g \in ToSet(listener[l].events) : g \in ToSet(listener'[l].events)
    BY <1>8, <1>9, <2>1
  <2> QED
    BY <2>2, <2>3 DEF Asks
<1> QED
  BY <1>1, <1>2, <1>4, <1>5, <1>7, <1>8, <1>10 DEF L

LEMMA RemoveEventSteps ==
  ASSUME DispatcherTyped, NEW c \in Client, NEW f \in Filters, CommandRemoveListenEvent(c, f)
  PROVE  LET l == command[c].l IN
           /\ command[c].at = "rmevent" /\ l \in Listeners
           /\ listener[l].refs \in Int
           /\ \/ listener'[l].refs = listener[l].refs - 1 /\ leaked' = leaked
              \/ listener' = listener /\ leaked' = leaked \cup {l}
           /\ \A k \in Listeners \ {l} : listener'[k] = listener[k]
           /\ command'[c] = Idle /\ OthersLeft(c)
           /\ dangling' = (dangling \/ listener[l].refs = 0)
<1> DEFINE l == command[c].l
           without == RemoveListenerEvent(listener[l], f)
<1>1. /\ command[c].at = "rmevent"
      /\ \/ /\ \E L \in without : listener' = [listener EXCEPT ![l] = ObjectRefDec(L)]
            /\ leaked' = leaked
         \/ /\ without = {} /\ leaked' = leaked \cup {l} /\ listener' = listener
      /\ dangling' = (dangling \/ listener[l].refs = 0) /\ Becomes(c, Idle)
  BY DEF CommandRemoveListenEvent
<1>2. l \in Listeners
  BY <1>1, CommandIs DEF Idle
<1>3. listener[l] \in Listener
  BY <1>2 DEF DispatcherTyped
<1>4. command'[c] = Idle /\ OthersLeft(c)
  BY <1>1, BecomesIs
<1>5. listener[l].refs \in Int
  BY <1>3, ListenerParts
<1>6. \A L \in without : L.refs = listener[l].refs
  <2> DEFINE K == listener[l]
  <2>1. K \in Listener
    BY <1>3
  <2> HIDE DEF K
  <2>2. \A L \in RemoveListenerEvent(K, f) : L.refs = K.refs
    BY <2>1 DEF RemoveListenerEvent, Listener
  <2> QED
    BY <2>2 DEF K
<1>7. ASSUME NEW L \in without, listener' = [listener EXCEPT ![l] = ObjectRefDec(L)]
      PROVE  /\ listener'[l].refs = listener[l].refs - 1
             /\ \A k \in Listeners \ {l} : listener'[k] = listener[k]
  <2>1. listener'[l] = ObjectRefDec(L) /\ \A k \in Listeners \ {l} : listener'[k] = listener[k]
    BY <1>2, <1>7 DEF DispatcherTyped
  <2>2. ObjectRefDec(L).refs = L.refs - 1
    <3> DEFINE K == listener[l]
    <3>1. K \in Listener
      BY <1>3
    <3> HIDE DEF K
    <3>2. \A M \in RemoveListenerEvent(K, f) : ObjectRefDec(M).refs = M.refs - 1
      BY <3>1 DEF RemoveListenerEvent, Listener, ObjectRefDec
    <3> QED
      BY <1>7, <3>2 DEF K
  <2> QED
    BY <1>6, <1>7, <2>1, <2>2
<1> HIDE DEF without
<1> QED
  BY <1>1, <1>2, <1>4, <1>5, <1>7

\* A step after which all that are listed are still, and ask for what they did.
LEMMA DueApart ==
  ASSUME DueIsQueued, UNCHANGED <<jobs, notified>>,
         \A l \in Listeners : l \in ToSet(listenersList) /\ due'[l] # {} =>
           /\ due'[l] = due[l] /\ l \in ToSet(listenersList')
           /\ \A e : Asks(l, e) => Asks(l, e)',
         \A l \in Listeners : due'[l] \subseteq due[l]
  PROVE  DueIsQueued'
<1> SUFFICES ASSUME NEW l \in Listeners, NEW n \in due'[l]
             PROVE  /\ l \in ToSet(listenersList')
                    /\ \/ n \in ToSet(notified[l])
                       \/ \E j \in 1..Len(jobs) : jobs[j].n = n /\ Asks(l, jobs[j].event)'
  BY DEF DueIsQueued
<1>1. n \in due[l]
  OBVIOUS
<1>2. /\ l \in ToSet(listenersList)
      /\ \/ n \in ToSet(notified[l])
         \/ \E j \in 1..Len(jobs) : jobs[j].n = n /\ Asks(l, jobs[j].event)
  BY <1>1 DEF DueIsQueued
<1>3. /\ l \in ToSet(listenersList')
      /\ \A e : Asks(l, e) => Asks(l, e)'
  BY <1>2
<1>4. ASSUME NEW j \in 1..Len(jobs), jobs[j].n = n, Asks(l, jobs[j].event)
      PROVE  \E k \in 1..Len(jobs) : jobs[k].n = n /\ Asks(l, jobs[k].event)'
  <2>1. \A e : e = jobs[j].event => Asks(l, e)'
    BY <1>3, <1>4
  <2>2. jobs'[j].event = jobs[j].event
    OBVIOUS
  <2>3. Asks(l, jobs[j].event)'
    BY <2>1, <2>2 DEF Asks
  <2> QED
    BY <1>4, <2>3
<1> QED
  BY <1>2, <1>3, <1>4

\* What is due stays in the queue until it is told.
LEMMA DueKept ==
  ASSUME DispatcherTyped, Registered, ToldInOrder, ListedOnce, DueIsQueued, DispatcherNext
  PROVE  DueIsQueued'
<1>1. ASSUME UNCHANGED <<jobs, notified, due>>,
             ToSet(listenersList) \subseteq ToSet(listenersList'),
             \A l \in ToSet(listenersList) : \A e : Asks(l, e) => Asks(l, e)'
      PROVE  DueIsQueued'
  BY <1>1, DueApart
<1>2. ASSUME NEW c \in Client, NEW x \in Label, CommandAddListener(c, x) PROVE DueIsQueued'
  <2>1. \A l \in ToSet(listenersList) : listener'[l] = listener[l]
    BY <1>2, ListedAreMade DEF CommandAddListener, DispatcherTyped
  <2>2. \A l \in ToSet(listenersList) : \A e : Asks(l, e) => Asks(l, e)'
    BY <2>1 DEF Asks
  <2>3. UNCHANGED <<jobs, notified, due, listenersList>>
    BY <1>2 DEF CommandAddListener
  <2> QED
    BY <1>1, <2>2, <2>3
<1>3. ASSUME NEW c \in Client, NEW x \in Label, NEW does \in {"remove", "addevent", "rmevent"},
             FindListener(c, x, does)
      PROVE  DueIsQueued'
  <2>1. \A l \in Listeners : listener'[l].all = listener[l].all /\ listener'[l].events = listener[l].events
    BY <1>3, FoundSteps DEF Found
  <2>2. \A l \in ToSet(listenersList) : \A e : Asks(l, e) => Asks(l, e)'
    BY <2>1, ListedAreMade DEF Asks
  <2>3. UNCHANGED <<jobs, notified, due, listenersList>>
    BY <1>3 DEF FindListener
  <2> QED
    BY <1>1, <2>2, <2>3
<1>4. ASSUME NEW c \in Client, AddListener(c) PROVE DueIsQueued'
  <2>1. /\ command[c].at = "add" /\ listenersList' = Append(listenersList, command[c].l)
        /\ UNCHANGED <<jobs, notified, due, listener>>
    BY <1>4 DEF AddListener
  <2>2. command[c].l \in 1..created /\ listenersList \in Seq(1..created)
    BY <2>1, CommandIs DEF Idle, DispatcherTyped
  <2>3. ToSet(listenersList') = ToSet(listenersList) \cup {command[c].l}
    <3> DEFINE q == listenersList
               e == command[c].l
               S == 1..created
    <3>1. q \in Seq(S) /\ e \in S
      BY <2>2
    <3> HIDE DEF q, e, S
    <3>2. ToSet(Append(q, e)) = ToSet(q) \cup {e}
      BY <3>1, MembersAdded
    <3> QED
      BY <2>1, <3>2 DEF q, e
  <2>4. \A l \in ToSet(listenersList) : \A e : Asks(l, e) => Asks(l, e)'
    BY <2>1 DEF Asks
  <2> QED
    BY <1>1, <2>1, <2>3, <2>4
<1>5. ASSUME NEW c \in Client, RemoveListener(c) PROVE DueIsQueued'
  <2>1. /\ UNCHANGED <<jobs, notified, listener>>
        /\ due' = [l \in Listeners |-> IF l \in {command[c].l} THEN {} ELSE due[l]]
    BY <1>5 DEF RemoveListener, Excused
  <2>2. ToSet(listenersList') = ToSet(listenersList) \ {command[c].l}
    BY <1>5, ListAfterRemoval
  <2>3. \A l \in ToSet(listenersList) : \A e : Asks(l, e) => Asks(l, e)'
    BY <2>1 DEF Asks
  <2>4. \A l \in Listeners : due'[l] \subseteq due[l] /\ (due'[l] # {} => l # command[c].l /\ due'[l] = due[l])
    BY <2>1
  <2> QED
    BY <2>1, <2>2, <2>3, <2>4, DueApart
<1>6. ASSUME NEW c \in Client, ReleaseListener(c) PROVE DueIsQueued'
  <2>1. \A l \in Listeners : listener'[l].all = listener[l].all /\ listener'[l].events = listener[l].events
    BY <1>6, ReleaseSteps
  <2>2. \A l \in ToSet(listenersList) : \A e : Asks(l, e) => Asks(l, e)'
    BY <2>1, ListedAreMade DEF Asks
  <2>3. UNCHANGED <<jobs, notified, due, listenersList>>
    BY <1>6 DEF ReleaseListener
  <2> QED
    BY <1>1, <2>2, <2>3
<1>7. ASSUME NEW c \in Client, NEW f \in Filters, CommandAddListenEvent(c, f) PROVE DueIsQueued'
  <2>1. PICK l : l = command[c].l
    OBVIOUS
  <2>2. /\ \A e : Asks(l, e) => Asks(l, e)'
        /\ \A k \in Listeners \ {l} : listener'[k] = listener[k]
    BY <1>7, <2>1, AddEventSteps
  <2>3. \A k \in Listeners \ {l} : \A e : Asks(k, e) => Asks(k, e)'
    BY <2>2 DEF Asks
  <2>4. UNCHANGED <<jobs, notified, due, listenersList>>
    BY <1>7 DEF CommandAddListenEvent
  <2>5. \A k \in ToSet(listenersList) : \A e : Asks(k, e) => Asks(k, e)'
    <3> TAKE k \in ToSet(listenersList)
    <3>1. k = l \/ k \in Listeners \ {l}
      BY ListedAreMade
    <3> QED
      BY <2>2, <2>3, <3>1
  <2> QED
    BY <1>1, <2>4, <2>5
<1>8. ASSUME NEW c \in Client, NEW f \in Filters, CommandRemoveListenEvent(c, f) PROVE DueIsQueued'
  <2>1. \A k \in Listeners \ {command[c].l} : listener'[k] = listener[k]
    BY <1>8, RemoveEventSteps
  <2>2. /\ UNCHANGED <<jobs, notified, listenersList>>
        /\ due' = [l \in Listeners |-> IF l \in {command[c].l} THEN {} ELSE due[l]]
    BY <1>8 DEF CommandRemoveListenEvent, Excused
  <2>3. \A l \in Listeners : due'[l] \subseteq due[l] /\ (due'[l] # {} => l # command[c].l /\ due'[l] = due[l])
    BY <2>2
  <2>4. ASSUME NEW l \in Listeners, due'[l] # {} PROVE \A e : Asks(l, e) => Asks(l, e)'
    <3>1. listener'[l] = listener[l]
      BY <2>1, <2>3, <2>4
    <3> QED
      BY <3>1 DEF Asks
  <2> QED
    BY <2>2, <2>3, <2>4, DueApart
<1>9. CASE EventCallback
  <2>1. /\ eventsMutex \in Event /\ fired \in Nat
        /\ UNCHANGED <<listenersList, listener, notified>>
        /\ due' = [l \in Listeners |->
                     IF l \in ToSet(listenersList) /\ Asks(l, eventsMutex) /\ listenersMutex = Free
                     THEN due[l] \cup {fired + 1} ELSE due[l]]
    BY <1>9 DEF EventCallback, DispatcherTyped
  <2>2. /\ Len(jobs) \in Nat /\ Len(jobs') = Len(jobs) + callbacks /\ callbacks \in {0, 1}
        /\ \A j \in 1..Len(jobs) : jobs'[j] = jobs[j]
        /\ callbacks = 1 => jobs'[Len(jobs) + 1] = [event |-> eventsMutex, n |-> fired + 1]
    BY <1>9, JobsAfterEvent
  <2>3. \A l, e : Asks(l, e) => Asks(l, e)'
    BY <2>1 DEF Asks
  <2> SUFFICES ASSUME NEW l \in Listeners, NEW n \in due'[l]
               PROVE  /\ l \in ToSet(listenersList)
                      /\ \/ n \in ToSet(notified[l])
                         \/ \E j \in 1..Len(jobs') : jobs'[j].n = n /\ Asks(l, jobs[j].event)'
    BY <2>1 DEF DueIsQueued
  <2>4. CASE n \in due[l]
    <3>1. /\ l \in ToSet(listenersList)
          /\ \/ n \in ToSet(notified[l])
             \/ \E j \in 1..Len(jobs) : jobs[j].n = n /\ Asks(l, jobs[j].event)
      BY <2>4 DEF DueIsQueued
    <3>2. ASSUME NEW j \in 1..Len(jobs), jobs[j].n = n, Asks(l, jobs[j].event)
          PROVE  \E k \in 1..Len(jobs') : jobs'[k].n = n /\ Asks(l, jobs[k].event)'
      <4>1. j \in 1..Len(jobs') /\ jobs'[j] = jobs[j]
        BY <2>2
      <4>2. Asks(l, jobs[j].event)'
        BY <2>1, <3>2, <4>1 DEF Asks
      <4> QED
        BY <3>2, <4>1, <4>2
    <3> QED
      BY <3>1, <3>2
  <2>5. CASE n \notin due[l]
    <3>1. /\ n = fired + 1 /\ l \in ToSet(listenersList) /\ Asks(l, eventsMutex)
          /\ listenersMutex = Free
      BY <2>1, <2>5
    <3>2. listenersList # <<>>
      BY <3>1 DEF ToSet
    <3>3. callbacks = 1
      BY <3>1, <3>2 DEF Registered
    <3>4. LET k == Len(jobs) + 1
          IN  k \in 1..Len(jobs') /\ jobs'[k].n = n /\ jobs'[k].event = eventsMutex
      BY <2>2, <3>1, <3>3
    <3>5. \A k : jobs'[k].event = eventsMutex => Asks(l, jobs[k].event)'
      BY <2>1, <3>1 DEF Asks
    <3> QED
      BY <3>1, <3>4, <3>5
  <2> QED
    BY <2>4, <2>5
<1>10. CASE DeferredInformListeners
  <2>1. /\ jobs # <<>> /\ jobs' = Tail(jobs) /\ UNCHANGED <<listenersList, listener, due>>
        /\ notified' = [l \in Listeners |->
                          IF l \in ToSet(listenersList) /\ Asks(l, Head(jobs).event)
                          THEN Append(notified[l], Head(jobs).n) ELSE notified[l]]
    BY <1>10 DEF DeferredInformListeners
  <2>2. /\ Len(jobs) \in Nat \ {0} /\ Len(jobs') = Len(jobs) - 1 /\ Head(jobs) = jobs[1]
        /\ \A j \in 1..Len(jobs') : jobs'[j] = jobs[j + 1]
        /\ jobs[1].n \in Nat
    <3>1. jobs \in Seq([event : Event, n : Nat])
      BY DEF DispatcherTyped
    <3>2. Len(jobs) \in Nat \ {0} /\ \A j \in 1..Len(jobs) : jobs[j].n \in Nat
      BY <2>1, <3>1, JobNumbers, EmptySeq
    <3> QED
      BY <2>1, <3>1, <3>2, SequenceSteps
  <2> SUFFICES ASSUME NEW l \in Listeners, NEW n \in due[l]
               PROVE  /\ l \in ToSet(listenersList)
                      /\ \/ n \in ToSet(notified'[l])
                         \/ \E j \in 1..Len(jobs') : jobs'[j].n = n /\ Asks(l, jobs[j].event)'
    BY <2>1 DEF DueIsQueued
  <2>3. /\ l \in ToSet(listenersList)
        /\ \/ n \in ToSet(notified[l])
           \/ \E j \in 1..Len(jobs) : jobs[j].n = n /\ Asks(l, jobs[j].event)
    BY DEF DueIsQueued
  <2>4. /\ notified[l] \in Seq(Nat)
        /\ ToSet(Append(notified[l], jobs[1].n)) = ToSet(notified[l]) \cup {jobs[1].n}
    <3> DEFINE q == notified[l]
               e == jobs[1].n
    <3>1. q \in Seq(Nat) /\ e \in Nat
      BY <2>2 DEF DispatcherTyped
    <3> HIDE DEF q, e
    <3>2. ToSet(Append(q, e)) = ToSet(q) \cup {e}
      BY <3>1, MembersAdded
    <3> QED
      BY <3>1, <3>2 DEF q, e
  <2>5. CASE n \in ToSet(notified[l])
    BY <2>1, <2>2, <2>3, <2>4, <2>5
  <2>6. ASSUME NEW j \in 1..Len(jobs), jobs[j].n = n, Asks(l, jobs[j].event)
        PROVE  \/ n \in ToSet(notified'[l])
               \/ \E k \in 1..Len(jobs') : jobs'[k].n = n /\ Asks(l, jobs[k].event)'
    <3>1. CASE j = 1
      <4>1. notified'[l] = Append(notified[l], jobs[1].n)
        BY <2>1, <2>2, <2>3, <2>6, <3>1
      <4> QED
        BY <2>4, <2>6, <3>1, <4>1
    <3>2. CASE j # 1
      <4>1. j - 1 \in 1..Len(jobs') /\ jobs'[j - 1] = jobs[j]
        BY <2>2, <3>2
      <4>2. \A k : jobs'[k] = jobs[j] => Asks(l, jobs[k].event)'
        BY <2>1, <2>6 DEF Asks
      <4> QED
        BY <2>6, <4>1, <4>2
    <3> QED
      BY <3>1, <3>2
  <2> QED
    BY <2>3, <2>5, <2>6
<1>11. CASE \/ \E c \in Client : EventsRegisterListener(c) \/ EventsUnregisterListener(c)
            \/ \E e \in Event : EventsFireEventListeners(e)
  <2>1. UNCHANGED <<jobs, notified, due, listenersList, listener>>
    BY <1>11 DEF EventsRegisterListener, EventsUnregisterListener, EventsFireEventListeners
  <2>2. \A l, e : Asks(l, e) => Asks(l, e)'
    BY <2>1 DEF Asks
  <2> QED
    BY <1>1, <2>1, <2>2
<1> QED
  BY <1>2, <1>3, <1>4, <1>5, <1>6, <1>7, <1>8, <1>9, <1>10, <1>11 DEF DispatcherNext

\* A command that ends.
LEMMA ListedAtEnd ==
  ASSUME ListedOnce, NEW c \in Client, command'[c] = Idle, OthersLeft(c),
         UNCHANGED <<listenersList, removedTwice>>
  PROVE  ListedOnce'
<1>1. Idle.at = "idle"
  BY DEF Idle
<1>2. \A d \in Client : command'[d] = command[d] \/ (command'[d] = Idle /\ command'[d].at = "idle")
  BY <1>1 DEF OthersLeft
<1>3. \A d \in Client : Doing(d, "add")' => Doing(d, "add") /\ command'[d] = command[d]
  BY <1>2 DEF Doing
<1>4. \A d \in Client, l \in Listeners : Removes(d, l)' => Removes(d, l) /\ command'[d] = command[d]
  BY <1>2 DEF Removes
<1>5. ASSUME NEW d \in Client, Doing(d, "add")'
      PROVE  /\ command'[d].l \notin ToSet(listenersList)
             /\ \A k \in Client \ {d} : command'[k] # Idle => command'[k].l # command'[d].l
  BY <1>2, <1>3, <1>5 DEF ListedOnce
<1>6. ASSUME NEW l \in Listeners \ removedTwice
      PROVE  /\ \A k, d \in Client : Removes(k, l)' /\ Removes(d, l)' => k = d
             /\ \A d \in Client : Removes(d, l)' => (Doing(d, "remove")' <=> l \in ToSet(listenersList))
  BY <1>4 DEF ListedOnce, Doing
<1> QED
  BY <1>5, <1>6 DEF ListedOnce

\* Listeners stay listed once, and removed by one client at a time.
LEMMA ListedOnceKept ==
  ASSUME DispatcherTyped, ListedOnce, DispatcherNext PROVE ListedOnce'
<1>1. ASSUME NEW c \in Client, NEW x \in Label, CommandAddListener(c, x) PROVE ListedOnce'
  <2>1. /\ command[c] = Idle /\ UNCHANGED <<listenersList, removedTwice>>
        /\ Becomes(c, [at |-> "add", l |-> created + 1])
    BY <1>1 DEF CommandAddListener
  <2>2. command'[c] = [at |-> "add", l |-> created + 1] /\ OthersLeft(c)
    BY <2>1, BecomesIs
  <2>3. created + 1 \notin ToSet(listenersList) /\ created \in Nat
    BY ListedAreMade
  <2>4. \A d \in Client : command[d] # Idle => command[d].l # created + 1
    BY <2>3, CommandIs
  <2>5. command'[c].at = "add" /\ command'[c].l = created + 1
    BY <2>2
  <2>6. \A d \in Client \ {c} : command'[d] = command[d]
    BY <2>2 DEF OthersLeft
  <2>7. ASSUME NEW d \in Client, Doing(d, "add")'
        PROVE  /\ command'[d].l \notin ToSet(listenersList)
               /\ \A k \in Client \ {d} : command'[k] # Idle => command'[k].l # command'[d].l
    <3>1. CASE d = c
      BY <2>3, <2>4, <2>5, <2>6, <3>1
    <3>2. CASE d # c
      <4>1. command'[d] = command[d] /\ Doing(d, "add") /\ command[d] # Idle
        BY <2>6, <2>7, <3>2 DEF Doing, Idle
      <4>2. \A k \in Client \ {d} : command[k] # Idle => command[k].l # command[d].l
        BY <4>1 DEF ListedOnce
      <4>3. command[d].l \notin ToSet(listenersList)
        BY <4>1 DEF ListedOnce
      <4> QED
        BY <2>4, <2>5, <2>6, <4>1, <4>2, <4>3
    <3> QED
      BY <3>1, <3>2
  <2>8. \A d \in Client, l \in Listeners : Removes(d, l)' => Removes(d, l) /\ command'[d] = command[d]
    BY <2>5, <2>6 DEF Removes
  <2>9. ASSUME NEW l \in Listeners \ removedTwice
        PROVE  /\ \A k, d \in Client : Removes(k, l)' /\ Removes(d, l)' => k = d
               /\ \A d \in Client : Removes(d, l)' => (Doing(d, "remove")' <=> l \in ToSet(listenersList))
    BY <2>8 DEF ListedOnce, Doing
  <2> QED
    BY <2>1, <2>7, <2>9 DEF ListedOnce
<1>2. ASSUME NEW c \in Client, NEW x \in Label, NEW does \in {"remove", "addevent", "rmevent"},
             FindListener(c, x, does)
      PROVE  ListedOnce'
  <2>1. PICK l \in ToSet(listenersList) : Found(c, l, does)
    BY <1>2, FoundSteps
  <2>2. listenersList' = listenersList /\ command[c] = Idle
    BY <1>2 DEF FindListener
  <2>3. command'[c].at = does /\ command'[c].l = l /\ \A d \in Client \ {c} : command'[d] = command[d]
    BY <2>1 DEF Found, OthersLeft
  <2>4. ASSUME NEW d \in Client, Doing(d, "add")'
        PROVE  /\ command'[d].l \notin ToSet(listenersList)
               /\ \A k \in Client \ {d} : command'[k] # Idle => command'[k].l # command'[d].l
    <3>1. d # c /\ command'[d] = command[d] /\ Doing(d, "add")
      BY <2>3, <2>4 DEF Doing
    <3>2. /\ \A k \in Client \ {d} : command[k] # Idle => command[k].l # command[d].l
          /\ command[d].l \notin ToSet(listenersList)
      BY <3>1 DEF ListedOnce
    <3> QED
      BY <2>1, <2>3, <3>1, <3>2 DEF Found
  <2>5. ASSUME NEW k \in Listeners \ removedTwice'
        PROVE  /\ \A b, d \in Client : Removes(b, k)' /\ Removes(d, k)' => b = d
               /\ \A d \in Client : Removes(d, k)' => (Doing(d, "remove")' <=> k \in ToSet(listenersList))
    <3>1. k \in Listeners \ removedTwice
      BY <2>1, <2>5 DEF Found
    <3>2. \A d \in Client \ {c} : /\ Removes(d, k)' <=> Removes(d, k)
                                  /\ Doing(d, "remove")' <=> Doing(d, "remove")
      BY <2>3 DEF Removes, Doing
    <3>3. CASE Removes(c, k)'
      <4>1. does = "remove" /\ k = l
        BY <2>3, <3>3 DEF Removes
      <4>2. \A d \in Client \ {c} : ~Removes(d, k)
        BY <2>1, <2>5, <4>1 DEF Found
      <4>3. Doing(c, "remove")' /\ k \in ToSet(listenersList)
        BY <2>1, <2>3, <4>1 DEF Doing
      <4> QED
        BY <3>2, <4>2, <4>3
    <3>4. CASE ~Removes(c, k)'
      BY <3>1, <3>2, <3>4 DEF ListedOnce
    <3> QED
      BY <3>3, <3>4
  <2> QED
    BY <2>2, <2>4, <2>5 DEF ListedOnce
<1>3. ASSUME NEW c \in Client, AddListener(c) PROVE ListedOnce'
  <2> DEFINE l == command[c].l
  <2>1. /\ command[c].at = "add" /\ listenersList' = Append(listenersList, l)
        /\ removedTwice' = removedTwice
    BY <1>3 DEF AddListener
  <2>2. command[c] \in [at : Doings, l : 1..created] /\ l \in 1..created
    BY <2>1, CommandIs DEF Idle
  <2>3. /\ l \notin ToSet(listenersList)
        /\ \A d \in Client \ {c} : command[d] # Idle => command[d].l # l
    BY <2>1 DEF ListedOnce, Doing
  <2>4. /\ ToSet(listenersList') = ToSet(listenersList) \cup {l}
        /\ Len(listenersList') = Len(listenersList) + 1 /\ Len(listenersList) \in Nat
        /\ \A i \in 1..Len(listenersList) :
             listenersList'[i] = listenersList[i] /\ listenersList[i] \in ToSet(listenersList)
        /\ listenersList'[Len(listenersList) + 1] = l
    <3> DEFINE q == listenersList
               S == 1..created
    <3>1. q \in Seq(S) /\ l \in S
      BY <2>2 DEF DispatcherTyped
    <3> HIDE DEF q, l, S
    <3>2. /\ ToSet(Append(q, l)) = ToSet(q) \cup {l}
          /\ Len(Append(q, l)) = Len(q) + 1 /\ Len(q) \in Nat
          /\ \A i \in 1..Len(q) : Append(q, l)[i] = q[i]
          /\ Append(q, l)[Len(q) + 1] = l
      BY <3>1, MembersAdded, SequenceSteps
    <3>3. \A i \in 1..Len(q) : q[i] \in ToSet(q)
      BY <3>1, LenProperties DEF ToSet
    <3> QED
      BY <2>1, <3>2, <3>3 DEF q
  <2>5. (command'[c] = [command[c] EXCEPT !.at = "register"] \/ command'[c] = Idle) /\ OthersLeft(c)
    <3>1. PICK next \in {[command[c] EXCEPT !.at = "register"], Idle} : Becomes(c, next)
      BY <1>3 DEF AddListener
    <3> QED
      BY <3>1, BecomesIs
  <2>6. \A d \in Client \ {c} : command'[d] = command[d]
    BY <2>5 DEF OthersLeft
  <2>7. command'[c] = Idle \/ (command'[c].at = "register" /\ command'[c].l = l)
    BY <2>2, <2>5
  <2>8. command'[c].at \in {"register", "idle"}
    BY <2>7 DEF Idle
  <2> HIDE DEF l
  <2>9. \A i, j \in 1..Len(listenersList') : listenersList'[i] = listenersList'[j] => i = j
    <3> SUFFICES ASSUME NEW i \in 1..Len(listenersList'), NEW j \in 1..Len(listenersList'),
                        listenersList'[i] = listenersList'[j]
                 PROVE  i = j
      OBVIOUS
    <3>1. \A k \in 1..Len(listenersList') : k \in 1..Len(listenersList) \/ k = Len(listenersList) + 1
      BY <2>4
    <3> QED
      BY <2>3, <2>4, <3>1 DEF ListedOnce
  <2>10. ASSUME NEW d \in Client, Doing(d, "add")'
         PROVE  /\ command'[d].l \notin ToSet(listenersList')
                /\ \A k \in Client \ {d} : command'[k] # Idle => command'[k].l # command'[d].l
    <3>1. d # c /\ command'[d] = command[d] /\ Doing(d, "add")
      BY <2>6, <2>8, <2>10 DEF Doing
    <3>2. /\ \A k \in Client \ {d} : command[k] # Idle => command[k].l # command[d].l
          /\ command[d].l \notin ToSet(listenersList)
      BY <3>1 DEF ListedOnce
    <3>3. command[d].l # l
      BY <2>3, <3>1 DEF Doing, Idle
    <3> QED
      BY <2>4, <2>6, <2>7, <3>1, <3>2, <3>3
  <2>11. ASSUME NEW k \in Listeners \ removedTwice
         PROVE  /\ \A b, d \in Client : Removes(b, k)' /\ Removes(d, k)' => b = d
                /\ \A d \in Client : Removes(d, k)' => (Doing(d, "remove")' <=> k \in ToSet(listenersList'))
    <3>1. \A d \in Client : Removes(d, k)' =>
            d # c /\ Removes(d, k) /\ command'[d] = command[d]
      BY <2>6, <2>8 DEF Removes
    <3>2. \A d \in Client : Removes(d, k)' => k # l
      BY <2>3, <3>1 DEF Removes, Idle
    <3>3. \A d \in Client : Removes(d, k)' => (Doing(d, "remove")' <=> k \in ToSet(listenersList))
      BY <3>1 DEF ListedOnce, Doing
    <3> QED
      BY <2>4, <3>1, <3>2, <3>3 DEF ListedOnce
  <2> QED
    BY <2>1, <2>9, <2>10, <2>11 DEF ListedOnce
<1>4. ASSUME NEW c \in Client, RemoveListener(c) PROVE ListedOnce'
  <2> DEFINE l == command[c].l
  <2>1. command[c].at = "remove" /\ removedTwice' = removedTwice
    BY <1>4 DEF RemoveListener
  <2>2. command[c] \in [at : Doings, l : 1..created] /\ command[c] # Idle
    BY <2>1, CommandIs DEF Idle
  <2>3. /\ ToSet(listenersList') = ToSet(listenersList) \ {l}
        /\ \A i, j \in 1..Len(listenersList') : listenersList'[i] = listenersList'[j] => i = j
    BY <1>4, ListAfterRemoval
  <2>4. PICK at \in {"unregister", "release"} : Becomes(c, [command[c] EXCEPT !.at = at])
    BY <1>4 DEF RemoveListener
  <2>5. command'[c].at = at /\ command'[c].l = l /\ \A d \in Client \ {c} : command'[d] = command[d]
    BY <2>2, <2>4, BecomesIs DEF OthersLeft
  <2>6. Removes(c, l) /\ command[c].l = l
    BY <2>1 DEF Removes
  <2> HIDE DEF l
  <2>7. ASSUME NEW d \in Client, Doing(d, "add")'
        PROVE  /\ command'[d].l \notin ToSet(listenersList')
               /\ \A k \in Client \ {d} : command'[k] # Idle => command'[k].l # command'[d].l
    <3>1. d # c /\ command'[d] = command[d] /\ Doing(d, "add")
      BY <2>5, <2>7 DEF Doing
    <3>2. /\ \A k \in Client \ {d} : command[k] # Idle => command[k].l # command[d].l
          /\ command[d].l \notin ToSet(listenersList)
      BY <3>1 DEF ListedOnce
    <3> QED
      BY <2>2, <2>3, <2>5, <2>6, <3>1, <3>2
  <2>8. ASSUME NEW k \in Listeners \ removedTwice
        PROVE  /\ \A b, d \in Client : Removes(b, k)' /\ Removes(d, k)' => b = d
               /\ \A d \in Client : Removes(d, k)' => (Doing(d, "remove")' <=> k \in ToSet(listenersList'))
    <3>1. \A d \in Client : Removes(d, k)' => Removes(d, k)
      BY <2>1, <2>5, <2>6 DEF Removes
    <3>2. \A d \in Client \ {c} : Doing(d, "remove")' <=> Doing(d, "remove")
      BY <2>5 DEF Doing
    <3>3. CASE k = l
      <4>1. \A d \in Client : Removes(d, k)' => d = c
        BY <2>6, <2>8, <3>1, <3>3 DEF ListedOnce
      <4>2. ~Doing(c, "remove")' /\ k \notin ToSet(listenersList')
        BY <2>3, <2>5, <3>3 DEF Doing
      <4> QED
        BY <4>1, <4>2
    <3>4. CASE k # l
      <4>1. ~Removes(c, k)'
        BY <2>5, <3>4 DEF Removes
      <4> QED
        BY <2>3, <2>8, <3>1, <3>2, <3>4, <4>1 DEF ListedOnce
    <3> QED
      BY <3>3, <3>4
  <2> QED
    BY <2>1, <2>3, <2>7, <2>8 DEF ListedOnce
<1>5. ASSUME NEW c \in Client, EventsUnregisterListener(c) PROVE ListedOnce'
  <2>1. /\ command[c].at = "unregister" /\ UNCHANGED <<removedTwice, listenersList>>
        /\ Becomes(c, [command[c] EXCEPT !.at = "release"])
    BY <1>5 DEF EventsUnregisterListener
  <2>2. command[c] \in [at : Doings, l : 1..created] /\ command[c] # Idle
    BY <2>1, CommandIs DEF Idle
  <2>3. /\ command'[c].at = "release" /\ command'[c].l = command[c].l
        /\ \A d \in Client \ {c} : command'[d] = command[d]
    BY <2>1, <2>2, BecomesIs DEF OthersLeft
  <2>4. \A d \in Client : /\ command'[d].l = command[d].l
                          /\ command'[d] # Idle => command[d] # Idle
                          /\ Doing(d, "add")' <=> Doing(d, "add")
                          /\ Doing(d, "remove")' <=> Doing(d, "remove")
    BY <2>1, <2>2, <2>3 DEF Doing
  <2>5. \A d \in Client, l \in Listeners : Removes(d, l)' <=> Removes(d, l)
    BY <2>1, <2>3 DEF Removes
  <2> QED
    BY <2>1, <2>4, <2>5 DEF ListedOnce
<1>6. ASSUME NEW c \in Client, EventsRegisterListener(c) PROVE ListedOnce'
  <2>1. Becomes(c, Idle) /\ UNCHANGED <<listenersList, removedTwice>>
    BY <1>6 DEF EventsRegisterListener
  <2> QED
    BY <2>1, BecomesIs, ListedAtEnd
<1>7. ASSUME NEW c \in Client, ReleaseListener(c) PROVE ListedOnce'
  <2>1. Becomes(c, Idle) /\ UNCHANGED <<listenersList, removedTwice>>
    BY <1>7 DEF ReleaseListener
  <2> QED
    BY <2>1, BecomesIs, ListedAtEnd
<1>8. ASSUME NEW c \in Client, NEW f \in Filters,
             CommandAddListenEvent(c, f) \/ CommandRemoveListenEvent(c, f)
      PROVE  ListedOnce'
  <2>1. Becomes(c, Idle) /\ UNCHANGED <<listenersList, removedTwice>>
    BY <1>8 DEF CommandAddListenEvent, CommandRemoveListenEvent
  <2> QED
    BY <2>1, BecomesIs, ListedAtEnd
<1>9. CASE (\E e \in Event : EventsFireEventListeners(e)) \/ EventCallback \/ DeferredInformListeners
  <2>1. UNCHANGED <<listenersList, removedTwice, command>>
    BY <1>9 DEF EventsFireEventListeners, EventCallback, DeferredInformListeners
  <2> QED
    BY <2>1 DEF ListedOnce, Doing, Removes
<1> QED
  BY <1>1, <1>2, <1>3, <1>4, <1>5, <1>6, <1>7, <1>8, <1>9 DEF DispatcherNext

\* A step that concerns one listener leaves the references of the others right.
LEMMA OthersAccounted ==
  ASSUME DispatcherTyped, Counted, NEW c \in Client, OthersLeft(c), NEW l,
         command[c] = Idle \/ command[c].l = l,
         command'[c] = Idle \/ command'[c].l = l,
         \A k \in Listeners \ {l} :
           /\ listener'[k] = listener[k] /\ (k \in leaked <=> k \in leaked')
           /\ k \in ToSet(listenersList') <=> k \in ToSet(listenersList),
         removedTwice \subseteq removedTwice'
  PROVE  \A k \in Listeners \ {l} : k \notin removedTwice' => Accounted(k)'
<1> SUFFICES ASSUME NEW k \in Listeners \ {l}, k \notin removedTwice' PROVE Accounted(k)'
  OBVIOUS
<1>1. Accounted(k) /\ k \in Listeners
  BY DEF Counted
<1>2. c \notin Holders(k) /\ c \notin Holders(k)'
  BY DEF Holders
<1>3. Cardinality(Holders(k)') = Cardinality(Holders(k))
  BY <1>1, <1>2, HoldersMove
<1>4. Idle.at \notin {"unregister", "release"}
  BY DEF Idle
<1>5. Kept(k)' <=> Kept(k)
  BY <1>4 DEF Kept, OthersLeft
<1> QED
  BY <1>1, <1>3, <1>5 DEF Accounted

\* What a client has found is referenced.
LEMMA HeldIsReferenced ==
  ASSUME DispatcherTyped, Counted, NEW l \in Listeners \ removedTwice, listener[l].refs \in Int
  PROVE  /\ \A c \in Client : c \in Holders(l) => listener[l].refs >= 1
         /\ \A c \in Client : c \in Holders(l) /\ Kept(l) => listener[l].refs >= 2
         /\ Kept(l) => listener[l].refs >= 1
<1>1. Accounted(l)
  BY DEF Counted
<1>2. IsFiniteSet(Holders(l))
  BY EventsDispatcherAssumption, FS_Subset DEF Holders
<1>3. Cardinality(Holders(l)) \in Nat
  BY <1>2, FS_CardinalityType
<1>4. \A c \in Client : c \in Holders(l) => Cardinality(Holders(l)) # 0
  BY <1>2, FS_EmptySet
<1> QED
  BY <1>1, <1>3, <1>4 DEF Accounted

\* References stay right.
LEMMA CountedKept ==
  ASSUME DispatcherTyped, ListedOnce, Counted, DispatcherNext PROVE Counted'
<1>0. /\ \A l \in Listeners : listener[l].refs \in Int
      /\ Idle.at = "idle"
  BY ListenerParts DEF DispatcherTyped, Idle
<1>1. ASSUME NEW c \in Client, NEW x \in Label, CommandAddListener(c, x) PROVE Counted'
  <2>1. PICK l : l = created + 1
    OBVIOUS
  <2>2. /\ command[c] = Idle /\ UNCHANGED <<listenersList, removedTwice, leaked, dangling>>
        /\ Becomes(c, [at |-> "add", l |-> l]) /\ created < MaxListeners
        /\ listener' = [listener EXCEPT ![l] =
                          [name |-> x, all |-> FALSE, events |-> <<>>, refs |-> 1]]
    BY <1>1, <2>1 DEF CommandAddListener
  <2>3. command'[c].at = "add" /\ command'[c].l = l /\ command'[c] # Idle /\ OthersLeft(c)
    <3>1. [at |-> "add", l |-> l].at # Idle.at
      BY <1>0
    <3> QED
      BY <2>2, <3>1, BecomesIs
  <2>4. l \in Listeners /\ l \notin ToSet(listenersList) /\ l \notin 1..created
    BY <2>1, <2>2, ListedAreMade, EventsDispatcherAssumption DEF Listeners
  <2>5. listener'[l].refs = 1 /\ \A k \in Listeners \ {l} : listener'[k] = listener[k]
    BY <2>2, <2>4 DEF DispatcherTyped
  <2>6. \A k \in Listeners \ {l} : k \notin removedTwice' => Accounted(k)'
    BY <2>2, <2>3, <2>5, OthersAccounted
  <2>7. Holders(l) = {} /\ Holders(l)' = {c}
    <3>1. Holders(l) = {}
      BY <2>4, CommandIs DEF Holders
    <3>2. Holders(l)' \subseteq Holders(l) \cup {c}
      BY <2>3 DEF Holders, OthersLeft
    <3>3. c \in Holders(l)'
      BY <2>3 DEF Holders, Idle
    <3> QED
      BY <3>1, <3>2, <3>3
  <2>8. Cardinality(Holders(l)') = 1
    <3>1. Cardinality(Holders(l)') = Cardinality(Holders(l)) + 1
      BY <2>3, <2>4, <2>7, HoldersMove
    <3> QED
      BY <2>7, <3>1, FS_EmptySet
  <2>9. ~Kept(l)'
    <3>1. \A d \in Client : ~(command'[d].at \in {"unregister", "release"} /\ command'[d].l = l)
      BY <1>0, <2>3, <2>4, CommandIs DEF OthersLeft
    <3> QED
      BY <2>2, <2>4, <3>1 DEF Kept
  <2>10. Accounted(l)'
    BY <2>5, <2>8, <2>9 DEF Accounted
  <2> QED
    BY <2>2, <2>6, <2>10 DEF Counted
<1>2. ASSUME NEW c \in Client, NEW x \in Label, NEW does \in {"remove", "addevent", "rmevent"},
             FindListener(c, x, does)
      PROVE  Counted'
  <2>1. PICK l \in ToSet(listenersList) : Found(c, l, does)
    BY <1>2, FoundSteps
  <2>2. UNCHANGED <<listenersList, leaked, dangling>> /\ command[c] = Idle
    BY <1>2 DEF FindListener
  <2>3. command'[c].at = does /\ command'[c].l = l /\ command'[c] # Idle
    <3>1. [at |-> does, l |-> l].at # Idle.at
      BY <1>0
    <3> QED
      BY <2>1, <3>1 DEF Found
  <2>4. removedTwice \subseteq removedTwice'
    BY <2>1 DEF Found
  <2>5. \A k \in Listeners \ {l} : k \notin removedTwice' => Accounted(k)'
    BY <2>1, <2>2, <2>3, <2>4, OthersAccounted DEF Found
  <2>6. c \notin Holders(l) /\ c \in Holders(l)'
    BY <2>2, <2>3 DEF Holders
  <2>7. Cardinality(Holders(l)') = Cardinality(Holders(l)) + 1 /\ Cardinality(Holders(l)) \in Nat
    BY <2>1, <2>6, HoldersMove DEF Found
  <2>8. Kept(l)' /\ Kept(l)
    BY <2>1, <2>2 DEF Found, Kept
  <2>9. l \notin removedTwice' => Accounted(l)'
    <3>1. l \notin removedTwice' => Accounted(l)
      BY <2>1, <2>4 DEF Found, Counted
    <3> QED
      BY <1>0, <2>1, <2>2, <2>7, <2>8, <3>1 DEF Found, Accounted
  <2>10. dangling' => removedTwice' # {}
    BY <2>2, <2>4 DEF Counted
  <2> QED
    BY <2>5, <2>9, <2>10 DEF Counted
<1>3. ASSUME NEW c \in Client, AddListener(c) PROVE Counted'
  <2>1. PICK l : l = command[c].l
    OBVIOUS
  <2>2. /\ command[c].at = "add" /\ listenersList' = Append(listenersList, l)
        /\ UNCHANGED <<listener, removedTwice, leaked, dangling>>
    BY <1>3, <2>1 DEF AddListener
  <2>3. /\ command[c] \in [at : Doings, l : 1..created] /\ command[c] # Idle
        /\ l \in 1..created /\ l \in Listeners
    BY <2>1, <2>2, CommandIs DEF Idle
  <2>4. (command'[c] = [command[c] EXCEPT !.at = "register"] \/ command'[c] = Idle) /\ OthersLeft(c)
    <3>1. PICK next \in {[command[c] EXCEPT !.at = "register"], Idle} : Becomes(c, next)
      BY <1>3 DEF AddListener
    <3> QED
      BY <3>1, BecomesIs
  <2>5. command'[c] = Idle \/ (command'[c].at = "register" /\ command'[c].l = l)
    BY <2>1, <2>3, <2>4
  <2>6. ToSet(listenersList') = ToSet(listenersList) \cup {l}
    <3> DEFINE q == listenersList
               S == 1..created
    <3>1. q \in Seq(S) /\ l \in S
      BY <2>3 DEF DispatcherTyped
    <3> HIDE DEF q, S
    <3>2. ToSet(Append(q, l)) = ToSet(q) \cup {l}
      BY <3>1, MembersAdded
    <3> QED
      BY <2>2, <3>2 DEF q
  <2>7. \A k \in Listeners \ {l} : k \notin removedTwice' => Accounted(k)'
    <3>1. \A k \in Listeners \ {l} : k \in ToSet(listenersList') <=> k \in ToSet(listenersList)
      BY <2>6
    <3> QED
      BY <2>1, <2>2, <2>4, <2>5, <3>1, OthersAccounted
  <2>8. c \in Holders(l) /\ c \notin Holders(l)'
    BY <2>1, <2>2, <2>3, <2>5 DEF Holders
  <2>9. Cardinality(Holders(l)) = Cardinality(Holders(l)') + 1 /\ Cardinality(Holders(l)') \in Nat
    BY <2>3, <2>4, <2>8, HoldersMove
  <2>10. ~Kept(l)
    <3>1. /\ l \notin ToSet(listenersList)
          /\ \A d \in Client \ {c} : command[d] # Idle => command[d].l # l
      BY <2>1, <2>2 DEF ListedOnce, Doing
    <3> QED
      BY <1>0, <2>2, <3>1 DEF Kept
  <2>11. Kept(l)'
    BY <2>6 DEF Kept
  <2>12. l \notin removedTwice' => Accounted(l)'
    <3>1. l \notin removedTwice' => Accounted(l)
      BY <2>2, <2>3 DEF Counted
    <3> QED
      BY <1>0, <2>2, <2>3, <2>9, <2>10, <2>11, <3>1 DEF Accounted
  <2> QED
    BY <2>2, <2>7, <2>12 DEF Counted
<1>4. ASSUME NEW c \in Client, EventsRegisterListener(c) PROVE Counted'
  <2>1. PICK l : l = command[c].l
    OBVIOUS
  <2>2. /\ command[c].at = "register" /\ Becomes(c, Idle)
        /\ UNCHANGED <<listenersList, listener, removedTwice, leaked, dangling>>
    BY <1>4 DEF EventsRegisterListener
  <2>3. command'[c] = Idle /\ OthersLeft(c)
    BY <2>2, BecomesIs
  <2>4. \A k \in Listeners \ {l} : k \notin removedTwice' => Accounted(k)'
    BY <2>1, <2>2, <2>3, OthersAccounted
  <2>5. ASSUME l \in Listeners, l \notin removedTwice' PROVE Accounted(l)'
    <3>1. c \notin Holders(l) /\ c \notin Holders(l)'
      BY <2>2, <2>3 DEF Holders
    <3>2. Cardinality(Holders(l)') = Cardinality(Holders(l))
      BY <2>3, <2>5, <3>1, HoldersMove
    <3>3. Kept(l)' <=> Kept(l)
      BY <1>0, <2>2, <2>3 DEF Kept, OthersLeft
    <3>4. Accounted(l)
      BY <2>2, <2>5 DEF Counted
    <3> QED
      BY <2>2, <3>2, <3>3, <3>4 DEF Accounted
  <2> QED
    BY <2>2, <2>4, <2>5 DEF Counted
<1>5. ASSUME NEW c \in Client, RemoveListener(c) PROVE Counted'
  <2>1. PICK l : l = command[c].l
    OBVIOUS
  <2>2. /\ command[c].at = "remove" /\ UNCHANGED <<listener, removedTwice, leaked>>
        /\ dangling' = (dangling \/ listener[l].refs = 0)
    BY <1>5, <2>1 DEF RemoveListener
  <2>3. /\ command[c] \in [at : Doings, l : 1..created] /\ command[c] # Idle
        /\ l \in Listeners
    BY <2>1, <2>2, CommandIs DEF Idle
  <2>4. ToSet(listenersList') = ToSet(listenersList) \ {l}
    BY <1>5, <2>1, ListAfterRemoval
  <2>5. PICK at \in {"unregister", "release"} : Becomes(c, [command[c] EXCEPT !.at = at])
    BY <1>5 DEF RemoveListener
  <2>6. command'[c].at = at /\ command'[c].l = l /\ command'[c] # Idle /\ OthersLeft(c)
    BY <1>0, <2>1, <2>3, <2>5, BecomesIs
  <2>7. \A k \in Listeners \ {l} : k \notin removedTwice' => Accounted(k)'
    <3>1. \A k \in Listeners \ {l} : k \in ToSet(listenersList') <=> k \in ToSet(listenersList)
      BY <2>4
    <3> QED
      BY <2>1, <2>2, <2>6, <3>1, OthersAccounted
  <2>8. c \in Holders(l) /\ c \in Holders(l)'
    BY <2>1, <2>2, <2>3, <2>6 DEF Holders
  <2>9. Cardinality(Holders(l)') = Cardinality(Holders(l))
    BY <2>3, <2>6, <2>8, HoldersMove
  <2>10. l \notin removedTwice => Kept(l) /\ Kept(l)'
    <3>1. l \notin removedTwice => l \in ToSet(listenersList)
      BY <2>1, <2>2, <2>3 DEF ListedOnce, Doing, Removes
    <3> QED
      BY <2>6, <3>1 DEF Kept
  <2>11. l \notin removedTwice => Accounted(l)'
    <3>1. l \notin removedTwice => Accounted(l)
      BY <2>3 DEF Counted
    <3> QED
      BY <2>2, <2>9, <2>10, <3>1 DEF Accounted
  <2>12. dangling' => removedTwice' # {}
    <3>1. l \notin removedTwice => listener[l].refs >= 1
      BY <1>0, <2>3, <2>8, HeldIsReferenced
    <3>2. dangling' => dangling \/ listener[l].refs = 0
      BY <2>2, Zenon
    <3> QED
      BY <2>2, <3>1, <3>2 DEF Counted
  <2> QED
    BY <2>2, <2>7, <2>11, <2>12 DEF Counted
<1>6. ASSUME NEW c \in Client, EventsUnregisterListener(c) PROVE Counted'
  <2>1. PICK l : l = command[c].l
    OBVIOUS
  <2>2. /\ command[c].at = "unregister" /\ Becomes(c, [command[c] EXCEPT !.at = "release"])
        /\ UNCHANGED <<listenersList, listener, removedTwice, leaked, dangling>>
    BY <1>6 DEF EventsUnregisterListener
  <2>3. command[c] \in [at : Doings, l : 1..created] /\ command[c] # Idle /\ l \in Listeners
    BY <2>1, <2>2, CommandIs DEF Idle
  <2>4. command'[c].at = "release" /\ command'[c].l = l /\ command'[c] # Idle /\ OthersLeft(c)
    BY <1>0, <2>1, <2>2, <2>3, BecomesIs
  <2>5. \A k \in Listeners \ {l} : k \notin removedTwice' => Accounted(k)'
    BY <2>1, <2>2, <2>4, OthersAccounted
  <2>6. c \in Holders(l) /\ c \in Holders(l)'
    BY <2>1, <2>2, <2>3, <2>4 DEF Holders
  <2>7. Cardinality(Holders(l)') = Cardinality(Holders(l))
    BY <2>3, <2>4, <2>6, HoldersMove
  <2>8. Kept(l) /\ Kept(l)'
    BY <2>1, <2>2, <2>4 DEF Kept
  <2>9. l \notin removedTwice => Accounted(l)'
    <3>1. l \notin removedTwice => Accounted(l)
      BY <2>3 DEF Counted
    <3> QED
      BY <2>2, <2>7, <2>8, <3>1 DEF Accounted
  <2> QED
    BY <2>2, <2>5, <2>9 DEF Counted
<1>7. ASSUME NEW c \in Client, ReleaseListener(c) PROVE Counted'
  <2>1. PICK l : l = command[c].l
    OBVIOUS
  <2>2. /\ command[c].at = "release" /\ l \in Listeners
        /\ listener[l].refs \in Int
        /\ listener'[l].refs = IF listener[l].refs < 2 THEN 0 ELSE listener[l].refs - 2
        /\ \A k \in Listeners \ {l} : listener'[k] = listener[k]
        /\ command'[c] = Idle /\ OthersLeft(c)
        /\ dangling' = (dangling \/ listener[l].refs < 2)
    BY <1>7, <2>1, ReleaseSteps
  <2>3. UNCHANGED <<listenersList, leaked, removedTwice>>
    BY <1>7 DEF ReleaseListener
  <2>4. \A k \in Listeners \ {l} : k \notin removedTwice' => Accounted(k)'
    BY <2>1, <2>2, <2>3, OthersAccounted
  <2>5. c \in Holders(l) /\ c \notin Holders(l)' /\ Kept(l)
    BY <1>0, <2>1, <2>2 DEF Holders, Kept
  <2>6. Cardinality(Holders(l)) = Cardinality(Holders(l)') + 1 /\ Cardinality(Holders(l)') \in Nat
    BY <2>2, <2>5, HoldersMove
  <2>7. l \notin removedTwice => ~Kept(l)'
    <3>1. Removes(c, l) /\ ~Doing(c, "remove")
      BY <2>1, <2>2 DEF Removes, Doing
    <3>2. l \notin removedTwice =>
            l \notin ToSet(listenersList) /\ \A d \in Client \ {c} : ~Removes(d, l)
      BY <2>2, <3>1 DEF ListedOnce
    <3>3. \A d \in Client \ {c} : ~Removes(d, l) =>
            ~(command'[d].at \in {"unregister", "release"} /\ command'[d].l = l)
      BY <2>2 DEF Removes, OthersLeft
    <3>4. ~(command'[c].at \in {"unregister", "release"})
      BY <1>0, <2>2
    <3> QED
      BY <2>3, <3>2, <3>3, <3>4 DEF Kept
  <2>8. l \notin removedTwice => listener[l].refs >= 2
    BY <2>2, <2>5, HeldIsReferenced
  <2>9. l \notin removedTwice => Accounted(l)'
    <3>1. l \notin removedTwice => Accounted(l)
      BY <2>2 DEF Counted
    <3> QED
      BY <2>2, <2>3, <2>5, <2>6, <2>7, <2>8, <3>1 DEF Accounted
  <2>10. dangling' => removedTwice' # {}
    <3>1. dangling' => dangling \/ listener[l].refs < 2
      BY <2>2, Zenon
    <3> QED
      BY <2>2, <2>3, <2>8, <3>1 DEF Counted
  <2> QED
    BY <2>3, <2>4, <2>9, <2>10 DEF Counted
<1>8. ASSUME NEW c \in Client, NEW l \in Listeners,
             command[c].at \in {"addevent", "rmevent"}, command[c].l = l,
             \/ listener'[l].refs = listener[l].refs - 1 /\ leaked' = leaked
             \/ listener' = listener /\ leaked' = leaked \cup {l},
             \A k \in Listeners \ {l} : listener'[k] = listener[k],
             command'[c] = Idle, OthersLeft(c), dangling' = (dangling \/ listener[l].refs = 0),
             UNCHANGED <<listenersList, removedTwice>>
      PROVE  Counted'
  <2>1. \A k \in Listeners \ {l} : k \notin removedTwice' => Accounted(k)'
    <3>1. \A k \in Listeners \ {l} : k \in leaked <=> k \in leaked'
      BY <1>8
    <3> QED
      BY <1>8, <3>1, OthersAccounted
  <2>2. c \in Holders(l) /\ c \notin Holders(l)'
    BY <1>0, <1>8 DEF Holders
  <2>3. Cardinality(Holders(l)) = Cardinality(Holders(l)') + 1 /\ Cardinality(Holders(l)') \in Nat
    BY <1>8, <2>2, HoldersMove
  <2>4. Kept(l) <=> Kept(l)'
    <3>1. ~(command[c].at \in {"unregister", "release"}) /\ ~(command'[c].at \in {"unregister", "release"})
      BY <1>0, <1>8
    <3>2. \A d \in Client \ {c} : command'[d] = command[d]
      BY <1>8 DEF OthersLeft
    <3> QED
      BY <1>8, <3>1, <3>2 DEF Kept
  <2>5. l \notin removedTwice => Accounted(l)'
    <3>1. l \notin removedTwice => Accounted(l)
      BY DEF Counted
    <3> QED
      BY <1>0, <1>8, <2>3, <2>4, <3>1 DEF Accounted
  <2>6. dangling' => removedTwice' # {}
    <3>1. l \notin removedTwice => listener[l].refs >= 1
      BY <1>0, <2>2, HeldIsReferenced
    <3>2. dangling' => dangling \/ listener[l].refs = 0
      BY <1>8, Zenon
    <3> QED
      BY <1>8, <3>1, <3>2 DEF Counted
  <2> QED
    BY <1>8, <2>1, <2>5, <2>6 DEF Counted
<1>9. ASSUME NEW c \in Client, NEW f \in Filters, CommandAddListenEvent(c, f) PROVE Counted'
  <2>1. PICK l : l = command[c].l
    OBVIOUS
  <2>2. /\ command[c].at = "addevent" /\ l \in Listeners
        /\ listener'[l].refs = listener[l].refs - 1
        /\ \A k \in Listeners \ {l} : listener'[k] = listener[k]
        /\ command'[c] = Idle /\ OthersLeft(c)
        /\ dangling' = (dangling \/ listener[l].refs = 0)
    BY <1>9, <2>1, AddEventSteps
  <2>3. UNCHANGED <<listenersList, removedTwice, leaked>>
    BY <1>9 DEF CommandAddListenEvent
  <2> QED
    BY <1>8, <2>1, <2>2, <2>3
<1>10. ASSUME NEW c \in Client, NEW f \in Filters, CommandRemoveListenEvent(c, f) PROVE Counted'
  <2>1. PICK l : l = command[c].l
    OBVIOUS
  <2>2. /\ command[c].at = "rmevent" /\ l \in Listeners
        /\ \/ listener'[l].refs = listener[l].refs - 1 /\ leaked' = leaked
           \/ listener' = listener /\ leaked' = leaked \cup {l}
        /\ \A k \in Listeners \ {l} : listener'[k] = listener[k]
        /\ command'[c] = Idle /\ OthersLeft(c)
        /\ dangling' = (dangling \/ listener[l].refs = 0)
    BY <1>10, <2>1, RemoveEventSteps
  <2>3. UNCHANGED <<listenersList, removedTwice>>
    BY <1>10 DEF CommandRemoveListenEvent
  <2> QED
    BY <1>8, <2>1, <2>2, <2>3
<1>11. ASSUME UNCHANGED <<listenersList, listener, removedTwice, leaked, command>>,
              dangling' => dangling \/ \E l \in ToSet(listenersList) : listener[l].refs = 0
       PROVE  Counted'
  <2>1. \A l \in ToSet(listenersList) : l \notin removedTwice => listener[l].refs >= 1
    BY <1>0, ListedAreMade, HeldIsReferenced DEF Kept
  <2>2. \A l \in ToSet(listenersList) : l \notin removedTwice => listener[l].refs # 0
    BY <1>0, <2>1, ListedAreMade
  <2>3. dangling' => removedTwice' # {}
    BY <1>11, <2>2 DEF Counted
  <2>4. \A l \in Listeners : Accounted(l) => Accounted(l)'
    BY <1>11 DEF Accounted, Holders, Kept
  <2> QED
    BY <1>11, <2>3, <2>4 DEF Counted
<1>12. CASE (\E e \in Event : EventsFireEventListeners(e)) \/ EventCallback
  BY <1>11, <1>12 DEF EventsFireEventListeners, EventCallback
<1>13. CASE DeferredInformListeners
  BY <1>11, <1>13 DEF DeferredInformListeners
<1> QED
  BY <1>1, <1>2, <1>3, <1>4, <1>5, <1>6, <1>7, <1>9, <1>10, <1>12, <1>13 DEF DispatcherNext

\* The dispatcher starts with nothing.
LEMMA InitDispatcher == EventDispatcherInstalled => DispatcherIInv
<1> SUFFICES ASSUME EventDispatcherInstalled PROVE DispatcherIInv
  OBVIOUS
<1>1. /\ listenersList = <<>> /\ created = 0 /\ callbacks = 0
      /\ listenersMutex = Free /\ eventsMutex = Free
      /\ jobs = <<>> /\ fired = 0 /\ removedTwice = {} /\ leaked = {} /\ dangling = FALSE
      /\ \A c \in Client : command[c] = Idle
      /\ \A l \in Listeners : notified[l] = <<>> /\ due[l] = {} /\ listener[l].refs = 0
      /\ command \in [Client -> {Idle}]
      /\ notified \in [Listeners -> {<<>>}] /\ due \in [Listeners -> {{}}]
  BY DEF EventDispatcherInstalled
<1>2. \A c \in Client : command[c].at = "idle" /\ listenersMutex # c
  BY <1>1, EventsDispatcherAssumption DEF Idle, Free
<1>3. DispatcherTyped
  <2>1. listener \in [Listeners -> Listener]
    <3>1. PICK x : x = CHOOSE y \in Label : TRUE
      OBVIOUS
    <3>2. x \in Label
      BY <3>1, EventsDispatcherAssumption
    <3>3. [name |-> x, all |-> FALSE, events |-> <<>>, refs |-> 0] \in Listener
      BY <3>2 DEF Listener
    <3> QED
      BY <3>1, <3>3 DEF EventDispatcherInstalled
  <2>2. created \in 0..MaxListeners /\ listenersList \in Seq(1..created)
    BY <1>1, EventsDispatcherAssumption
  <2>3. jobs \in Seq([event : Event, n : Nat]) /\ notified \in [Listeners -> Seq(Nat)]
    <3>1. <<>> \in Seq([event : Event, n : Nat]) /\ <<>> \in Seq(Nat)
      OBVIOUS
    <3> QED
      BY <1>1, <3>1
  <2> QED
    BY <1>1, <2>1, <2>2, <2>3 DEF DispatcherTyped
<1>4. Registered
  BY <1>1, <1>2 DEF Registered, Doing
<1>5. ToldInOrder
  BY <1>1 DEF ToldInOrder
<1>6. DueIsQueued
  BY <1>1 DEF DueIsQueued
<1>7. ListedOnce
  BY <1>1, <1>2 DEF ListedOnce, Doing, Removes
<1>8. Counted
  <2>1. \A l : Holders(l) = {}
    BY <1>1 DEF Holders
  <2>2. \A l : ~Kept(l)
    BY <1>1, <1>2 DEF Kept, ToSet
  <2>3. Cardinality({}) = 0
    BY FS_EmptySet
  <2>4. \A l \in Listeners : Accounted(l)
    <3> TAKE l \in Listeners
    <3>1. listener[l].refs = 0 /\ Cardinality(Holders(l)) = 0 /\ ~Kept(l)
      BY <1>1, <2>1, <2>2, <2>3
    <3> QED
      BY <3>1 DEF Accounted
  <2>5. ~dangling
    BY <1>1
  <2> QED
    BY <2>4, <2>5 DEF Counted
<1> QED
  BY <1>3, <1>4, <1>5, <1>6, <1>7, <1>8 DEF DispatcherIInv

LEMMA NextKeepsDispatcherIInv ==
  DispatcherIInv /\ [DispatcherNext]_dispatcher => DispatcherIInv'
<1>1. ASSUME DispatcherIInv, DispatcherNext PROVE DispatcherIInv'
  BY <1>1, DispatcherTypedKept, RegisteredKept, OrderIsKept, DueKept, ListedOnceKept, CountedKept
     DEF DispatcherIInv
<1>2. ASSUME DispatcherIInv, UNCHANGED dispatcher PROVE DispatcherIInv'
  <2>1. UNCHANGED <<listenersList, listener, created, callbacks, listenersMutex, eventsMutex,
                    command, jobs, fired, notified, due, removedTwice, leaked, dangling>>
    BY <1>2 DEF dispatcher
  <2>2. DispatcherTyped' /\ Registered' /\ ToldInOrder'
    BY <1>2, <2>1 DEF DispatcherIInv, DispatcherTyped, Registered, ToldInOrder, Doing
  <2>3. DueIsQueued' /\ ListedOnce'
    BY <1>2, <2>1 DEF DispatcherIInv, DueIsQueued, Asks, ListedOnce, Doing, Removes
  <2>4. Counted'
    BY <1>2, <2>1 DEF DispatcherIInv, Counted, Accounted, Holders, Kept
  <2> QED
    BY <2>2, <2>3, <2>4 DEF DispatcherIInv
<1> QED
  BY <1>1, <1>2

LEMMA DispatcherIInvServes == DispatcherIInv => ListenersServed
<1> SUFFICES ASSUME DispatcherIInv PROVE ListenersServed
  OBVIOUS
<1> USE DEF DispatcherIInv
<1>1. DOMAIN jobs = 1..Len(jobs) /\ \A l \in Listeners : DOMAIN notified[l] = 1..Len(notified[l])
  BY LenProperties DEF DispatcherTyped
<1>2. ListenersTold
  BY <1>1 DEF DueIsQueued, ToldInOrder, ListenersTold
<1>3. ListenersCounted
  BY DEF Counted, Accounted, ListenersCounted
<1> QED
  BY <1>2, <1>3 DEF ListenersServed

\* Listeners are told in order, and once, whatever they go on asking for, and their
\* references are those of the list and of the commands that have found them, for
\* any number of clients, listeners, filters and events; but for a listener that
\* two clients have removed, or a filter that was not there.
THEOREM ListenersAreServed == DispatcherSpec => []ListenersServed
  BY InitDispatcher, NextKeepsDispatcherIInv, DispatcherIInvServes, PTL DEF DispatcherSpec

----------------------------------------------------------------------------
(* The link to a module of conditional access. *)

\* What can be read from the device, and where the poll is.
AnswerRec == [tag : {"none", "CTC_REPLY", "SB", "DATA_LAST"}, data : Nat, more : BOOLEAN]

Steps == [slot : SlotIds, step : {"look", "create", "ask", "fetch", "handle"}, tries : Nat]

TransportTyped ==
  /\ plugged \subseteq SlotIds /\ connected \subseteq SlotIds
  /\ open \subseteq SlotIds /\ hasData \subseteq SlotIds
  /\ arrived \in [SlotIds -> Seq(AnswerRec)] /\ overdue \in [SlotIds -> Seq(AnswerRec)]
  /\ wants \in [SlotIds -> Nat] /\ said \in [SlotIds -> Nat] /\ handed \in [SlotIds -> Seq(Nat)]
  /\ poll = AtRest \/ poll \in Steps
  /\ lates \in Nat

\* What is read first of the answers that are ready is what a request comes to.
Came(s, o, queues) ==
  \/ /\ \A t \in SlotIds : queues[t] = <<>>
     /\ o.got = NoAnswer /\ o.arrived = queues
  \/ \E t \in SlotIds :
       /\ queues[t] # <<>> /\ o.arrived = [queues EXCEPT ![t] = Tail(@)]
       /\ o.got = IF t = s THEN Head(queues[t]) ELSE NoAnswer

\* A module that is not there, or has no connection, takes nothing.
Untaken(o) ==
  /\ o.overdue = overdue /\ o.wants = wants /\ o.said = said
  /\ o.connected = connected /\ o.lates = lates

\* One that does gives at most one message, in time or not.
Data(s, tag) == IF AnswerTo(s, tag).tag = "DATA_LAST" THEN 1 ELSE 0

Taken(s, tag, o) ==
  /\ o.wants = [wants EXCEPT ![s] = @ - Data(s, tag)]
  /\ o.said = [said EXCEPT ![s] = @ + Data(s, tag)]
  /\ o.connected = connected \cup {s}

InTime(s, tag, o) ==
  /\ Came(s, o, [arrived EXCEPT ![s] = arrived[s] \o overdue[s] \o <<AnswerTo(s, tag)>>])
  /\ o.overdue = [overdue EXCEPT ![s] = <<>>] /\ o.lates = lates

TooLate(s, tag, o) ==
  /\ Came(s, o, arrived)
  /\ o.overdue = [overdue EXCEPT ![s] = Append(overdue[s], AnswerTo(s, tag))] /\ o.lates = lates + 1

\* Reads are what Came says.
LEMMA ReadFirst ==
  ASSUME NEW s, NEW queues, NEW o, NEW r \in Read(s, queues), o.got = r.got, o.arrived = r.arrived
  PROVE  Came(s, o, queues)
<1>1. CASE \A t \in SlotIds : queues[t] = <<>>
  BY <1>1 DEF Read, Came
<1>2. CASE ~\A t \in SlotIds : queues[t] = <<>>
  <2>1. PICK t \in {t \in SlotIds : queues[t] # <<>>} :
          r = [got |-> IF t = s THEN Head(queues[t]) ELSE NoAnswer, arrived |-> [queues EXCEPT ![t] = Tail(@)]]
    BY <1>2 DEF Read
  <2> QED
    BY <2>1 DEF Came
<1> QED
  BY <1>1, <1>2

\* A mere read, and a request, by what was done with it.
LEMMA OutcomeUnasked ==
  ASSUME NEW s, NEW o \in Outcomes(s, {Unasked})
  PROVE  Came(s, o, arrived) /\ Untaken(o)
<1>0. o \in Heard(s, Unasked)
  BY DEF Outcomes
<1>1. PICK r \in Read(s, Unasked.arrived) : o = [Unasked EXCEPT !.arrived = r.arrived, !.got = r.got]
  BY <1>0 DEF Heard
<1>2. /\ r \in Read(s, arrived) /\ o.got = r.got /\ o.arrived = r.arrived
      /\ Untaken(o)
  BY <1>1 DEF Unasked, Untaken
<1> QED
  BY <1>2, ReadFirst

LEMMA OutcomeAsked ==
  ASSUME TransportTyped, NEW s \in SlotIds, NEW tag, NEW o \in Outcomes(s, Asked(s, tag))
  PROVE  \/ ~Answers(s, tag) /\ Came(s, o, arrived) /\ Untaken(o)
         \/ Answers(s, tag) /\ Taken(s, tag, o) /\ (InTime(s, tag, o) \/ TooLate(s, tag, o))
<1>1. CASE ~Answers(s, tag)
  <2>1. Asked(s, tag) = {Unasked}
    BY <1>1 DEF Asked
  <2> QED
    BY <1>1, <2>1, OutcomeUnasked
<1>2. CASE Answers(s, tag)
  <2> DEFINE answer == AnswerTo(s, tag)
             data == Data(s, tag)
             given == [Unasked EXCEPT !.wants[s] = @ - data, !.said[s] = @ + data, !.connected = @ \cup {s}]
             soon == [given EXCEPT !.arrived[s] = @ \o overdue[s] \o <<answer>>, !.overdue[s] = <<>>]
             late(n) == [given EXCEPT !.overdue[s] = Append(@, answer), !.lates = n]
  <2>1. Asked(s, tag) = {soon} \cup {late(n) : n \in {lates + 1} \cap 0..MaxLate}
    BY <1>2 DEF Asked, Data
  <2>2. PICK d \in Asked(s, tag) : o \in Heard(s, d)
    BY DEF Outcomes
  <2>3. PICK r \in Read(s, d.arrived) : o = [d EXCEPT !.arrived = r.arrived, !.got = r.got]
    BY <2>2 DEF Heard
  <2>4. /\ given.arrived = arrived /\ given.overdue = overdue /\ given.lates = lates
        /\ given.wants = [wants EXCEPT ![s] = @ - data] /\ given.said = [said EXCEPT ![s] = @ + data]
        /\ given.connected = connected \cup {s}
    BY DEF Unasked
  <2>7. DOMAIN given = {"arrived", "overdue", "wants", "said", "connected", "lates", "got"}
    BY DEF Unasked
  <2> HIDE DEF given, answer, data
  <2>5. CASE d = soon
    <3>1. /\ d.arrived = [arrived EXCEPT ![s] = arrived[s] \o overdue[s] \o <<answer>>]
          /\ d.overdue = [overdue EXCEPT ![s] = <<>>]
          /\ d.wants = [wants EXCEPT ![s] = @ - data]
          /\ d.said = [said EXCEPT ![s] = @ + data]
          /\ d.connected = connected \cup {s}
          /\ d.lates = lates
          /\ DOMAIN d = DOMAIN given
      BY <2>4, <2>5, <2>7
    <3>2. /\ r \in Read(s, [arrived EXCEPT ![s] = arrived[s] \o overdue[s] \o <<answer>>])
          /\ o.got = r.got /\ o.arrived = r.arrived
          /\ o.overdue = [overdue EXCEPT ![s] = <<>>] /\ o.lates = lates
          /\ o.wants = [wants EXCEPT ![s] = @ - data] /\ o.said = [said EXCEPT ![s] = @ + data]
          /\ o.connected = connected \cup {s}
      BY <2>3, <2>7, <3>1
    <3>3. Came(s, o, [arrived EXCEPT ![s] = arrived[s] \o overdue[s] \o <<answer>>])
      BY <3>2, ReadFirst
    <3> QED
      BY <1>2, <3>2, <3>3 DEF Taken, InTime, answer, data
  <2>6. CASE d = late(lates + 1)
    <3>1. /\ d.arrived = arrived
          /\ d.overdue = [overdue EXCEPT ![s] = Append(overdue[s], answer)]
          /\ d.wants = [wants EXCEPT ![s] = @ - data]
          /\ d.said = [said EXCEPT ![s] = @ + data]
          /\ d.connected = connected \cup {s}
          /\ d.lates = lates + 1
          /\ DOMAIN d = DOMAIN given
      BY <2>4, <2>6, <2>7
    <3>2. /\ r \in Read(s, arrived) /\ o.got = r.got /\ o.arrived = r.arrived
          /\ o.overdue = [overdue EXCEPT ![s] = Append(overdue[s], answer)] /\ o.lates = lates + 1
          /\ o.wants = [wants EXCEPT ![s] = @ - data] /\ o.said = [said EXCEPT ![s] = @ + data]
          /\ o.connected = connected \cup {s}
      BY <2>3, <2>7, <3>1
    <3>3. Came(s, o, arrived)
      BY <3>2, ReadFirst
    <3> QED
      BY <1>2, <3>2, <3>3 DEF Taken, TooLate, answer, data
  <2> QED
    BY <2>1, <2>2, <2>5, <2>6
<1> QED
  BY <1>1, <1>2

----------------------------------------------------------------------------
\* The invariant, slot by slot. A module that is not connected has nothing
\* pending; one that is, is plugged in and its slot open, but for the time in
\* which its reply to CREATE_TC is waited for. Of that reply there is one, and
\* all other answers that were not read yet only tell the state: whether data
\* is waiting, which only a successful request ends. So data is asked for when
\* there is some, and comes in the order it was given.
Creating(s) == poll.slot = s /\ poll.step = "create"
ReplyRec == [tag |-> "CTC_REPLY", data |-> 0, more |-> FALSE]
States(n) == {a \in [tag : {"SB"}, data : {0}, more : BOOLEAN] : a.more => n > 0}

GoneIsEmpty(s) == s \notin connected => arrived[s] = <<>> /\ overdue[s] = <<>> /\ wants[s] = 0 /\ said[s] = 0
LinkedIsOpen(s) == s \in connected => s \in plugged /\ (s \in open \/ (Creating(s) /\ poll.tries > 0))
CreatedAnew(s) == Creating(s) => s \notin open
OneReply(early, later) ==
  \/ early = <<>> /\ later = <<>>
  \/ early = <<ReplyRec>> /\ later = <<>>
  \/ early = <<>> /\ later = <<ReplyRec>>
OldAnswers(s) ==
  \/ Creating(s) /\ OneReply(arrived[s], overdue[s])
  \/ ~Creating(s) /\ arrived[s] \in Seq(States(wants[s])) /\ overdue[s] \in Seq(States(wants[s]))
DataIsThere(s) == s \in hasData \cap open \cap connected => wants[s] > 0
FetchesSome(s) == poll.slot = s /\ poll.step = "fetch" /\ s \in connected => wants[s] > 0
NothingLate(s) ==
  lates = 0 => /\ arrived[s] = <<>> /\ overdue[s] = <<>>
               /\ Creating(s) /\ poll.tries > 0 => s \notin connected
HandedInOrder(s) == handed[s] = [i \in 1..said[s] |-> i]

SlotInv(s) ==
  /\ GoneIsEmpty(s) /\ LinkedIsOpen(s) /\ CreatedAnew(s) /\ OldAnswers(s)
  /\ DataIsThere(s) /\ FetchesSome(s) /\ NothingLate(s) /\ HandedInOrder(s)

TransportIInv == TransportTyped /\ ~unjust /\ \A s \in SlotIds : SlotInv(s)

\* A slot that is not polled, from whose answers the first may have been read.
NotPolled(u) ==
  /\ u \in plugged' <=> u \in plugged
  /\ u \in connected' <=> u \in connected
  /\ u \in open' <=> u \in open
  /\ u \in hasData' <=> u \in hasData
  /\ wants'[u] = wants[u] /\ said'[u] = said[u] /\ handed'[u] = handed[u] /\ overdue'[u] = overdue[u]
  /\ arrived'[u] = arrived[u] \/ (arrived[u] # <<>> /\ arrived'[u] = Tail(arrived[u]))
  /\ lates' = 0 => lates = 0

LEMMA KeptSlot ==
  ASSUME TransportTyped, NEW u \in SlotIds, SlotInv(u), NotPolled(u),
         ~Creating(u), ~Creating(u)', ~(poll'.slot = u /\ poll'.step = "fetch")
  PROVE  SlotInv(u)'
<1>1. GoneIsEmpty(u)'
  BY DEF GoneIsEmpty, SlotInv, NotPolled
<1>2. LinkedIsOpen(u)'
  BY DEF LinkedIsOpen, SlotInv, NotPolled, Creating
<1>3. OldAnswers(u)'
  <2>1. arrived[u] \in Seq(States(wants[u])) /\ overdue[u] \in Seq(States(wants[u]))
    BY DEF SlotInv, OldAnswers
  <2>2. CASE arrived'[u] = arrived[u]
    BY <2>1, <2>2 DEF OldAnswers, NotPolled
  <2>3. CASE arrived[u] # <<>> /\ arrived'[u] = Tail(arrived[u])
    <3>1. Tail(arrived[u]) \in Seq(States(wants[u]))
      BY <2>1, <2>3, HeadTailProperties
    <3> QED
      BY <2>1, <2>3, <3>1 DEF OldAnswers, NotPolled
  <2> QED
    BY <2>2, <2>3 DEF NotPolled
<1>4. DataIsThere(u)'
  BY DEF DataIsThere, SlotInv, NotPolled
<1>5. NothingLate(u)'
  BY DEF NothingLate, SlotInv, NotPolled
<1>6. HandedInOrder(u)'
  BY DEF HandedInOrder, SlotInv, NotPolled
<1> QED
  BY <1>1, <1>2, <1>3, <1>4, <1>5, <1>6 DEF SlotInv, CreatedAnew, FetchesSome

----------------------------------------------------------------------------
(* How a request comes out. *)

OutcomeTyped(o) ==
  /\ o.arrived \in [SlotIds -> Seq(AnswerRec)] /\ o.overdue \in [SlotIds -> Seq(AnswerRec)]
  /\ o.wants \in [SlotIds -> Nat] /\ o.said \in [SlotIds -> Nat]
  /\ o.connected \subseteq SlotIds /\ o.lates \in Nat /\ o.got \in AnswerRec

OthersKept(s, o) ==
  \A u \in SlotIds \ {s} :
    /\ o.wants[u] = wants[u] /\ o.said[u] = said[u] /\ o.overdue[u] = overdue[u]
    /\ u \in o.connected <=> u \in connected
    /\ o.arrived[u] = arrived[u] \/ (arrived[u] # <<>> /\ o.arrived[u] = Tail(arrived[u]))

\* What the slot that asked got, of the answers that could be read for it.
OwnRead(s, o, q) ==
  \/ o.got = NoAnswer /\ o.arrived[s] = q
  \/ q # <<>> /\ o.got = Head(q) /\ o.arrived[s] = Tail(q)

\* And the other slots, of which one may have lost its first.
ReadFrom(s, o, queues) ==
  /\ o.arrived \in [SlotIds -> Seq(AnswerRec)] /\ o.got \in AnswerRec
  /\ OwnRead(s, o, queues[s])
  /\ \A u \in SlotIds \ {s} : o.arrived[u] = queues[u] \/ (queues[u] # <<>> /\ o.arrived[u] = Tail(queues[u]))
  /\ (\A u \in SlotIds \ {s} : queues[u] = <<>>) /\ queues[s] # <<>> => o.got = Head(queues[s])

\* The slot that asked, and the others.
LEMMA CameOwn ==
  ASSUME NEW s \in SlotIds, NEW o, NEW queues \in [SlotIds -> Seq(AnswerRec)], Came(s, o, queues)
  PROVE  ReadFrom(s, o, queues)
<1>0. NoAnswer \in AnswerRec
  BY DEF NoAnswer, AnswerRec
<1>1. CASE (\A t \in SlotIds : queues[t] = <<>>) /\ o.got = NoAnswer /\ o.arrived = queues
  BY <1>0, <1>1 DEF OwnRead, ReadFrom
<1>2. ASSUME NEW t \in SlotIds, queues[t] # <<>>, o.arrived = [queues EXCEPT ![t] = Tail(@)],
             o.got = IF t = s THEN Head(queues[t]) ELSE NoAnswer
      PROVE  ReadFrom(s, o, queues)
  <2>1. queues[t] \in Seq(AnswerRec)
    OBVIOUS
  <2>2. Head(queues[t]) \in AnswerRec /\ Tail(queues[t]) \in Seq(AnswerRec)
    BY <1>2, <2>1, HeadTailProperties
  <2>3. o.arrived \in [SlotIds -> Seq(AnswerRec)] /\ o.got \in AnswerRec
    BY <1>0, <1>2, <2>2
  <2>4. o.arrived[t] = Tail(queues[t]) /\ \A u \in SlotIds \ {t} : o.arrived[u] = queues[u]
    BY <1>2
  <2> QED
    BY <1>2, <2>3, <2>4 DEF OwnRead, ReadFrom
<1> QED
  BY <1>1, <1>2 DEF Came

\* How a request comes out for its own slot.
NotTaken(s, o) ==
  /\ OwnRead(s, o, arrived[s]) /\ o.overdue[s] = overdue[s] /\ o.wants[s] = wants[s] /\ o.said[s] = said[s]
  /\ s \in o.connected <=> s \in connected
  /\ o.lates = lates

TakenOwn(s, tag, o) ==
  /\ s \in o.connected /\ o.wants[s] = wants[s] - Data(s, tag) /\ o.said[s] = said[s] + Data(s, tag)
  /\ \/ /\ OwnRead(s, o, arrived[s] \o overdue[s] \o <<AnswerTo(s, tag)>>)
        /\ o.overdue[s] = <<>> /\ o.lates = lates
        /\ (\A u \in SlotIds \ {s} : arrived[u] = <<>>) =>
              o.got = Head(arrived[s] \o overdue[s] \o <<AnswerTo(s, tag)>>)
     \/ /\ OwnRead(s, o, arrived[s]) /\ o.lates = lates + 1
        /\ o.overdue[s] = Append(overdue[s], AnswerTo(s, tag))

\* A message can only be given if there is one.
LEMMA AnswerTyped ==
  ASSUME TransportTyped, NEW s \in SlotIds, NEW tag
  PROVE  AnswerTo(s, tag) \in AnswerRec /\ Data(s, tag) \in {0, 1} /\ wants[s] - Data(s, tag) \in Nat
<1>1. wants[s] \in Nat /\ said[s] \in Nat
  BY DEF TransportTyped
<1>2. CASE tag = "CREATE_TC"
  BY <1>1, <1>2 DEF AnswerTo, AnswerRec, Data
<1>3. CASE tag # "CREATE_TC" /\ tag = "RCV" /\ wants[s] > 0
  BY <1>1, <1>3 DEF AnswerTo, AnswerRec, Data
<1>4. CASE tag # "CREATE_TC" /\ ~(tag = "RCV" /\ wants[s] > 0)
  BY <1>1, <1>4 DEF AnswerTo, AnswerRec, Data
<1> QED
  BY <1>2, <1>3, <1>4

\* A request comes out so, whoever takes it.
LEMMA UntakenOwn ==
  ASSUME TransportTyped, NEW s \in SlotIds, NEW o, Came(s, o, arrived), Untaken(o)
  PROVE  OutcomeTyped(o) /\ OthersKept(s, o) /\ NotTaken(s, o)
<1>1. arrived \in [SlotIds -> Seq(AnswerRec)]
  BY DEF TransportTyped
<1>2. ReadFrom(s, o, arrived)
  BY <1>1, CameOwn
<1> QED
  BY <1>2 DEF ReadFrom, OutcomeTyped, OthersKept, NotTaken, Untaken, TransportTyped

LEMMA AskedOwn ==
  ASSUME TransportTyped, NEW s \in SlotIds, NEW tag, NEW o \in Outcomes(s, Asked(s, tag))
  PROVE  /\ OutcomeTyped(o) /\ OthersKept(s, o)
         /\ o.lates = 0 => lates = 0
         /\ \/ ~Answers(s, tag) /\ NotTaken(s, o)
            \/ Answers(s, tag) /\ TakenOwn(s, tag, o)
<1>0. lates \in Nat
  BY DEF TransportTyped
<1>1. CASE ~Answers(s, tag) /\ Came(s, o, arrived) /\ Untaken(o)
  BY <1>1, UntakenOwn DEF NotTaken
<1>2. CASE Answers(s, tag) /\ Taken(s, tag, o)
  <2> DEFINE a == AnswerTo(s, tag)
             queues == [arrived EXCEPT ![s] = arrived[s] \o overdue[s] \o <<a>>]
  <2>1. a \in AnswerRec /\ Data(s, tag) \in {0, 1} /\ wants[s] - Data(s, tag) \in Nat
    BY AnswerTyped
  <2>2. arrived[s] \in Seq(AnswerRec) /\ overdue[s] \in Seq(AnswerRec) /\ arrived \in [SlotIds -> Seq(AnswerRec)]
    BY DEF TransportTyped
  <2>3. /\ o.wants \in [SlotIds -> Nat] /\ o.said \in [SlotIds -> Nat] /\ o.connected \subseteq SlotIds
        /\ s \in o.connected /\ o.wants[s] = wants[s] - Data(s, tag) /\ o.said[s] = said[s] + Data(s, tag)
    BY <1>2, <2>1 DEF Taken, TransportTyped
  <2>4. CASE InTime(s, tag, o)
    <3>1. <<a>> \in Seq(AnswerRec)
      BY <2>1
    <3>2. arrived[s] \o overdue[s] \o <<a>> \in Seq(AnswerRec) /\ arrived[s] \o overdue[s] \o <<a>> # <<>>
      BY <2>2, <3>1, ConcatProperties
    <3>3. queues \in [SlotIds -> Seq(AnswerRec)] /\ queues[s] = arrived[s] \o overdue[s] \o <<a>>
          /\ \A u \in SlotIds \ {s} : queues[u] = arrived[u]
      BY <2>2, <3>2
    <3>4. Came(s, o, queues) /\ o.overdue = [overdue EXCEPT ![s] = <<>>] /\ o.lates = lates
      BY <2>4 DEF InTime
    <3> HIDE DEF queues, a
    <3>5. ReadFrom(s, o, queues)
      BY <3>3, <3>4, CameOwn
    <3>6. o.overdue \in [SlotIds -> Seq(AnswerRec)] /\ o.overdue[s] = <<>>
          /\ \A u \in SlotIds \ {s} : o.overdue[u] = overdue[u]
      <4>1. <<>> \in Seq(AnswerRec)
        BY EmptySeq
      <4> QED
        BY <3>4, <4>1 DEF TransportTyped
    <3>a. OutcomeTyped(o)
      BY <1>0, <2>3, <3>4, <3>5, <3>6 DEF OutcomeTyped, ReadFrom
    <3>7. OthersKept(s, o)
      <4> SUFFICES ASSUME NEW u \in SlotIds \ {s}
                   PROVE  /\ o.wants[u] = wants[u] /\ o.said[u] = said[u] /\ o.overdue[u] = overdue[u]
                          /\ u \in o.connected <=> u \in connected
                          /\ o.arrived[u] = arrived[u] \/ (arrived[u] # <<>> /\ o.arrived[u] = Tail(arrived[u]))
        BY DEF OthersKept
      <4>1. o.wants[u] = wants[u] /\ o.said[u] = said[u] /\ (u \in o.connected <=> u \in connected)
        BY <1>2 DEF Taken, TransportTyped
      <4>2. o.overdue[u] = overdue[u]
        BY <3>6
      <4>3. o.arrived[u] = arrived[u] \/ (arrived[u] # <<>> /\ o.arrived[u] = Tail(arrived[u]))
        BY <3>3, <3>5 DEF ReadFrom
      <4> QED
        BY <4>1, <4>2, <4>3
    <3>8. (\A u \in SlotIds \ {s} : arrived[u] = <<>>) => o.got = Head(arrived[s] \o overdue[s] \o <<a>>)
      BY <3>2, <3>3, <3>5 DEF ReadFrom
    <3>9. TakenOwn(s, tag, o)
      BY <2>3, <3>3, <3>4, <3>5, <3>6, <3>8 DEF TakenOwn, ReadFrom, a
    <3> QED
      BY <1>2, <3>4, <3>7, <3>9, <3>a
  <2>5. CASE TooLate(s, tag, o)
    <3>1. Came(s, o, arrived) /\ o.overdue = [overdue EXCEPT ![s] = Append(overdue[s], a)] /\ o.lates = lates + 1
      BY <2>5 DEF TooLate
    <3>2. Append(overdue[s], a) \in Seq(AnswerRec)
      BY <2>1, <2>2, AppendProperties
    <3>3. o.overdue \in [SlotIds -> Seq(AnswerRec)] /\ o.overdue[s] = Append(overdue[s], a)
          /\ \A u \in SlotIds \ {s} : o.overdue[u] = overdue[u]
      BY <3>1, <3>2 DEF TransportTyped
    <3>4. ReadFrom(s, o, arrived)
      BY <2>2, <3>1, CameOwn
    <3>a. OutcomeTyped(o)
      BY <1>0, <2>3, <3>1, <3>3, <3>4 DEF OutcomeTyped, ReadFrom
    <3>5. OthersKept(s, o)
      <4> SUFFICES ASSUME NEW u \in SlotIds \ {s}
                   PROVE  /\ o.wants[u] = wants[u] /\ o.said[u] = said[u] /\ o.overdue[u] = overdue[u]
                          /\ u \in o.connected <=> u \in connected
                          /\ o.arrived[u] = arrived[u] \/ (arrived[u] # <<>> /\ o.arrived[u] = Tail(arrived[u]))
        BY DEF OthersKept
      <4>1. o.wants[u] = wants[u] /\ o.said[u] = said[u] /\ (u \in o.connected <=> u \in connected)
        BY <1>2 DEF Taken, TransportTyped
      <4>2. o.overdue[u] = overdue[u]
        BY <3>3
      <4>3. o.arrived[u] = arrived[u] \/ (arrived[u] # <<>> /\ o.arrived[u] = Tail(arrived[u]))
        BY <3>3, <3>4 DEF ReadFrom
      <4> QED
        BY <4>1, <4>2, <4>3
    <3>6. TakenOwn(s, tag, o)
      BY <2>3, <3>1, <3>3, <3>4 DEF TakenOwn, ReadFrom
    <3>7. o.lates # 0
      BY <1>0, <3>1
    <3> QED
      BY <1>2, <3>5, <3>6, <3>7, <3>a
  <2> QED
    BY <2>4, <2>5, <1>2, OutcomeAsked DEF Answers
<1> QED
  BY <1>1, <1>2, OutcomeAsked

----------------------------------------------------------------------------
(* Answers in a queue. *)

LEMMA OneOnly ==
  ASSUME NEW a
  PROVE  Head(<<a>>) = a /\ Tail(<<a>>) = <<>> /\ <<a>> # <<>>
  OBVIOUS

LEMMA HeadStays ==
  ASSUME NEW S, NEW q \in Seq(S), q # <<>>, NEW a \in S
  PROVE  Head(q \o <<a>>) = Head(q)
<1>1. <<a>> \in Seq(S) /\ Len(q) \in Nat /\ Len(q) > 0 /\ Len(<<a>>) = 1
  BY EmptySeq
<1>2. q \o <<a>> \in Seq(S) /\ Len(q \o <<a>>) = Len(q) + 1 /\ (q \o <<a>>)[1] = q[1]
  BY <1>1, ConcatProperties
<1>3. Head(q) = q[1] /\ Head(q \o <<a>>) = (q \o <<a>>)[1]
  OBVIOUS
<1> QED
  BY <1>2, <1>3

\* Answers that tell the state are no data and no reply.
LEMMA StateAnswer ==
  ASSUME NEW n \in Nat
  PROVE  [tag |-> "SB", data |-> 0, more |-> n > 0] \in States(n)
<1>1. CASE n > 0
  <2>1. (n > 0) = TRUE
    BY <1>1
  <2> QED
    BY <1>1, <2>1 DEF States
<1>2. CASE ~(n > 0)
  <2>1. (n > 0) = FALSE
    BY <1>2
  <2> QED
    BY <1>2, <2>1 DEF States
<1> QED
  BY <1>1, <1>2

LEMMA StatesAreAnswers ==
  ASSUME NEW n \in Nat, NEW a \in States(n)
  PROVE  a \in AnswerRec /\ a.tag = "SB" /\ a # NoAnswer /\ (a.more => n > 0)
  BY DEF States, AnswerRec, NoAnswer

\* What a request that is no CREATE_TC and asks for no data comes to.
AskedWell(s, o) ==
  /\ OutcomeTyped(o) /\ OthersKept(s, o)
  /\ o.lates = 0 => lates = 0
  /\ o.wants[s] = wants[s] /\ o.said[s] = said[s]
  /\ s \in o.connected <=> s \in connected
  /\ o.arrived[s] \in Seq(States(wants[s])) /\ o.overdue[s] \in Seq(States(wants[s]))
  /\ o.got = NoAnswer \/ (s \in connected /\ o.got \in States(wants[s]))
  /\ s \notin connected => o.arrived[s] = <<>> /\ o.overdue[s] = <<>>
  /\ o.lates = 0 => /\ o.arrived[s] = <<>> /\ o.overdue[s] = <<>>
                    /\ s \in connected => o.got # NoAnswer

\* What is read of states is one, or nothing.
LEMMA ReadOfStates ==
  ASSUME NEW s, NEW o, NEW n \in Nat, NEW q \in Seq(States(n)), OwnRead(s, o, q)
  PROVE  /\ o.arrived[s] \in Seq(States(n))
         /\ o.got = NoAnswer \/ (q # <<>> /\ o.got \in States(n))
<1>1. q # <<>> => Head(q) \in States(n) /\ Tail(q) \in Seq(States(n))
  BY HeadTailProperties
<1> QED
  BY <1>1 DEF OwnRead

LEMMA AskOutcome ==
  ASSUME TransportTyped, \A u \in SlotIds : SlotInv(u),
         NEW s \in SlotIds, ~Creating(s), NEW o \in Outcomes(s, Asked(s, "DATA_LAST"))
  PROVE  AskedWell(s, o)
<1> DEFINE a == AnswerTo(s, "DATA_LAST")
           n == wants[s]
<1>0. wants[s] \in Nat /\ said[s] \in Nat /\ lates \in Nat
  BY DEF TransportTyped
<1>1. arrived[s] \in Seq(States(n)) /\ overdue[s] \in Seq(States(n))
  BY DEF SlotInv, OldAnswers
<1>2. OutcomeTyped(o) /\ OthersKept(s, o) /\ (o.lates = 0 => lates = 0)
  BY AskedOwn
<1>3. Answers(s, "DATA_LAST") <=> s \in connected
  BY DEF Answers
<1>4. a = [tag |-> "SB", data |-> 0, more |-> wants[s] > 0]
  BY DEF AnswerTo
<1>5. a \in States(n) /\ Data(s, "DATA_LAST") = 0
  BY <1>0, <1>4, StateAnswer DEF Data
<1>6. CASE ~Answers(s, "DATA_LAST") /\ NotTaken(s, o)
  <2>1. s \notin connected /\ arrived[s] = <<>> /\ overdue[s] = <<>>
    BY <1>3, <1>6 DEF SlotInv, GoneIsEmpty
  <2>2. o.got = NoAnswer /\ o.arrived[s] = <<>>
    BY <1>6, <2>1 DEF NotTaken, OwnRead
  <2>3. <<>> \in Seq(States(n))
    BY EmptySeq
  <2> QED
    BY <1>2, <1>6, <2>1, <2>2, <2>3 DEF AskedWell, NotTaken
<1>7. CASE Answers(s, "DATA_LAST") /\ TakenOwn(s, "DATA_LAST", o)
  <2> HIDE DEF a, n
  <2>1. s \in connected /\ s \in o.connected /\ o.wants[s] = wants[s] /\ o.said[s] = said[s]
    BY <1>0, <1>3, <1>5, <1>7 DEF TakenOwn
  <2>2. CASE /\ OwnRead(s, o, arrived[s] \o overdue[s] \o <<a>>)
             /\ o.overdue[s] = <<>> /\ o.lates = lates
             /\ (\A u \in SlotIds \ {s} : arrived[u] = <<>>) => o.got = Head(arrived[s] \o overdue[s] \o <<a>>)
    <3>1. <<a>> \in Seq(States(n))
      BY <1>5
    <3>2. arrived[s] \o overdue[s] \o <<a>> \in Seq(States(n)) /\ <<>> \in Seq(States(n))
      BY <1>1, <3>1, ConcatProperties, EmptySeq
    <3>3. o.arrived[s] \in Seq(States(n)) /\ (o.got = NoAnswer \/ o.got \in States(n))
      BY <1>0, <2>2, <3>2, ReadOfStates DEF n
    <3>4. ASSUME lates = 0 PROVE o.arrived[s] = <<>> /\ o.got # NoAnswer
      <4>1. \A u \in SlotIds : arrived[u] = <<>> /\ overdue[u] = <<>>
        BY <3>4 DEF SlotInv, NothingLate
      <4>2. arrived[s] \o overdue[s] \o <<a>> = <<a>>
        BY <3>1, <4>1, ConcatEmptySeq, EmptySeq
      <4>3. o.got = a
        BY <2>2, <4>1, <4>2, OneOnly
      <4>4. a # NoAnswer
        BY <1>4 DEF NoAnswer
      <4> QED
        BY <2>2, <4>2, <4>3, <4>4, OneOnly DEF OwnRead
    <3> QED
      BY <1>2, <2>1, <2>2, <3>2, <3>3, <3>4 DEF AskedWell, n
  <2>3. CASE /\ OwnRead(s, o, arrived[s]) /\ o.lates = lates + 1
             /\ o.overdue[s] = Append(overdue[s], a)
    <3>1. o.overdue[s] \in Seq(States(n))
      BY <1>1, <1>5, <2>3, AppendProperties
    <3>2. o.arrived[s] \in Seq(States(n)) /\ (o.got = NoAnswer \/ o.got \in States(n))
      BY <1>0, <1>1, <2>3, ReadOfStates DEF n
    <3>3. o.lates # 0
      BY <1>0, <2>3
    <3> QED
      BY <1>2, <2>1, <3>1, <3>2, <3>3 DEF AskedWell, n
  <2> QED
    BY <1>7, <2>2, <2>3 DEF TakenOwn, a
<1> QED
  BY <1>6, <1>7, AskedOwn

\* What a request for data comes to: the module's next message, or a reset.
FetchedWell(s, o) ==
  /\ OutcomeTyped(o) /\ OthersKept(s, o)
  /\ o.lates = 0 => lates = 0
  /\ \/ o.got.tag \in {"none", "SB"} /\ (o.lates = 0 => s \notin o.connected)
     \/ /\ s \in connected /\ s \in o.connected /\ wants[s] > 0
        /\ o.got = [tag |-> "DATA_LAST", data |-> said[s] + 1, more |-> wants[s] > 1]
        /\ o.wants[s] = wants[s] - 1 /\ o.said[s] = said[s] + 1
        /\ o.arrived[s] = <<>> /\ o.overdue[s] = <<>>

LEMMA FetchOutcome ==
  ASSUME TransportTyped, \A u \in SlotIds : SlotInv(u),
         NEW s \in SlotIds, poll = Step(s, "fetch"), NEW o \in Outcomes(s, Asked(s, "RCV"))
  PROVE  FetchedWell(s, o)
<1> DEFINE a == AnswerTo(s, "RCV")
           n == wants[s]
<1>0. wants[s] \in Nat /\ said[s] \in Nat /\ lates \in Nat
  BY DEF TransportTyped
<1>p. ~Creating(s) /\ poll.slot = s /\ poll.step = "fetch"
  BY DEF Creating, Step
<1>1. arrived[s] \in Seq(States(n)) /\ overdue[s] \in Seq(States(n))
  BY <1>p DEF SlotInv, OldAnswers
<1>2. OutcomeTyped(o) /\ OthersKept(s, o) /\ (o.lates = 0 => lates = 0)
  BY AskedOwn
<1>3. Answers(s, "RCV") <=> s \in connected
  BY DEF Answers
<1>6. CASE ~Answers(s, "RCV") /\ NotTaken(s, o)
  <2>1. s \notin connected /\ arrived[s] = <<>>
    BY <1>3, <1>6 DEF SlotInv, GoneIsEmpty
  <2>2. o.got = NoAnswer /\ s \notin o.connected
    BY <1>6, <2>1 DEF NotTaken, OwnRead
  <2> QED
    BY <1>2, <2>2 DEF FetchedWell, NoAnswer
<1>7. CASE Answers(s, "RCV") /\ TakenOwn(s, "RCV", o)
  <2>0. s \in connected /\ wants[s] > 0
    BY <1>3, <1>7, <1>p DEF SlotInv, FetchesSome
  <2>a. a = [tag |-> "DATA_LAST", data |-> said[s] + 1, more |-> wants[s] > 1]
    BY <2>0 DEF AnswerTo
  <2>b. Data(s, "RCV") = 1 /\ a # NoAnswer
    BY <2>a DEF Data, NoAnswer
  <2> HIDE DEF a, n
  <2>1. s \in o.connected /\ o.wants[s] = wants[s] - 1 /\ o.said[s] = said[s] + 1
    BY <1>7, <2>b DEF TakenOwn
  <2>2. CASE /\ OwnRead(s, o, arrived[s] \o overdue[s] \o <<a>>)
             /\ o.overdue[s] = <<>> /\ o.lates = lates
             /\ (\A u \in SlotIds \ {s} : arrived[u] = <<>>) => o.got = Head(arrived[s] \o overdue[s] \o <<a>>)
    <3>1. CASE arrived[s] = <<>> /\ overdue[s] = <<>>
      <4>2. arrived[s] \o overdue[s] \o <<a>> = <<a>>
        BY <3>1, ConcatEmptySeq, EmptySeq
      <4>3. CASE o.got = NoAnswer
        <5>1. o.lates # 0
          <6>1. SUFFICES ASSUME lates = 0 PROVE FALSE
            BY <2>2
          <6>2. \A u \in SlotIds : arrived[u] = <<>>
            BY <6>1 DEF SlotInv, NothingLate
          <6>3. o.got = a
            BY <2>2, <4>2, <6>2, OneOnly
          <6> QED
            BY <2>b, <4>3, <6>3
        <5> QED
          BY <1>2, <4>3, <5>1 DEF FetchedWell, NoAnswer
      <4>4. CASE o.got # NoAnswer
        <5>1. o.got = a /\ o.arrived[s] = <<>>
          BY <2>2, <4>2, <4>4, OneOnly DEF OwnRead
        <5> QED
          BY <1>2, <2>0, <2>1, <2>2, <2>a, <5>1 DEF FetchedWell
      <4> QED
        BY <4>3, <4>4
    <3>2. CASE ~(arrived[s] = <<>> /\ overdue[s] = <<>>)
      <4>1. o.lates # 0
        BY <2>2, <3>2 DEF SlotInv, NothingLate
      <4>2. arrived[s] \o overdue[s] \in Seq(States(n)) /\ arrived[s] \o overdue[s] # <<>>
        BY <1>1, <3>2, ConcatProperties
      <4>3. Head(arrived[s] \o overdue[s] \o <<a>>) = Head(arrived[s] \o overdue[s])
        <5> DEFINE q == arrived[s] \o overdue[s]
                   S == States(n) \cup {a}
        <5>1. q \in Seq(S) /\ q # <<>> /\ a \in S
          BY <4>2
        <5> HIDE DEF q, S
        <5>2. Head(q \o <<a>>) = Head(q)
          BY <5>1, HeadStays
        <5> QED
          BY <5>2 DEF q
      <4>4. Head(arrived[s] \o overdue[s]) \in States(n)
        BY <4>2, HeadTailProperties
      <4>5. o.got = NoAnswer \/ o.got \in States(n)
        BY <2>2, <4>3, <4>4 DEF OwnRead
      <4>6. o.got.tag \in {"none", "SB"}
        BY <1>0, <4>5, StatesAreAnswers DEF NoAnswer, n
      <4> QED
        BY <1>2, <4>1, <4>6 DEF FetchedWell
    <3> QED
      BY <3>1, <3>2
  <2>3. CASE /\ OwnRead(s, o, arrived[s]) /\ o.lates = lates + 1
             /\ o.overdue[s] = Append(overdue[s], a)
    <3>1. o.got = NoAnswer \/ o.got \in States(n)
      BY <1>0, <1>1, <2>3, ReadOfStates DEF n
    <3>2. o.got.tag \in {"none", "SB"}
      BY <1>0, <3>1, StatesAreAnswers DEF NoAnswer, n
    <3>3. o.lates # 0
      BY <1>0, <2>3
    <3> QED
      BY <1>2, <3>2, <3>3 DEF FetchedWell
  <2> QED
    BY <1>7, <2>2, <2>3 DEF TakenOwn, a
<1> QED
  BY <1>6, <1>7, AskedOwn

\* What the request that opens the connection comes to, or the wait for its reply.
CreatedWell(s, o) ==
  /\ OutcomeTyped(o) /\ OthersKept(s, o)
  /\ o.lates = 0 => lates = 0
  /\ o.wants[s] = wants[s] /\ o.said[s] = said[s]
  /\ s \in o.connected => s \in plugged
  /\ s \in connected => s \in o.connected
  /\ \/ o.got = ReplyRec /\ s \in o.connected /\ o.arrived[s] = <<>> /\ o.overdue[s] = <<>>
     \/ /\ o.got = NoAnswer /\ OneReply(o.arrived[s], o.overdue[s])
        /\ s \notin o.connected => o.arrived[s] = <<>> /\ o.overdue[s] = <<>>
        /\ o.lates = 0 => o.arrived[s] = <<>> /\ o.overdue[s] = <<>> /\ s \notin o.connected

LEMMA CreateOutcome ==
  ASSUME TransportTyped, \A u \in SlotIds : SlotInv(u), NEW s \in SlotIds, Creating(s),
         NEW o \in Outcomes(s, IF poll.tries = 0 THEN Asked(s, "CREATE_TC") ELSE {Unasked})
  PROVE  CreatedWell(s, o)
<1>0. wants[s] \in Nat /\ said[s] \in Nat /\ lates \in Nat
  BY DEF TransportTyped
<1>1. OneReply(arrived[s], overdue[s])
  BY DEF SlotInv, OldAnswers
<1>r. ReplyRec # NoAnswer
  BY DEF ReplyRec, NoAnswer
<1>2. CASE poll.tries = 0
  <2>0. o \in Outcomes(s, Asked(s, "CREATE_TC"))
    BY <1>2
  <2>1. s \notin connected /\ arrived[s] = <<>> /\ overdue[s] = <<>>
    BY <1>2 DEF SlotInv, LinkedIsOpen, CreatedAnew, GoneIsEmpty
  <2>2. AnswerTo(s, "CREATE_TC") = ReplyRec /\ Data(s, "CREATE_TC") = 0
    BY DEF AnswerTo, Data, ReplyRec
  <2>3. Answers(s, "CREATE_TC") <=> s \in plugged
    BY <2>1 DEF Answers
  <2>4. OutcomeTyped(o) /\ OthersKept(s, o) /\ (o.lates = 0 => lates = 0)
    BY <2>0, AskedOwn
  <2>5. CASE ~Answers(s, "CREATE_TC") /\ NotTaken(s, o)
    BY <2>1, <2>4, <2>5 DEF CreatedWell, NotTaken, OwnRead, OneReply
  <2>6. CASE Answers(s, "CREATE_TC") /\ TakenOwn(s, "CREATE_TC", o)
    <3>1. s \in plugged /\ s \in o.connected /\ o.wants[s] = wants[s] /\ o.said[s] = said[s]
      BY <1>0, <2>2, <2>3, <2>6 DEF TakenOwn
    <3>2. arrived[s] \o overdue[s] \o <<ReplyRec>> = <<ReplyRec>>
      BY <2>1, ConcatEmptySeq, EmptySeq
    <3>3. CASE /\ OwnRead(s, o, <<ReplyRec>>) /\ o.overdue[s] = <<>> /\ o.lates = lates
               /\ (\A u \in SlotIds \ {s} : arrived[u] = <<>>) => o.got = ReplyRec
      <4>1. \/ o.got = NoAnswer /\ o.arrived[s] = <<ReplyRec>>
            \/ o.got = ReplyRec /\ o.arrived[s] = <<>>
        BY <3>3 DEF OwnRead
      <4>2. lates = 0 => o.got = ReplyRec
        BY <3>3 DEF SlotInv, NothingLate
      <4> QED
        BY <1>r, <2>4, <3>1, <3>3, <4>1, <4>2 DEF CreatedWell, OneReply
    <3>4. CASE /\ OwnRead(s, o, <<>>) /\ o.lates = lates + 1 /\ o.overdue[s] = Append(<<>>, ReplyRec)
      <4>1. o.got = NoAnswer /\ o.arrived[s] = <<>>
        BY <3>4 DEF OwnRead
      <4>2. o.overdue[s] = <<ReplyRec>> /\ o.lates # 0
        BY <1>0, <3>4
      <4> QED
        BY <2>4, <3>1, <4>1, <4>2 DEF CreatedWell, OneReply
    <3> QED
      BY <2>1, <2>2, <2>6, <3>2, <3>3, <3>4 DEF TakenOwn
  <2> QED
    BY <2>0, <2>5, <2>6, AskedOwn
<1>3. CASE poll.tries # 0
  <2>0. o \in Outcomes(s, {Unasked})
    BY <1>3
  <2>1. OutcomeTyped(o) /\ OthersKept(s, o) /\ NotTaken(s, o)
    BY <2>0, OutcomeUnasked, UntakenOwn
  <2>p. poll.tries > 0
    <3>1. poll # AtRest
      BY DEF Creating, AtRest
    <3> QED
      BY <1>3, <3>1 DEF TransportTyped, Steps
  <2>2. s \in connected => s \in plugged
    BY DEF SlotInv, LinkedIsOpen
  <2>3. s \notin connected => arrived[s] = <<>> /\ overdue[s] = <<>>
    BY DEF SlotInv, GoneIsEmpty
  <2>4. lates = 0 => arrived[s] = <<>> /\ overdue[s] = <<>> /\ s \notin connected
    BY <2>p DEF SlotInv, NothingLate
  <2>5. \/ o.got = NoAnswer /\ o.arrived[s] = arrived[s]
        \/ o.got = ReplyRec /\ o.arrived[s] = <<>> /\ overdue[s] = <<>> /\ arrived[s] # <<>>
    BY <1>1, <2>1, OneOnly DEF NotTaken, OwnRead, OneReply
  <2> QED
    BY <1>1, <2>1, <2>2, <2>3, <2>4, <2>5 DEF CreatedWell, NotTaken
<1> QED
  BY <1>2, <1>3

----------------------------------------------------------------------------
(* The steps of the poll. *)

LEMMA SlotsAre == Slots \in Nat /\ Slots > 0 /\ Retries \in Nat /\ 0 \notin SlotIds
  BY TransportAssumption DEF SlotIds

LEMMA StepsTyped ==
  ASSUME NEW s \in SlotIds, NEW step \in {"look", "create", "ask", "fetch", "handle"}
  PROVE  Step(s, step) \in Steps /\ (NextSlot(s) = AtRest \/ NextSlot(s) \in Steps)
<1>1. Step(s, step) \in Steps
  BY DEF Step, Steps
<1>2. CASE s = Slots
  BY <1>1, <1>2 DEF NextSlot
<1>3. CASE s # Slots
  <2>1. s + 1 \in SlotIds
    BY <1>3, SlotsAre DEF SlotIds
  <2> QED
    BY <1>1, <1>3, <2>1 DEF NextSlot, Step, Steps
<1> QED
  BY <1>2, <1>3

LEMMA NextLooks ==
  ASSUME NEW s, NEW u
  PROVE  NextSlot(s).step \in {"look", "idle"}
  BY DEF NextSlot, Step, AtRest

\* A step of the poll at one slot keeps the others.
LEMMA OthersInv ==
  ASSUME TransportTyped, \A u \in SlotIds : SlotInv(u), NEW s \in SlotIds,
         poll.slot = s \/ poll = AtRest,
         poll'.slot = s \/ poll' = NextSlot(s) \/ poll' = AtRest,
         \A u \in SlotIds \ {s} : NotPolled(u)
  PROVE  \A u \in SlotIds \ {s} : SlotInv(u)'
<1> SUFFICES ASSUME NEW u \in SlotIds \ {s} PROVE SlotInv(u)'
  OBVIOUS
<1>1. ~Creating(u)
  BY DEF Creating, AtRest
<1>2. ~Creating(u)' /\ ~(poll'.slot = u /\ poll'.step = "fetch")
  BY NextLooks DEF Creating, AtRest
<1> QED
  BY <1>1, <1>2, KeptSlot

\* Also when what it received was another's.
LEMMA ReceivedKeepsOthers ==
  ASSUME TransportTyped, NEW s \in SlotIds, NEW o, OthersKept(s, o), o.lates = 0 => lates = 0,
         TPDURecv(s, o), plugged' = plugged, open' = open \/ open' = open \cup {s},
         \A u \in SlotIds \ {s} : handed'[u] = handed[u]
  PROVE  \A u \in SlotIds \ {s} : NotPolled(u)
<1> SUFFICES ASSUME NEW u \in SlotIds \ {s} PROVE NotPolled(u)
  OBVIOUS
<1>1. /\ o.wants[u] = wants[u] /\ o.said[u] = said[u] /\ o.overdue[u] = overdue[u]
      /\ u \in o.connected <=> u \in connected
      /\ o.arrived[u] = arrived[u] \/ (arrived[u] # <<>> /\ o.arrived[u] = Tail(arrived[u]))
  BY DEF OthersKept
<1>2. u \in hasData' <=> u \in hasData
  BY DEF TPDURecv
<1>3. u \in open' <=> u \in open
  OBVIOUS
<1>4. /\ arrived' = o.arrived /\ overdue' = o.overdue /\ wants' = o.wants /\ said' = o.said
      /\ connected' = o.connected /\ lates' = o.lates
  BY DEF TPDURecv
<1> QED
  BY <1>1, <1>2, <1>3, <1>4 DEF NotPolled

LEMMA ReceivedTyped ==
  ASSUME TransportTyped, NEW s \in SlotIds, NEW o, OutcomeTyped(o), TPDURecv(s, o),
         plugged' = plugged, open' = open \/ open' = open \cup {s},
         handed' \in [SlotIds -> Seq(Nat)], poll' = AtRest \/ poll' \in Steps
  PROVE  TransportTyped'
<1>1. hasData' \subseteq SlotIds
  BY DEF TPDURecv, TransportTyped
<1> QED
  BY <1>1 DEF TPDURecv, TransportTyped, OutcomeTyped

LEMMA NoneHanded == <<>> = [i \in 1..0 |-> i]
  OBVIOUS

\* A reset is just when an answer was late, and leaves nothing.
LEMMA ResetKeepsIInv ==
  ASSUME TransportTyped, \A u \in SlotIds : SlotInv(u), ~unjust, NEW s \in SlotIds,
         poll.slot = s, NEW o, OutcomeTyped(o), OthersKept(s, o), o.lates = 0 => lates = 0,
         o.lates = 0 => s \notin o.connected, ResetTransport(s, o), plugged' = plugged
  PROVE  TransportIInv'
<1>0. <<>> \in Seq(AnswerRec) /\ <<>> \in Seq(Nat) /\ <<>> \in Seq(States(0))
  BY EmptySeq
<1>1. TransportTyped'
  <2>1. poll' = AtRest \/ poll' \in Steps
    BY StepsTyped DEF ResetTransport
  <2> QED
    BY <1>0, <2>1 DEF ResetTransport, TransportTyped, OutcomeTyped
<1>2. ~unjust'
  BY DEF ResetTransport
<1>3. \A u \in SlotIds \ {s} : NotPolled(u)
  <2> SUFFICES ASSUME NEW u \in SlotIds \ {s} PROVE NotPolled(u)
    OBVIOUS
  <2>1. /\ o.wants[u] = wants[u] /\ o.said[u] = said[u] /\ o.overdue[u] = overdue[u]
        /\ u \in o.connected <=> u \in connected
        /\ o.arrived[u] = arrived[u] \/ (arrived[u] # <<>> /\ o.arrived[u] = Tail(arrived[u]))
    BY DEF OthersKept
  <2>2. /\ arrived'[u] = o.arrived[u] /\ overdue'[u] = o.overdue[u] /\ wants'[u] = o.wants[u]
        /\ said'[u] = o.said[u] /\ handed'[u] = handed[u]
    BY DEF ResetTransport, OutcomeTyped, TransportTyped
  <2>3. /\ u \in connected' <=> u \in o.connected
        /\ u \in open' <=> u \in open
        /\ u \in hasData' <=> u \in hasData
        /\ lates' = o.lates
    BY DEF ResetTransport
  <2> QED
    BY <2>1, <2>2, <2>3 DEF NotPolled
<1>4. poll' = NextSlot(s)
  BY DEF ResetTransport
<1>5. \A u \in SlotIds \ {s} : SlotInv(u)'
  BY <1>3, <1>4, OthersInv
<1>6. SlotInv(s)'
  <2>1. /\ arrived'[s] = <<>> /\ overdue'[s] = <<>> /\ wants'[s] = 0 /\ said'[s] = 0 /\ handed'[s] = <<>>
        /\ s \notin connected'
    BY DEF ResetTransport, OutcomeTyped, TransportTyped
  <2>2. ~Creating(s)'
    BY <1>4, NextLooks DEF Creating
  <2>3. OldAnswers(s)'
    BY <1>0, <2>1, <2>2 DEF OldAnswers
  <2>4. HandedInOrder(s)'
    BY <2>1, NoneHanded DEF HandedInOrder
  <2> QED
    BY <2>1, <2>2, <2>3, <2>4
       DEF SlotInv, GoneIsEmpty, LinkedIsOpen, CreatedAnew, DataIsThere, FetchesSome, NothingLate
<1> QED
  BY <1>1, <1>2, <1>5, <1>6 DEF TransportIInv

----------------------------------------------------------------------------
(* Action by action. *)

LEMMA LookInv ==
  ASSUME TransportIInv, NEW s \in SlotIds, Look(s)
  PROVE  TransportIInv'
<1>0. TransportTyped /\ ~unjust /\ \A u \in SlotIds : SlotInv(u)
  BY DEF TransportIInv
<1>p. poll = Step(s, "look") /\ poll.slot = s /\ poll.step = "look"
  BY DEF Look, Step
<1>c. ~Creating(s)
  BY <1>p DEF Creating
<1>u. UNCHANGED <<plugged, connected, hasData, arrived, overdue, wants, said, handed, lates, swaps, unjust>>
  BY DEF Look
<1>1. TransportTyped'
  <2>1. poll' = AtRest \/ poll' \in Steps
    BY StepsTyped DEF Look
  <2>2. open' \subseteq SlotIds
    BY <1>0 DEF Look, TransportTyped
  <2> QED
    BY <1>0, <1>u, <2>1, <2>2 DEF TransportTyped
<1>2. \A u \in SlotIds \ {s} : SlotInv(u)'
  <2>1. \A u \in SlotIds \ {s} : NotPolled(u)
    BY <1>u DEF NotPolled, Look
  <2>2. poll'.slot = s \/ poll' = NextSlot(s)
    BY DEF Look, Step
  <2> QED
    BY <1>0, <1>p, <2>1, <2>2, OthersInv
<1>3. SlotInv(s)'
  <2>0. /\ GoneIsEmpty(s) /\ LinkedIsOpen(s) /\ DataIsThere(s) /\ NothingLate(s) /\ HandedInOrder(s)
        /\ arrived[s] \in Seq(States(wants[s])) /\ overdue[s] \in Seq(States(wants[s]))
    BY <1>0, <1>c DEF SlotInv, OldAnswers
  <2>1. GoneIsEmpty(s)' /\ HandedInOrder(s)'
    BY <1>u, <2>0 DEF GoneIsEmpty, HandedInOrder
  <2>2. CASE s \notin plugged
    <3>1. s \notin connected /\ poll' = NextSlot(s)
      BY <1>c, <2>0, <2>2 DEF LinkedIsOpen, Look
    <3>2. ~Creating(s)'
      BY <3>1, NextLooks DEF Creating
    <3> QED
      BY <1>u, <2>0, <2>1, <3>1, <3>2
         DEF SlotInv, LinkedIsOpen, CreatedAnew, OldAnswers, DataIsThere, FetchesSome, NothingLate
  <2>3. CASE s \in plugged /\ s \notin open
    <3>1. s \notin connected /\ open' = open
      BY <1>c, <2>0, <2>3 DEF LinkedIsOpen, Look
    <3>2. poll' = Step(s, "create") /\ poll'.slot = s /\ poll'.step = "create" /\ poll'.tries = 0
      BY <2>3 DEF Look, Step
    <3>3. arrived[s] = <<>> /\ overdue[s] = <<>>
      BY <2>0, <3>1 DEF GoneIsEmpty
    <3> QED
      BY <1>u, <2>0, <2>1, <2>3, <3>1, <3>2, <3>3
         DEF SlotInv, LinkedIsOpen, CreatedAnew, OldAnswers, OneReply, DataIsThere, FetchesSome, NothingLate, Creating
  <2>4. CASE s \in plugged /\ s \in open
    <3>1. open' = open /\ poll'.slot = s /\ poll'.step = IF s \in hasData THEN "fetch" ELSE "ask"
      BY <2>4 DEF Look, Step
    <3>2. ~Creating(s)'
      BY <3>1 DEF Creating
    <3>3. FetchesSome(s)'
      BY <1>u, <2>0, <2>4, <3>1 DEF FetchesSome, DataIsThere
    <3> QED
      BY <1>u, <2>0, <2>1, <2>4, <3>1, <3>2, <3>3
         DEF SlotInv, LinkedIsOpen, CreatedAnew, OldAnswers, DataIsThere, NothingLate
  <2> QED
    BY <2>2, <2>3, <2>4
<1> QED
  BY <1>0, <1>1, <1>2, <1>3, <1>u DEF TransportIInv

LEMMA CreateInv ==
  ASSUME TransportIInv, NEW s \in SlotIds, CreateTC(s)
  PROVE  TransportIInv'
<1>0. TransportTyped /\ ~unjust /\ \A u \in SlotIds : SlotInv(u)
  BY DEF TransportIInv
<1>p. poll.slot = s /\ poll.step = "create" /\ Creating(s) /\ plugged' = plugged
  BY DEF CreateTC, Creating
<1>t. poll.tries \in Nat /\ poll \in Steps
  <2>1. poll # AtRest
    BY <1>p DEF AtRest
  <2> QED
    BY <1>0, <2>1 DEF TransportTyped, Steps
<1>o. PICK o \in Outcomes(s, IF poll.tries = 0 THEN Asked(s, "CREATE_TC") ELSE {Unasked}) :
        IF o.got.tag = "CTC_REPLY"
        THEN /\ TPDURecv(s, o) /\ open' = open \cup {s}
             /\ poll' = Step(s, IF o.got.more THEN "fetch" ELSE "ask")
             /\ UNCHANGED <<handed, unjust>>
        ELSE IF poll.tries + 1 = Retries THEN ResetTransport(s, o)
        ELSE TPDURecv(s, o) /\ poll' = [poll EXCEPT !.tries = @ + 1] /\ UNCHANGED <<open, handed, unjust>>
  BY DEF CreateTC
<1>w. CreatedWell(s, o)
  BY <1>0, <1>p, CreateOutcome
<1>a. OutcomeTyped(o) /\ OthersKept(s, o) /\ (o.lates = 0 => lates = 0)
  BY <1>w DEF CreatedWell
<1>s. /\ GoneIsEmpty(s) /\ s \notin open /\ HandedInOrder(s)
  BY <1>0, <1>p DEF SlotInv, CreatedAnew
<1>h. handed \in [SlotIds -> Seq(Nat)]
  BY <1>0 DEF TransportTyped
<1>n. NoAnswer.tag = "none" /\ ReplyRec.tag = "CTC_REPLY" /\ ReplyRec.more = FALSE
  BY DEF NoAnswer, ReplyRec
<1>1. CASE o.got.tag = "CTC_REPLY"
  <2>1. /\ TPDURecv(s, o) /\ open' = open \cup {s} /\ UNCHANGED <<handed, unjust>>
        /\ poll' = Step(s, IF o.got.more THEN "fetch" ELSE "ask")
    BY <1>1, <1>o
  <2>2. o.got = ReplyRec /\ s \in o.connected /\ o.arrived[s] = <<>> /\ o.overdue[s] = <<>>
        /\ s \in plugged /\ o.wants[s] = wants[s] /\ o.said[s] = said[s]
    BY <1>1, <1>n, <1>w DEF CreatedWell
  <2>3. poll' = Step(s, "ask") /\ poll'.slot = s /\ poll'.step = "ask"
    BY <1>n, <2>1, <2>2 DEF Step
  <2>4. poll' \in Steps
    BY <2>3, StepsTyped
  <2>5. TransportTyped'
    BY <1>0, <1>a, <1>h, <1>p, <2>1, <2>4, ReceivedTyped
  <2>6. \A u \in SlotIds \ {s} : NotPolled(u)
    BY <1>0, <1>a, <1>p, <2>1, ReceivedKeepsOthers
  <2>7. \A u \in SlotIds \ {s} : SlotInv(u)'
    BY <1>0, <1>p, <2>3, <2>6, OthersInv
  <2>8. SlotInv(s)'
    <3>1. ~Creating(s)' /\ FetchesSome(s)'
      BY <2>3 DEF Creating, FetchesSome
    <3>2. /\ arrived'[s] = <<>> /\ overdue'[s] = <<>> /\ s \in connected' /\ s \in open' /\ s \in plugged'
          /\ s \notin hasData' /\ said' [s] = said[s] /\ handed' = handed
      BY <1>n, <1>p, <2>1, <2>2 DEF TPDURecv
    <3>3. OldAnswers(s)'
      BY <3>1, <3>2, EmptySeq DEF OldAnswers
    <3>4. HandedInOrder(s)'
      BY <1>s, <3>2 DEF HandedInOrder
    <3> QED
      BY <3>1, <3>2, <3>3, <3>4 DEF SlotInv, GoneIsEmpty, LinkedIsOpen, CreatedAnew, DataIsThere, NothingLate
  <2> QED
    BY <1>0, <2>1, <2>5, <2>7, <2>8 DEF TransportIInv
<1>2. CASE o.got.tag # "CTC_REPLY" /\ poll.tries + 1 = Retries
  <2>1. ResetTransport(s, o)
    BY <1>2, <1>o
  <2>2. o.lates = 0 => s \notin o.connected
    BY <1>2, <1>n, <1>w DEF CreatedWell
  <2> QED
    BY <1>0, <1>a, <1>p, <2>1, <2>2, ResetKeepsIInv
<1>3. CASE o.got.tag # "CTC_REPLY" /\ poll.tries + 1 # Retries
  <2>1. TPDURecv(s, o) /\ poll' = [poll EXCEPT !.tries = @ + 1] /\ UNCHANGED <<open, handed, unjust>>
    BY <1>3, <1>o
  <2>2. /\ o.got = NoAnswer /\ OneReply(o.arrived[s], o.overdue[s])
        /\ s \notin o.connected => o.arrived[s] = <<>> /\ o.overdue[s] = <<>>
        /\ o.lates = 0 => o.arrived[s] = <<>> /\ o.overdue[s] = <<>> /\ s \notin o.connected
        /\ o.wants[s] = wants[s] /\ o.said[s] = said[s]
        /\ s \in o.connected => s \in plugged
        /\ s \in connected => s \in o.connected
    BY <1>3, <1>n, <1>w DEF CreatedWell
  <2>3. poll'.slot = s /\ poll'.step = "create" /\ poll'.tries > 0 /\ poll' \in Steps
    BY <1>p, <1>t, <2>1 DEF Steps
  <2>5. TransportTyped'
    BY <1>0, <1>a, <1>h, <1>p, <2>1, <2>3, ReceivedTyped
  <2>6. \A u \in SlotIds \ {s} : NotPolled(u)
    BY <1>0, <1>a, <1>p, <2>1, ReceivedKeepsOthers
  <2>7. \A u \in SlotIds \ {s} : SlotInv(u)'
    BY <1>0, <1>p, <2>3, <2>6, OthersInv
  <2>8. SlotInv(s)'
    <3>1. Creating(s)' /\ FetchesSome(s)'
      BY <2>3 DEF Creating, FetchesSome
    <3>2. /\ arrived' = o.arrived /\ overdue' = o.overdue /\ connected' = o.connected /\ lates' = o.lates
          /\ wants' = o.wants /\ said' = o.said
      BY <2>1 DEF TPDURecv
    <3>3. OldAnswers(s)' /\ GoneIsEmpty(s)' /\ HandedInOrder(s)'
      BY <1>s, <2>1, <2>2, <3>1, <3>2 DEF OldAnswers, GoneIsEmpty, HandedInOrder
    <3>4. LinkedIsOpen(s)' /\ CreatedAnew(s)' /\ DataIsThere(s)' /\ NothingLate(s)'
      BY <1>p, <1>s, <2>1, <2>2, <2>3, <3>1, <3>2 DEF LinkedIsOpen, CreatedAnew, DataIsThere, NothingLate
    <3> QED
      BY <3>1, <3>3, <3>4 DEF SlotInv
  <2> QED
    BY <1>0, <2>1, <2>5, <2>7, <2>8 DEF TransportIInv
<1> QED
  BY <1>1, <1>2, <1>3

\* A request without data that got an answer, or that nobody waits for.
LEMMA AskedKeepsIInv ==
  ASSUME TransportTyped, \A u \in SlotIds : SlotInv(u), ~unjust, NEW s \in SlotIds,
         poll.slot = s \/ poll = AtRest, ~Creating(s), NEW o, AskedWell(s, o), TPDURecv(s, o),
         UNCHANGED <<plugged, open, handed, unjust>>,
         poll'.slot = s \/ poll' = NextSlot(s) \/ poll' = AtRest,
         ~Creating(s)', poll' = AtRest \/ poll' \in Steps,
         poll'.slot = s /\ poll'.step = "fetch" => o.got # NoAnswer /\ o.got.more
  PROVE  TransportIInv'
<1>a. OutcomeTyped(o) /\ OthersKept(s, o) /\ (o.lates = 0 => lates = 0)
  BY DEF AskedWell
<1>h. handed \in [SlotIds -> Seq(Nat)] /\ wants[s] \in Nat
  BY DEF TransportTyped
<1>1. TransportTyped'
  BY <1>a, <1>h, ReceivedTyped
<1>2. \A u \in SlotIds \ {s} : NotPolled(u)
  BY <1>a, ReceivedKeepsOthers
<1>3. \A u \in SlotIds \ {s} : SlotInv(u)'
  BY <1>2, OthersInv
<1>4. SlotInv(s)'
  <2>0. GoneIsEmpty(s) /\ LinkedIsOpen(s) /\ DataIsThere(s) /\ HandedInOrder(s)
    BY DEF SlotInv
  <2>1. /\ arrived' = o.arrived /\ overdue' = o.overdue /\ connected' = o.connected /\ lates' = o.lates
        /\ wants' = o.wants /\ said' = o.said
    BY DEF TPDURecv
  <2>2. /\ wants'[s] = wants[s] /\ said'[s] = said[s] /\ (s \in connected' <=> s \in connected)
        /\ arrived'[s] \in Seq(States(wants[s])) /\ overdue'[s] \in Seq(States(wants[s]))
        /\ s \notin connected' => arrived'[s] = <<>> /\ overdue'[s] = <<>>
        /\ lates' = 0 => arrived'[s] = <<>> /\ overdue'[s] = <<>>
    BY <2>1 DEF AskedWell
  <2>3. o.got # NoAnswer => s \in connected /\ (o.got.more => wants[s] > 0)
    BY <1>h, StatesAreAnswers DEF AskedWell
  <2>4. GoneIsEmpty(s)' /\ HandedInOrder(s)'
    BY <2>0, <2>2 DEF GoneIsEmpty, HandedInOrder
  <2>5. LinkedIsOpen(s)' /\ CreatedAnew(s)' /\ NothingLate(s)'
    BY <2>0, <2>2 DEF LinkedIsOpen, CreatedAnew, NothingLate
  <2>6. OldAnswers(s)'
    BY <2>2 DEF OldAnswers
  <2>7. DataIsThere(s)'
    BY <2>0, <2>2, <2>3 DEF DataIsThere, TPDURecv
  <2>8. FetchesSome(s)'
    BY <2>2, <2>3 DEF FetchesSome
  <2> QED
    BY <2>4, <2>5, <2>6, <2>7, <2>8 DEF SlotInv
<1> QED
  BY <1>1, <1>3, <1>4 DEF TransportIInv

LEMMA AskInv ==
  ASSUME TransportIInv, NEW s \in SlotIds, Ask(s)
  PROVE  TransportIInv'
<1>0. TransportTyped /\ ~unjust /\ \A u \in SlotIds : SlotInv(u)
  BY DEF TransportIInv
<1>p. poll.slot = s /\ poll.step = "ask" /\ ~Creating(s) /\ plugged' = plugged
  BY DEF Ask, Creating, Step
<1>o. PICK o \in Outcomes(s, Asked(s, "DATA_LAST")) :
        IF o.got = NoAnswer THEN ResetTransport(s, o)
        ELSE /\ TPDURecv(s, o)
             /\ poll' = IF o.got.more THEN Step(s, "fetch") ELSE NextSlot(s)
             /\ UNCHANGED <<open, handed, unjust>>
  BY DEF Ask
<1>w. AskedWell(s, o)
  BY <1>0, <1>p, AskOutcome
<1>1. CASE o.got = NoAnswer
  <2>1. ResetTransport(s, o)
    BY <1>1, <1>o
  <2>2. /\ OutcomeTyped(o) /\ OthersKept(s, o) /\ (o.lates = 0 => lates = 0)
        /\ o.lates = 0 => s \notin o.connected
    BY <1>1, <1>w DEF AskedWell
  <2> QED
    BY <1>0, <1>p, <2>1, <2>2, ResetKeepsIInv
<1>2. CASE o.got # NoAnswer
  <2>1. TPDURecv(s, o) /\ UNCHANGED <<plugged, open, handed, unjust>>
    BY <1>2, <1>o, <1>p
  <2>2. poll' = IF o.got.more THEN Step(s, "fetch") ELSE NextSlot(s)
    BY <1>2, <1>o
  <2>3. CASE o.got.more
    <3>1. poll' = Step(s, "fetch") /\ poll'.slot = s /\ poll'.step = "fetch"
      BY <2>2, <2>3 DEF Step
    <3>2. ~Creating(s)' /\ poll' \in Steps
      BY <3>1, StepsTyped DEF Creating
    <3> QED
      BY <1>0, <1>2, <1>p, <1>w, <2>1, <2>3, <3>1, <3>2, AskedKeepsIInv
  <2>4. CASE ~o.got.more
    <3>1. poll' = NextSlot(s) /\ poll'.step \in {"look", "idle"}
      BY <2>2, <2>4, NextLooks
    <3>2. ~Creating(s)' /\ (poll' = AtRest \/ poll' \in Steps) /\ poll'.step # "fetch"
      BY <3>1, StepsTyped DEF Creating
    <3> QED
      BY <1>0, <1>p, <1>w, <2>1, <3>1, <3>2, AskedKeepsIInv
  <2> QED
    BY <2>3, <2>4
<1> QED
  BY <1>1, <1>2

LEMMA SendInv ==
  ASSUME TransportIInv, NEW s \in SlotIds, SendCAPMT(s)
  PROVE  TransportIInv'
<1>0. TransportTyped /\ ~unjust /\ \A u \in SlotIds : SlotInv(u)
  BY DEF TransportIInv
<1>p. /\ poll = AtRest /\ poll' = AtRest /\ ~Creating(s) /\ ~Creating(s)' /\ poll'.step # "fetch"
      /\ UNCHANGED <<plugged, open, handed, unjust>>
  BY DEF SendCAPMT, Creating, AtRest
<1>o. PICK o \in Outcomes(s, Asked(s, "DATA_LAST")) : TPDURecv(s, o)
  BY DEF SendCAPMT
<1>w. AskedWell(s, o)
  BY <1>0, <1>p, AskOutcome
<1> QED
  BY <1>0, <1>o, <1>p, <1>w, AskedKeepsIInv

\* One more message in its order.
LEMMA InOrderOneMore ==
  ASSUME NEW n \in Nat
  PROVE  Append([i \in 1..n |-> i], n + 1) = [i \in 1..(n + 1) |-> i]
<1> DEFINE q == [i \in 1..n |-> i]
           r == [i \in 1..(n + 1) |-> i]
<1>1. q \in Seq(Nat) /\ Len(q) = n /\ r \in Seq(Nat) /\ Len(r) = n + 1
  OBVIOUS
<1>2. Append(q, n + 1) \in Seq(Nat) /\ Len(Append(q, n + 1)) = n + 1
  BY <1>1, AppendProperties
<1>3. ASSUME NEW i \in 1..(n + 1) PROVE Append(q, n + 1)[i] = r[i]
  BY <1>1, <1>3, AppendProperties
<1> HIDE DEF q, r
<1>4. Append(q, n + 1) = r
  BY <1>1, <1>2, <1>3, SeqEqual
<1> QED
  BY <1>4 DEF q, r

LEMMA FetchInv ==
  ASSUME TransportIInv, NEW s \in SlotIds, Fetch(s)
  PROVE  TransportIInv'
<1>0. TransportTyped /\ ~unjust /\ \A u \in SlotIds : SlotInv(u)
  BY DEF TransportIInv
<1>p. poll = Step(s, "fetch") /\ poll.slot = s /\ poll.step = "fetch" /\ ~Creating(s) /\ plugged' = plugged
  BY DEF Fetch, Creating, Step
<1>t. wants[s] \in Nat /\ said[s] \in Nat /\ handed \in [SlotIds -> Seq(Nat)]
  BY <1>0 DEF TransportTyped
<1>o. PICK o \in Outcomes(s, Asked(s, "RCV")) :
        IF o.got.tag \in {"none", "SB"} THEN ResetTransport(s, o)
        ELSE /\ TPDURecv(s, o)
             /\ handed' = IF o.got.tag = "DATA_LAST" THEN [handed EXCEPT ![s] = Append(@, o.got.data)] ELSE handed
             /\ poll' = IF o.got.tag = "DATA_LAST" THEN Step(s, "handle")
                        ELSE IF o.got.more THEN poll ELSE NextSlot(s)
             /\ UNCHANGED <<open, unjust>>
  BY DEF Fetch
<1>w. FetchedWell(s, o)
  BY <1>0, <1>p, FetchOutcome
<1>a. OutcomeTyped(o) /\ OthersKept(s, o) /\ (o.lates = 0 => lates = 0)
  BY <1>w DEF FetchedWell
<1>1. CASE o.got.tag \in {"none", "SB"}
  <2>1. ResetTransport(s, o)
    BY <1>1, <1>o
  <2>2. o.lates = 0 => s \notin o.connected
    BY <1>1, <1>w DEF FetchedWell
  <2> QED
    BY <1>0, <1>a, <1>p, <2>1, <2>2, ResetKeepsIInv
<1>2. CASE o.got.tag \notin {"none", "SB"}
  <2>1. /\ s \in connected /\ s \in o.connected /\ wants[s] > 0
        /\ o.got = [tag |-> "DATA_LAST", data |-> said[s] + 1, more |-> wants[s] > 1]
        /\ o.wants[s] = wants[s] - 1 /\ o.said[s] = said[s] + 1
        /\ o.arrived[s] = <<>> /\ o.overdue[s] = <<>>
    BY <1>2, <1>w DEF FetchedWell
  <2>2. o.got.tag = "DATA_LAST" /\ o.got.data = said[s] + 1 /\ (o.got.more <=> wants[s] > 1)
    <3>1. o.got.tag = "DATA_LAST" /\ o.got.data = said[s] + 1 /\ o.got.more = (wants[s] > 1)
      BY <2>1
    <3> QED
      BY <3>1
  <2>3. /\ TPDURecv(s, o) /\ handed' = [handed EXCEPT ![s] = Append(@, said[s] + 1)]
        /\ poll' = Step(s, "handle") /\ UNCHANGED <<open, unjust>>
    BY <1>2, <1>o, <2>2
  <2>4. poll'.slot = s /\ poll'.step = "handle" /\ poll' \in Steps
    BY <2>3, StepsTyped DEF Step
  <2>5. /\ handed' \in [SlotIds -> Seq(Nat)] /\ \A u \in SlotIds \ {s} : handed'[u] = handed[u]
        /\ handed'[s] = Append(handed[s], said[s] + 1)
    <3>1. Append(handed[s], said[s] + 1) \in Seq(Nat)
      BY <1>t, AppendProperties
    <3> QED
      BY <1>t, <2>3, <3>1
  <2>6. TransportTyped'
    BY <1>0, <1>a, <1>p, <2>3, <2>4, <2>5, ReceivedTyped
  <2>7. \A u \in SlotIds \ {s} : NotPolled(u)
    BY <1>0, <1>a, <1>p, <2>3, <2>5, ReceivedKeepsOthers
  <2>8. \A u \in SlotIds \ {s} : SlotInv(u)'
    BY <1>0, <1>p, <2>4, <2>7, OthersInv
  <2>9. SlotInv(s)'
    <3>0. LinkedIsOpen(s) /\ HandedInOrder(s)
      BY <1>0 DEF SlotInv
    <3>1. ~Creating(s)' /\ FetchesSome(s)'
      BY <2>4 DEF Creating, FetchesSome
    <3>2. /\ arrived'[s] = <<>> /\ overdue'[s] = <<>> /\ s \in connected'
          /\ said'[s] = said[s] + 1 /\ wants'[s] = wants[s] - 1
      BY <2>1, <2>3 DEF TPDURecv
    <3>3. s \in open' /\ s \in plugged'
      BY <1>p, <2>1, <2>3, <3>0 DEF LinkedIsOpen
    <3>4. DataIsThere(s)'
      <4>1. s \in hasData' => o.got.more
        BY <2>2, <2>3 DEF TPDURecv, NoAnswer
      <4> QED
        BY <1>t, <2>2, <3>2, <4>1 DEF DataIsThere
    <3>5. HandedInOrder(s)'
      <4>1. handed'[s] = Append([i \in 1..said[s] |-> i], said[s] + 1)
        BY <2>5, <3>0 DEF HandedInOrder
      <4> QED
        BY <1>t, <3>2, <4>1, InOrderOneMore DEF HandedInOrder
    <3>6. OldAnswers(s)'
      BY <3>1, <3>2, EmptySeq DEF OldAnswers
    <3> QED
      BY <3>1, <3>2, <3>3, <3>4, <3>5, <3>6 DEF SlotInv, GoneIsEmpty, LinkedIsOpen, CreatedAnew, NothingLate
  <2> QED
    BY <1>0, <2>3, <2>6, <2>8, <2>9 DEF TransportIInv
<1> QED
  BY <1>1, <1>2

LEMMA HandleInv ==
  ASSUME TransportIInv, NEW s \in SlotIds, Handle(s)
  PROVE  TransportIInv'
<1>0. TransportTyped /\ ~unjust /\ \A u \in SlotIds : SlotInv(u)
  BY DEF TransportIInv
<1>p. /\ poll.slot = s /\ poll.step = "handle" /\ ~Creating(s)
      /\ UNCHANGED <<plugged, open, handed, swaps, unjust>>
  BY DEF Handle, Creating
<1>t. poll \in Steps
  <2>1. poll # AtRest
    BY <1>p DEF AtRest
  <2> QED
    BY <1>0, <2>1 DEF TransportTyped
<1>1. CASE poll.tries = 0 /\ poll' = [poll EXCEPT !.tries = 1] /\ \E o \in Outcomes(s, Asked(s, "DATA_LAST")) : TPDURecv(s, o)
  <2>1. PICK o \in Outcomes(s, Asked(s, "DATA_LAST")) : TPDURecv(s, o)
    BY <1>1
  <2>2. AskedWell(s, o)
    BY <1>0, <1>p, AskOutcome
  <2>3. poll'.slot = s /\ poll'.step = "handle" /\ poll' \in Steps
    BY <1>1, <1>p, <1>t DEF Steps
  <2>4. ~Creating(s)'
    BY <2>3 DEF Creating
  <2> QED
    BY <1>0, <1>p, <2>1, <2>2, <2>3, <2>4, AskedKeepsIInv
<1>2. CASE /\ poll' = IF s \in hasData THEN Step(s, "fetch") ELSE NextSlot(s)
           /\ UNCHANGED <<connected, hasData, arrived, overdue, wants, said, lates>>
  <2>1. poll' = AtRest \/ poll' \in Steps
    BY <1>2, StepsTyped
  <2>2. TransportTyped'
    BY <1>0, <1>2, <1>p, <2>1 DEF TransportTyped
  <2>3. \A u \in SlotIds \ {s} : NotPolled(u)
    BY <1>2, <1>p DEF NotPolled
  <2>4. poll'.slot = s \/ poll' = NextSlot(s)
    BY <1>2 DEF Step
  <2>5. \A u \in SlotIds \ {s} : SlotInv(u)'
    BY <1>0, <1>p, <2>3, <2>4, OthersInv
  <2>6. SlotInv(s)'
    <3>0. /\ GoneIsEmpty(s) /\ LinkedIsOpen(s) /\ DataIsThere(s) /\ NothingLate(s) /\ HandedInOrder(s)
          /\ arrived[s] \in Seq(States(wants[s])) /\ overdue[s] \in Seq(States(wants[s]))
      BY <1>0, <1>p DEF SlotInv, OldAnswers
    <3>1. ~Creating(s)' /\ (poll'.step = "fetch" => s \in hasData)
      BY <1>2, NextLooks DEF Creating, Step
    <3>2. GoneIsEmpty(s)' /\ HandedInOrder(s)' /\ OldAnswers(s)' /\ DataIsThere(s)'
      BY <1>2, <1>p, <3>0, <3>1 DEF GoneIsEmpty, HandedInOrder, OldAnswers, DataIsThere
    <3>3. LinkedIsOpen(s)' /\ CreatedAnew(s)' /\ NothingLate(s)'
      BY <1>2, <1>p, <3>0, <3>1 DEF LinkedIsOpen, CreatedAnew, NothingLate
    <3>4. FetchesSome(s)'
      BY <1>2, <1>p, <3>0, <3>1 DEF FetchesSome, DataIsThere, LinkedIsOpen
    <3> QED
      BY <3>2, <3>3, <3>4 DEF SlotInv
  <2> QED
    BY <1>0, <1>p, <2>2, <2>5, <2>6 DEF TransportIInv
<1> QED
  BY <1>1, <1>2 DEF Handle

----------------------------------------------------------------------------
\* A slot of which nothing changes, whatever another's module does.
Still(u) ==
  /\ u \in plugged => u \in plugged'
  /\ u \in connected' <=> u \in connected
  /\ u \in open' <=> u \in open
  /\ u \in hasData' <=> u \in hasData
  /\ wants'[u] = wants[u] /\ said'[u] = said[u] /\ handed'[u] = handed[u]
  /\ overdue'[u] = overdue[u] /\ arrived'[u] = arrived[u]
  /\ lates' = lates /\ poll' = poll

LEMMA StillSlot ==
  ASSUME NEW u \in SlotIds, SlotInv(u), Still(u)
  PROVE  SlotInv(u)'
<1>1. Creating(u)' <=> Creating(u)
  BY DEF Creating, Still
<1>2. GoneIsEmpty(u)' /\ LinkedIsOpen(u)' /\ CreatedAnew(u)'
  BY <1>1 DEF SlotInv, Still, GoneIsEmpty, LinkedIsOpen, CreatedAnew
<1>3. OldAnswers(u)'
  BY <1>1 DEF SlotInv, Still, OldAnswers
<1>4. DataIsThere(u)' /\ FetchesSome(u)' /\ NothingLate(u)' /\ HandedInOrder(u)'
  BY <1>1 DEF SlotInv, Still, DataIsThere, FetchesSome, NothingLate, HandedInOrder
<1> QED
  BY <1>2, <1>3, <1>4 DEF SlotInv

LEMMA PlugInv ==
  ASSUME TransportIInv, NEW s \in SlotIds, Plug(s)
  PROVE  TransportIInv'
<1>1. TransportTyped' /\ ~unjust'
  BY DEF TransportIInv, TransportTyped, Plug
<1>2. ASSUME NEW u \in SlotIds PROVE SlotInv(u)'
  <2>1. Still(u)
    BY DEF Still, Plug
  <2> QED
    BY <2>1, StillSlot DEF TransportIInv
<1> QED
  BY <1>1, <1>2 DEF TransportIInv

LEMMA UnplugInv ==
  ASSUME TransportIInv, NEW s \in SlotIds, Unplug(s)
  PROVE  TransportIInv'
<1>0. <<>> \in Seq(AnswerRec) /\ <<>> \in Seq(Nat) /\ <<>> \in Seq(States(0))
  BY EmptySeq
<1>1. TransportTyped' /\ ~unjust'
  BY <1>0 DEF TransportIInv, TransportTyped, Unplug, Forget
<1>2. ASSUME NEW u \in SlotIds \ {s} PROVE SlotInv(u)'
  <2>1. Still(u)
    BY DEF Still, Unplug, Forget, TransportIInv, TransportTyped
  <2> QED
    BY <2>1, StillSlot DEF TransportIInv
<1>3. SlotInv(s)'
  <2>1. /\ arrived'[s] = <<>> /\ overdue'[s] = <<>> /\ wants'[s] = 0 /\ said'[s] = 0 /\ handed'[s] = <<>>
        /\ s \notin connected' /\ poll' = poll /\ open' = open
    BY DEF Unplug, Forget, TransportIInv, TransportTyped
  <2>2. CreatedAnew(s)'
    BY <2>1 DEF TransportIInv, SlotInv, CreatedAnew, Creating
  <2>3. OldAnswers(s)'
    BY <1>0, <2>1 DEF OldAnswers, OneReply
  <2>4. HandedInOrder(s)'
    BY <2>1, NoneHanded DEF HandedInOrder
  <2> QED
    BY <2>1, <2>2, <2>3, <2>4 DEF SlotInv, GoneIsEmpty, LinkedIsOpen, DataIsThere, FetchesSome, NothingLate
<1> QED
  BY <1>1, <1>2, <1>3 DEF TransportIInv

LEMMA SpeakInv ==
  ASSUME TransportIInv, NEW s \in SlotIds, Speak(s)
  PROVE  TransportIInv'
<1>0. TransportTyped /\ SlotInv(s) /\ wants[s] \in Nat
  BY DEF TransportIInv, TransportTyped
<1>1. TransportTyped' /\ ~unjust'
  BY DEF TransportIInv, TransportTyped, Speak
<1>2. ASSUME NEW u \in SlotIds \ {s} PROVE SlotInv(u)'
  <2>1. Still(u)
    BY DEF Still, Speak, TransportIInv, TransportTyped
  <2> QED
    BY <2>1, StillSlot DEF TransportIInv
<1>3. SlotInv(s)'
  <2>1. /\ wants'[s] = wants[s] + 1 /\ s \in connected
        /\ UNCHANGED <<plugged, connected, open, hasData, arrived, overdue, said, handed, poll, lates>>
    BY <1>0 DEF Speak, TransportTyped
  <2>2. Creating(s)' <=> Creating(s)
    BY <2>1 DEF Creating
  <2>3. Seq(States(wants[s])) \subseteq Seq(States(wants'[s]))
    <3>1. States(wants[s]) \subseteq States(wants'[s])
      BY <1>0, <2>1 DEF States
    <3> QED
      BY <3>1
  <2>4. OldAnswers(s)'
    BY <1>0, <2>1, <2>2, <2>3 DEF SlotInv, OldAnswers
  <2>5. GoneIsEmpty(s)' /\ LinkedIsOpen(s)' /\ CreatedAnew(s)'
    BY <1>0, <2>1, <2>2 DEF SlotInv, GoneIsEmpty, LinkedIsOpen, CreatedAnew
  <2>6. DataIsThere(s)' /\ FetchesSome(s)' /\ NothingLate(s)' /\ HandedInOrder(s)'
    BY <1>0, <2>1, <2>2 DEF SlotInv, DataIsThere, FetchesSome, NothingLate, HandedInOrder
  <2> QED
    BY <2>4, <2>5, <2>6 DEF SlotInv
<1> QED
  BY <1>1, <1>2, <1>3 DEF TransportIInv

LEMMA ArriveInv ==
  ASSUME TransportIInv, NEW s \in SlotIds, Arrive(s)
  PROVE  TransportIInv'
<1>0. TransportTyped /\ SlotInv(s)
  BY DEF TransportIInv
<1>t. arrived[s] \in Seq(AnswerRec) /\ overdue[s] \in Seq(AnswerRec) /\ overdue[s] # <<>>
  BY <1>0 DEF TransportTyped, Arrive
<1>h. /\ Head(overdue[s]) \in AnswerRec /\ Tail(overdue[s]) \in Seq(AnswerRec)
      /\ Append(arrived[s], Head(overdue[s])) \in Seq(AnswerRec)
  <2>1. Head(overdue[s]) \in AnswerRec /\ Tail(overdue[s]) \in Seq(AnswerRec)
    BY <1>t, HeadTailProperties
  <2> QED
    BY <1>t, <2>1, AppendProperties
<1>1. TransportTyped' /\ ~unjust'
  BY <1>h DEF TransportIInv, TransportTyped, Arrive
<1>2. ASSUME NEW u \in SlotIds \ {s} PROVE SlotInv(u)'
  <2>1. Still(u)
    BY DEF Still, Arrive, TransportIInv, TransportTyped
  <2> QED
    BY <2>1, StillSlot DEF TransportIInv
<1>3. SlotInv(s)'
  <2>1. /\ arrived'[s] = Append(arrived[s], Head(overdue[s])) /\ overdue'[s] = Tail(overdue[s])
        /\ UNCHANGED <<plugged, connected, open, hasData, wants, said, handed, poll, lates>>
    BY <1>0 DEF Arrive, TransportTyped
  <2>2. Creating(s)' <=> Creating(s)
    BY <2>1 DEF Creating
  <2>3. ASSUME Creating(s) PROVE OldAnswers(s)'
    <3>1. overdue[s] = <<ReplyRec>> /\ arrived[s] = <<>>
      BY <1>0, <1>t, <2>3 DEF SlotInv, OldAnswers, OneReply
    <3>2. arrived'[s] = <<ReplyRec>> /\ overdue'[s] = <<>>
      BY <2>1, <3>1, OneOnly
    <3> QED
      BY <2>2, <2>3, <3>2 DEF OldAnswers, OneReply
  <2>4. ASSUME ~Creating(s) PROVE OldAnswers(s)'
    <3>1. arrived[s] \in Seq(States(wants[s])) /\ overdue[s] \in Seq(States(wants[s]))
      BY <1>0, <2>4 DEF SlotInv, OldAnswers
    <3>2. Head(overdue[s]) \in States(wants[s]) /\ Tail(overdue[s]) \in Seq(States(wants[s]))
      BY <1>t, <3>1, HeadTailProperties
    <3>3. Append(arrived[s], Head(overdue[s])) \in Seq(States(wants[s]))
      BY <3>1, <3>2, AppendProperties
    <3> QED
      BY <2>1, <2>2, <2>4, <3>2, <3>3 DEF OldAnswers
  <2>5. s \in connected /\ lates # 0
    BY <1>0, <1>t DEF SlotInv, GoneIsEmpty, NothingLate
  <2>6. OldAnswers(s)'
    BY <2>3, <2>4
  <2>7. GoneIsEmpty(s)' /\ LinkedIsOpen(s)' /\ CreatedAnew(s)'
    BY <1>0, <2>1, <2>2, <2>5 DEF SlotInv, GoneIsEmpty, LinkedIsOpen, CreatedAnew
  <2>8. DataIsThere(s)' /\ FetchesSome(s)' /\ NothingLate(s)' /\ HandedInOrder(s)'
    BY <1>0, <2>1, <2>2, <2>5 DEF SlotInv, DataIsThere, FetchesSome, NothingLate, HandedInOrder
  <2> QED
    BY <2>6, <2>7, <2>8 DEF SlotInv
<1> QED
  BY <1>1, <1>2, <1>3 DEF TransportIInv

LEMMA BeginInv ==
  ASSUME TransportIInv, Begin
  PROVE  TransportIInv'
<1>p. poll = AtRest /\ poll' = Step(1, "look") /\ poll'.step = "look"
  BY DEF Begin, Step
<1>1. TransportTyped' /\ ~unjust'
  <2>1. poll' \in Steps
    BY <1>p, SlotsAre, StepsTyped DEF SlotIds
  <2> QED
    BY <2>1 DEF TransportIInv, TransportTyped, Begin
<1>2. ASSUME NEW u \in SlotIds PROVE SlotInv(u)'
  <2>1. ~Creating(u) /\ ~Creating(u)' /\ poll'.step # "fetch"
    BY <1>p DEF Creating, AtRest
  <2>2. NotPolled(u)
    BY DEF NotPolled, Begin
  <2> QED
    BY <2>1, <2>2, KeptSlot DEF TransportIInv
<1> QED
  BY <1>1, <1>2 DEF TransportIInv

\* Together.
LEMMA TransportStarts == TransportInit => TransportIInv
<1> SUFFICES ASSUME TransportInit PROVE TransportIInv
  OBVIOUS
<1>1. TransportTyped /\ ~unjust
  BY EmptySeq DEF TransportInit, TransportTyped
<1>2. ASSUME NEW s \in SlotIds PROVE SlotInv(s)
  <2>1. /\ arrived[s] = <<>> /\ overdue[s] = <<>> /\ wants[s] = 0 /\ said[s] = 0 /\ handed[s] = <<>>
        /\ s \notin connected /\ poll.step = "idle"
    BY DEF TransportInit, AtRest
  <2>2. HandedInOrder(s)
    BY <2>1, NoneHanded DEF HandedInOrder
  <2>3. OldAnswers(s)
    BY <2>1, EmptySeq DEF OldAnswers, Creating
  <2> QED
    BY <2>1, <2>2, <2>3
       DEF SlotInv, GoneIsEmpty, LinkedIsOpen, CreatedAnew, DataIsThere, FetchesSome, NothingLate, Creating
<1> QED
  BY <1>1, <1>2 DEF TransportIInv

LEMMA TransportKeeps == TransportIInv /\ [TransportNext]_transport => TransportIInv'
<1> SUFFICES ASSUME TransportIInv, [TransportNext]_transport PROVE TransportIInv'
  OBVIOUS
<1>1. CASE UNCHANGED transport
  <2>1. TransportTyped' /\ ~unjust'
    BY <1>1 DEF TransportIInv, TransportTyped, transport
  <2>2. ASSUME NEW u \in SlotIds PROVE SlotInv(u)'
    <3>1. Still(u)
      BY <1>1 DEF Still, transport
    <3> QED
      BY <3>1, StillSlot DEF TransportIInv
  <2> QED
    BY <2>1, <2>2 DEF TransportIInv
<1>2. CASE TransportNext
  BY <1>2, PlugInv, UnplugInv, SpeakInv, ArriveInv, BeginInv, LookInv, CreateInv, AskInv, FetchInv, HandleInv, SendInv
     DEF TransportNext
<1> QED
  BY <1>1, <1>2

LEMMA TransportIsInStep == TransportIInv => InStep
  BY DEF TransportIInv, SlotInv, HandedInOrder, DataIsThere, InStep

----------------------------------------------------------------------------
(* Dialogues. *)

TextKinds == {"short", "long", "empty"}
MMITypes == {"NONE", "ENQ", "MENU"}
Words == {Junk, Held, Gone}
MMIRec == [open : BOOLEAN, type : MMITypes, word : [1..3 -> Words], texts : Seq(TextKinds)]
DateRec == [open : BOOLEAN, interval : Nat, last : Nat]

DialogsTyped ==
  /\ mmi \in MMIRec /\ date \in DateRec
  /\ few \in BOOLEAN /\ badFree \in BOOLEAN /\ clock \in Nat

\* What the type of the object says is to be freed, is held.
HeldAsTyped == mmi.open /\ ~few => \A i \in Frees(mmi) : mmi.word[i] = Held

TextsAreMeant ==
  mmi.open /\ (\A i \in DOMAIN meant : meant[i] # "long" \/ mmi.type = "ENQ") => mmi.texts = meant

TimeIsGiven == date.open /\ date.interval # 0 => clock <= date.last + date.interval

DialogsIInv == DialogsTyped /\ HeldAsTyped /\ (badFree => few) /\ TextsAreMeant /\ TimeIsGiven

\* Freeing an object changes its pointers only, and is well done while it is held.
LEMMA FreedTyped ==
  ASSUME DialogsTyped
  PROVE  /\ MMIFree(mmi) \in MMIRec /\ MMIFree(mmi).open = mmi.open /\ MMIFree(mmi).type = mmi.type
         /\ MMIFree(mmi).texts = mmi.texts
  BY DEF DialogsTyped, MMIFree, MMIRec, Words, Junk, Held, Gone, Title, Subtitle, Bottom

LEMMA WellFreed ==
  ASSUME HeldAsTyped, mmi.open, ~few
  PROVE  ~BadlyFreed(mmi)
  BY DEF HeldAsTyped, BadlyFreed

\* A text that is long is the last to be found but an empty one.
LEMMA TextsFound ==
  ASSUME NEW texts \in Seq({"short", "long"})
  PROVE  /\ MMIGetTexts(texts) \in Seq(TextKinds)
         /\ (\A i \in DOMAIN texts : texts[i] # "long") => MMIGetTexts(texts) = texts
<1> DEFINE long == {i \in DOMAIN texts : texts[i] = "long"}
           first == CHOOSE i \in long : \A j \in long : i <= j
<1>1. texts \in Seq(TextKinds)
  BY DEF TextKinds
<1>2. CASE long = {}
  <2>1. MMIGetTexts(texts) = texts
    BY <1>2 DEF MMIGetTexts
  <2> QED
    BY <1>1, <2>1
<1>3. CASE long # {}
  <2>1. long \subseteq Nat
    OBVIOUS
  <2>2. \E i \in long : \A j \in long : i <= j
    BY <1>3, <2>1, FirstNumber
  <2>3. first \in long
    BY <2>2
  <2>4. first \in 1..Len(texts)
    BY <2>3
  <2> HIDE DEF first
  <2>5. SubSeq(texts, 1, first) \in Seq(TextKinds)
    BY <1>1, <2>4, SubSeqProperties
  <2>6. Append(SubSeq(texts, 1, first), "empty") \in Seq(TextKinds)
    BY <2>5, AppendProperties DEF TextKinds
  <2>7. MMIGetTexts(texts) = Append(SubSeq(texts, 1, first), "empty")
    BY <1>3 DEF MMIGetTexts, first
  <2> QED
    BY <1>3, <2>6, <2>7
<1> QED
  BY <1>2, <1>3

\* Message by message.
LEMMA EnqInv ==
  ASSUME DialogsIInv, NEW text \in {"short", "long"}, MMIHandleEnq(text)
  PROVE  DialogsIInv'
<1>0. DialogsTyped /\ HeldAsTyped /\ (badFree => few) /\ mmi.open
  BY DEF DialogsIInv, MMIHandleEnq
<1>1. /\ badFree' = BadlyFreed(mmi) /\ few' = few /\ UNCHANGED <<date, clock>> /\ meant' = <<text>>
      /\ mmi' = [MMIFree(mmi) EXCEPT !.type = "ENQ", !.word[Title] = Junk, !.word[Subtitle] = Held, !.texts = <<text>>]
  BY DEF MMIHandleEnq, Dialog
<1>2. MMIFree(mmi) \in MMIRec
  BY <1>0, FreedTyped
<1>3. /\ mmi' \in MMIRec /\ mmi'.type = "ENQ" /\ mmi'.texts = <<text>> /\ mmi'.word[Subtitle] = Held
  <2> DEFINE o == MMIFree(mmi)
  <2> HIDE DEF o
  <2>1. <<text>> \in Seq(TextKinds)
    BY DEF TextKinds
  <2>2. mmi' = [o EXCEPT !.type = "ENQ", !.word[Title] = Junk, !.word[Subtitle] = Held, !.texts = <<text>>] /\ o \in MMIRec
    BY <1>1, <1>2 DEF o
  <2> QED
    <3>1. /\ o.word \in [1..3 -> Words] /\ o.open \in BOOLEAN
          /\ DOMAIN o = {"open", "type", "word", "texts"}
      BY <2>2 DEF MMIRec
    <3>2. /\ mmi'.open = o.open /\ mmi'.type = "ENQ" /\ mmi'.texts = <<text>>
          /\ mmi'.word = [o.word EXCEPT ![Title] = Junk, ![Subtitle] = Held]
          /\ mmi' = [open |-> mmi'.open, type |-> mmi'.type, word |-> mmi'.word, texts |-> mmi'.texts]
      BY <2>2, <3>1 DEF MMIRec
    <3>3. mmi'.word \in [1..3 -> Words] /\ mmi'.word[Subtitle] = Held
      BY <3>1, <3>2 DEF Words, Junk, Held, Gone, Title, Subtitle
    <3> HIDE DEF o
    <3> QED
      BY <2>1, <3>1, <3>2, <3>3 DEF MMIRec, MMITypes
<1>4. DialogsTyped'
  BY <1>0, <1>1, <1>3 DEF DialogsTyped, BadlyFreed
<1>5. HeldAsTyped'
  BY <1>3 DEF HeldAsTyped, Frees
<1>6. badFree' => few'
  BY <1>0, <1>1, WellFreed
<1>7. TextsAreMeant' /\ TimeIsGiven'
  BY <1>1, <1>3 DEF DialogsIInv, TextsAreMeant, TimeIsGiven
<1> QED
  BY <1>4, <1>5, <1>6, <1>7 DEF DialogsIInv

LEMMA MenuInv ==
  ASSUME DialogsIInv, NEW texts \in Menus, MMIHandleMenu(texts)
  PROVE  DialogsIInv'
<1> DEFINE found == MMIGetTexts(texts)
           o == MMIFree(mmi)
           held == [i \in 1..3 |-> IF i <= Len(found) THEN Held ELSE o.word[i]]
<1>0. DialogsTyped /\ HeldAsTyped /\ (badFree => few) /\ mmi.open
  BY DEF DialogsIInv, MMIHandleMenu
<1>1. /\ badFree' = BadlyFreed(mmi) /\ few' = (few \/ Len(found) < Bottom) /\ UNCHANGED <<date, clock>>
      /\ mmi' = [o EXCEPT !.type = "MENU", !.texts = found, !.word = held]
      /\ meant' = texts
  BY DEF MMIHandleMenu, Dialog
<1>2. o \in MMIRec
  BY <1>0, FreedTyped
<1>3. texts \in Seq({"short", "long"})
  BY DialogsAssumption
<1>4. found \in Seq(TextKinds) /\ ((\A i \in DOMAIN texts : texts[i] # "long") => found = texts)
  BY <1>3, TextsFound
<1>5. Len(found) \in Nat
  BY <1>4
<1> HIDE DEF found, o
<1>6. held \in [1..3 -> Words]
  BY <1>2 DEF MMIRec, Words
<1>7. mmi' \in MMIRec /\ mmi'.type = "MENU" /\ mmi'.texts = found /\ mmi'.word = held
  <2> HIDE DEF held
  <2> QED
    BY <1>1, <1>2, <1>4, <1>6 DEF MMIRec, MMITypes
<1>8. DialogsTyped'
  BY <1>0, <1>1, <1>7 DEF DialogsTyped, BadlyFreed
<1>9. HeldAsTyped'
  <2> SUFFICES ASSUME ~few', NEW i \in Frees(mmi)' PROVE mmi'.word[i] = Held
    BY DEF HeldAsTyped
  <2>0. ~(Len(found) < Bottom)
    <3>1. SUFFICES ASSUME Len(found) < Bottom PROVE few' = TRUE
      OBVIOUS
    <3>2. (few \/ Len(found) < Bottom) = TRUE
      BY <3>1
    <3> QED
      BY <1>1, <3>2
  <2>1. Len(found) >= 3
    BY <1>5, <2>0 DEF Bottom
  <2>2. i \in 1..3
    BY <1>7 DEF Frees, Title, Subtitle, Bottom
  <2> QED
    BY <1>5, <1>7, <2>1, <2>2
<1>10. badFree' => few'
  BY <1>0, <1>1, WellFreed
<1>11. TextsAreMeant'
  BY <1>1, <1>4, <1>7 DEF TextsAreMeant
<1>12. TimeIsGiven'
  BY <1>1 DEF DialogsIInv, TimeIsGiven
<1> QED
  BY <1>8, <1>9, <1>10, <1>11, <1>12 DEF DialogsIInv

LEMMA DialogsKeep == DialogsIInv /\ [DialogsNext]_dialogs => DialogsIInv'
<1> SUFFICES ASSUME DialogsIInv, [DialogsNext]_dialogs PROVE DialogsIInv'
  OBVIOUS
<1>0. DialogsTyped /\ HeldAsTyped /\ (badFree => few) /\ TextsAreMeant /\ TimeIsGiven
  BY DEF DialogsIInv
<1>1. CASE MMIOpen
  <2>1. /\ mmi' = [mmi EXCEPT !.open = TRUE, !.type = "NONE", !.texts = <<>>] /\ meant' = <<>>
        /\ UNCHANGED <<few, badFree, date, clock>>
    BY <1>1 DEF MMIOpen, Dialog
  <2>2. mmi' \in MMIRec /\ mmi'.type = "NONE" /\ mmi'.texts = <<>>
    BY <1>0, <2>1, EmptySeq DEF DialogsTyped, MMIRec, MMITypes
  <2>3. HeldAsTyped' /\ TextsAreMeant'
    BY <2>1, <2>2 DEF HeldAsTyped, Frees, TextsAreMeant
  <2> QED
    BY <1>0, <2>1, <2>2, <2>3 DEF DialogsIInv, DialogsTyped, TimeIsGiven
<1>2. CASE \E text \in {"short", "long"} : MMIHandleEnq(text)
  BY <1>2, EnqInv
<1>3. CASE \E texts \in Menus : MMIHandleMenu(texts)
  BY <1>3, MenuInv
<1>4. CASE MMIClose
  <2>1. /\ badFree' = BadlyFreed(mmi) /\ mmi' = [MMIFree(mmi) EXCEPT !.open = FALSE]
        /\ UNCHANGED <<meant, few, date, clock>> /\ mmi.open
    BY <1>4 DEF MMIClose, Dialog
  <2>2. mmi' \in MMIRec /\ ~mmi'.open
    BY <1>0, <2>1, FreedTyped DEF MMIRec
  <2>3. badFree' => few'
    BY <1>0, <2>1, WellFreed
  <2>4. badFree' \in BOOLEAN
    BY <2>1 DEF BadlyFreed
  <2>5. DialogsTyped'
    BY <1>0, <2>1, <2>2, <2>4 DEF DialogsTyped
  <2>6. HeldAsTyped' /\ TextsAreMeant'
    BY <2>2 DEF HeldAsTyped, TextsAreMeant
  <2>7. TimeIsGiven'
    BY <1>0, <2>1 DEF TimeIsGiven
  <2> QED
    BY <2>3, <2>5, <2>6, <2>7 DEF DialogsIInv
<1>5. CASE UNCHANGED <<mmi, meant, few, badFree>> /\ date' \in DateRec /\ clock' \in Nat /\ TimeIsGiven'
  BY <1>0, <1>5 DEF DialogsIInv, DialogsTyped, HeldAsTyped, TextsAreMeant, Frees
<1>6. CASE DateTimeOpen
  BY <1>0, <1>5, <1>6 DEF DateTimeOpen, DateTimeSend, DialogsTyped, DateRec, TimeIsGiven
<1>7. CASE \E n \in Intervals : DateTimeHandle(n)
  <2>1. PICK n \in Intervals : DateTimeHandle(n)
    BY <1>7
  <2>2. n \in Nat
    BY DialogsAssumption
  <2> QED
    <3>1. date' = [[date EXCEPT !.open = TRUE, !.last = clock] EXCEPT !.interval = n] /\ clock' = clock
          /\ UNCHANGED <<mmi, meant, few, badFree>>
      BY <2>1 DEF DateTimeHandle, DateTimeSend
    <3>2. date' \in DateRec /\ date'.last = clock /\ date'.interval = n
      BY <1>0, <2>2, <3>1 DEF DialogsTyped, DateRec
    <3>3. clock' \in Nat /\ TimeIsGiven'
      BY <1>0, <2>2, <3>1, <3>2 DEF DialogsTyped, TimeIsGiven
    <3> QED
      BY <1>5, <3>1, <3>2, <3>3
<1>8. CASE DateTimeManage
  <2>1. clock' = clock + 1 /\ UNCHANGED <<mmi, meant, few, badFree>>
        /\ date' = IF date.open /\ date.interval # 0 /\ clock' > date.last + date.interval
                   THEN [date EXCEPT !.last = clock'] ELSE date
    BY <1>8 DEF DateTimeManage
  <2>2. clock' \in Nat /\ date' \in DateRec
    BY <1>0, <2>1 DEF DialogsTyped, DateRec
  <2>3. TimeIsGiven'
    BY <1>0, <2>1 DEF DialogsTyped, DateRec, TimeIsGiven
  <2> QED
    BY <1>5, <2>1, <2>2, <2>3
<1>9. CASE DateTimeClose
  BY <1>0, <1>5, <1>9 DEF DateTimeClose, DialogsTyped, DateRec, TimeIsGiven
<1>10. CASE UNCHANGED dialogs
  BY <1>0, <1>5, <1>10 DEF dialogs, DialogsTyped, TimeIsGiven
<1> QED
  BY <1>1, <1>2, <1>3, <1>4, <1>6, <1>7, <1>8, <1>9, <1>10 DEF DialogsNext

LEMMA DialogsStart == DialogsInit => DialogsIInv
<1> SUFFICES ASSUME DialogsInit PROVE DialogsIInv
  OBVIOUS
<1>1. mmi = NoMMI /\ meant = <<>> /\ ~few /\ ~badFree /\ clock = 0 /\ few \in BOOLEAN /\ badFree \in BOOLEAN
      /\ date = [open |-> FALSE, interval |-> 0, last |-> 0]
  BY DEF DialogsInit
<1>2. mmi \in MMIRec /\ ~mmi.open
  BY <1>1, EmptySeq DEF NoMMI, MMIRec, MMITypes, Words
<1>3. date \in DateRec /\ ~date.open
  BY <1>1 DEF DateRec
<1> QED
  BY <1>1, <1>2, <1>3 DEF DialogsIInv, DialogsTyped, HeldAsTyped, TextsAreMeant, TimeIsGiven

LEMMA DialogsAreSound == DialogsIInv => DialogsSound
  BY DEF DialogsIInv, TextsAreMeant, TimeIsGiven, DialogsSound

\* For any number of slots, retries and late answers a module's messages reach
\* its sessions in order, each once and none missed, no module is reset for
\* nothing, and what it shows and asks is kept, freed and answered.
THEOREM LinkIsSound == LinkSpec => []LinkSound
<1>1. TransportInit /\ [][TransportNext]_transport => []TransportIInv
  BY TransportStarts, TransportKeeps, PTL
<1>2. DialogsInit /\ [][DialogsNext]_dialogs => []DialogsIInv
  BY DialogsStart, DialogsKeep, PTL
<1>3. TransportIInv /\ DialogsIInv => LinkSound
  BY TransportIsInStep, DialogsAreSound DEF LinkSound
<1> QED
  BY <1>1, <1>2, <1>3, PTL DEF LinkSpec

\* Numbers have a last, too, if they have a bound.
LEMMA LastNumber ==
  ASSUME NEW T \in SUBSET Nat, T # {}, NEW n \in Nat, \A k \in T : k <= n
  PROVE  \E m \in T : \A k \in T : k <= m
<1> DEFINE D == {n - k : k \in T}
<1>1. D \in SUBSET Nat /\ D # {}
  <2>1. \A k \in T : n - k \in Nat
    OBVIOUS
  <2> QED
    BY <2>1
<1>2. PICK d \in D : \A e \in D : d <= e
  <2> HIDE DEF D
  <2> QED BY <1>1, FirstNumber
<1>3. PICK m \in T : d = n - m
  OBVIOUS
<1>4. ASSUME NEW k \in T PROVE k <= m
  <2>1. d <= n - k
    BY <1>2
  <2> QED
    BY <1>3, <2>1
<1> QED
  BY <1>4

\* A finite set with keys can be put in their order.
InOrder(key, f) == \A k, l \in DOMAIN f : k < l => key[f[k]] < key[f[l]]
CanBeSorted(key, S) == \E f \in [1..Cardinality(S) -> S] : InOrder(key, f)

LEMMA Sorting ==
  ASSUME NEW D, NEW key \in [D -> 0..15], NEW S \in SUBSET D, IsFiniteSet(S),
         \A i, j \in S : i # j => key[i] # key[j]
  PROVE  CanBeSorted(key, S)
<1>0. \A i \in D : key[i] \in Nat
  OBVIOUS
<1> DEFINE Apart(U) == \A i, j \in U : i # j => key[i] # key[j]
           Bad == {n \in Nat : \E U \in SUBSET D : IsFiniteSet(U) /\ Cardinality(U) = n /\ Apart(U) /\ ~CanBeSorted(key, U)}
<1>1. ASSUME Bad # {} PROVE FALSE
  <2>1. PICK m \in Bad : \A n \in Bad : m <= n
    BY <1>1, FirstNumber
  <2>2. m \in Nat
    OBVIOUS
  <2>3. PICK U \in SUBSET D : IsFiniteSet(U) /\ Cardinality(U) = m /\ Apart(U) /\ ~CanBeSorted(key, U)
    OBVIOUS
  <2>4. CASE m = 0
    <3>1. [k \in 1..0 |-> k] \in [1..0 -> U]
      OBVIOUS
    <3>2. InOrder(key, [k \in 1..0 |-> k])
      BY DEF InOrder
    <3>3. CanBeSorted(key, U)
      BY <2>3, <2>4, <3>1, <3>2 DEF CanBeSorted
    <3> QED
      BY <2>3, <3>3
  <2>5. CASE m # 0
    <3>1. U # {}
      BY <2>3, <2>5, FS_EmptySet
    <3> DEFINE K == {key[i] : i \in U}
    <3>2. K \in SUBSET Nat /\ K # {} /\ \A k \in K : k <= 15
      BY <3>1
    <3>3. PICK t \in K : \A k \in K : k <= t
      <4> HIDE DEF K
      <4> QED BY <3>2, LastNumber
    <3>4. PICK x \in U : t = key[x]
      OBVIOUS
    <3> DEFINE W == U \ {x}
    <3>5. IsFiniteSet(W) /\ Cardinality(W) = m - 1
      BY <2>3, FS_RemoveElement
    <3>6. m - 1 \in Nat /\ m - 1 \notin Bad
      <4>1. m - 1 \in Nat
        BY <2>2, <2>5
      <4>2. ~(m <= m - 1)
        BY <2>2
      <4> QED
        BY <2>1, <4>1, <4>2
    <3>7. CanBeSorted(key, W)
      <4>1. W \in SUBSET D /\ Apart(W)
        BY <2>3
      <4> QED
        BY <3>5, <3>6, <4>1
    <3>8. PICK g \in [1..(m - 1) -> W] : InOrder(key, g)
      BY <3>5, <3>7 DEF CanBeSorted
    <3> DEFINE f == [k \in 1..m |-> IF k = m THEN x ELSE g[k]]
    <3>9. f \in [1..m -> U]
      BY <2>2, <3>4, <3>8
    <3>10. ASSUME NEW k \in 1..m, NEW l \in 1..m, k < l PROVE key[f[k]] < key[f[l]]
      <4>1. k \in 1..(m - 1) /\ f[k] = g[k]
        BY <2>2, <3>10
      <4>2. CASE l = m
        <5>1. g[k] \in U /\ g[k] # x /\ f[l] = x
          BY <3>8, <4>1, <4>2
        <5>2. key[g[k]] <= key[x] /\ key[g[k]] # key[x]
          BY <2>3, <3>3, <3>4, <5>1
        <5>3. key[g[k]] \in Nat /\ key[x] \in Nat
          <6>1. g[k] \in D /\ x \in D
            BY <2>3, <3>4, <5>1
          <6> QED
            BY <1>0, <6>1
        <5>4. key[g[k]] < key[x]
          BY <5>2, <5>3
        <5> QED
          BY <4>1, <5>1, <5>4
      <4>3. CASE l # m
        <5>1. l \in 1..(m - 1) /\ f[l] = g[l]
          BY <2>2, <4>3
        <5> QED
          BY <3>8, <3>10, <4>1, <5>1 DEF InOrder
      <4> QED
        BY <4>2, <4>3
    <3>11. InOrder(key, f)
      <4>1. DOMAIN f = 1..m
        OBVIOUS
      <4> HIDE DEF f
      <4> QED BY <3>10, <4>1 DEF InOrder
    <3>12. CanBeSorted(key, U)
      <4> HIDE DEF f
      <4> QED BY <2>3, <3>9, <3>11 DEF CanBeSorted
    <3> QED
      BY <2>3, <3>12
  <2> QED
    BY <2>4, <2>5
<1>2. Cardinality(S) \in Nat
  BY FS_CardinalityType
<1> QED
  BY <1>1, <1>2

\* A set that has at least as many elements as another can name them all apart.
Names(D, T) == {f \in [D -> T] : \A p, q \in DOMAIN f : p # q => f[p] # f[q]}

LEMMA CanBeNamed ==
  ASSUME NEW D, NEW T, IsFiniteSet(D), IsFiniteSet(T), Cardinality(D) <= Cardinality(T)
  PROVE  Names(D, T) # {}
<1>1. Cardinality(D) \in Nat /\ Cardinality(T) \in Nat
  BY FS_CardinalityType
<1>2. PICK b \in Bijection(1..Cardinality(D), D) : TRUE
  BY FS_CardinalityType DEF ExistsBijection
<1>3. PICK e \in Bijection(1..Cardinality(T), T) : TRUE
  BY FS_CardinalityType DEF ExistsBijection
<1>4. /\ b \in [1..Cardinality(D) -> D] /\ \A p \in D : \E k \in 1..Cardinality(D) : b[k] = p
  BY <1>2 DEF Bijection, Surjection
<1>5. /\ e \in [1..Cardinality(T) -> T]
      /\ \A k, l \in 1..Cardinality(T) : e[k] = e[l] => k = l
  BY <1>3 DEF Bijection, Injection, IsInjective
<1> DEFINE at(p) == CHOOSE k \in 1..Cardinality(D) : b[k] = p
           f == [p \in D |-> e[at(p)]]
<1>6. \A p \in D : at(p) \in 1..Cardinality(D) /\ b[at(p)] = p
  BY <1>4
<1>7. \A p \in D : at(p) \in 1..Cardinality(T)
  BY <1>1, <1>6
<1> HIDE DEF at
<1>8. f \in [D -> T]
  BY <1>5, <1>7
<1>9. ASSUME NEW p \in D, NEW q \in D, f[p] = f[q] PROVE p = q
  <2>1. at(p) = at(q)
    BY <1>5, <1>7, <1>9
  <2> QED
    BY <1>6, <2>1
<1> QED
  BY <1>8, <1>9 DEF Names

-----------------------------------------------------------------------------
(* What listeners are told of an event. *)

Numbered(ds, lang) == {ds[i].number : i \in Extended(ds, lang)}

LEMMA Described ==
  ASSUME NEW ds \in Contents
  PROVE  DOMAIN ds = 1..Len(ds) /\ Len(ds) \in Nat /\ \A i \in DOMAIN ds : ds[i].number \in 0..15
<1>1. ds \in Seq([kind : STRING, lang : STRING, number : 0..15])
  BY EpgAssumption
<1>2. DOMAIN ds = 1..Len(ds) /\ Len(ds) \in Nat
  BY <1>1
<1>3. \A i \in 1..Len(ds) : ds[i] \in [kind : STRING, lang : STRING, number : 0..15]
  BY <1>1, ElementOfSeq
<1> QED
  BY <1>2, <1>3

\* Every number of a language is that of one part, the last which has it.
LEMMA PartsAreWhole ==
  ASSUME NEW ds \in Contents, NEW lang
  PROVE  /\ Parts(ds, lang) \in Seq(Extended(ds, lang))
         /\ \A k, l \in DOMAIN Parts(ds, lang) :
              k < l => ds[Parts(ds, lang)[k]].number < ds[Parts(ds, lang)[l]].number
         /\ {ds[Parts(ds, lang)[k]].number : k \in DOMAIN Parts(ds, lang)} = Numbered(ds, lang)
<1>2. DOMAIN ds = 1..Len(ds) /\ Len(ds) \in Nat /\ \A i \in DOMAIN ds : ds[i].number \in 0..15
  BY Described
<1> DEFINE E == Extended(ds, lang)
           P == {i \in E : \A j \in E : ds[j].number = ds[i].number => j <= i}
           key == [i \in DOMAIN ds |-> ds[i].number]
           n == Cardinality(P)
           f == Parts(ds, lang)
<1>3. E \subseteq 1..Len(ds) /\ P \subseteq E
  BY <1>2 DEF Extended
<1>4. IsFiniteSet(P)
  <2>1. IsFiniteSet(1..Len(ds))
    BY <1>2, FS_Interval
  <2>2. P \in SUBSET (1..Len(ds))
    BY <1>3
  <2> HIDE DEF P
  <2> QED BY <2>1, <2>2, FS_Subset
<1>5. \A i, j \in P : i # j => key[i] # key[j]
  <2>1. \A i, j \in P : ds[i].number = ds[j].number => i <= j /\ j <= i
    OBVIOUS
  <2>2. \A i, j \in P : i \in Int /\ j \in Int
    BY <1>3
  <2> QED
    BY <1>2, <1>3, <2>1, <2>2
<1>6. CanBeSorted(key, P)
  <2>1. key \in [DOMAIN ds -> 0..15]
    BY <1>2
  <2>2. P \in SUBSET DOMAIN ds
    BY <1>2, <1>3
  <2> HIDE DEF key, P
  <2> QED
    BY <1>4, <1>5, <2>1, <2>2, Sorting
<1>7. f \in [1..n -> P] /\ \A k, l \in DOMAIN f : k < l => ds[f[k]].number < ds[f[l]].number
  <2> DEFINE Ordered(g) == \A k, l \in DOMAIN g : k < l => ds[g[k]].number < ds[g[l]].number
  <2>1. PICK g \in [1..n -> P] : InOrder(key, g)
    BY <1>6 DEF CanBeSorted
  <2>2. Ordered(g)
    <3>1. \A k \in DOMAIN g : key[g[k]] = ds[g[k]].number
      BY <1>2, <1>3
    <3> HIDE DEF key
    <3> QED BY <2>1, <3>1 DEF InOrder
  <2>3. f = CHOOSE g1 \in [1..n -> P] : Ordered(g1)
    BY DEF Parts
  <2> HIDE DEF f, Ordered, n, P
  <2>4. f \in [1..n -> P] /\ Ordered(f)
    BY <2>1, <2>2, <2>3
  <2> QED
    BY <2>4 DEF Ordered
<1>8. n \in Nat
  BY <1>4, FS_CardinalityType
<1> HIDE DEF f, n
<1>9. f \in Seq(E)
  <2>1. f \in Seq(P)
    BY <1>7, <1>8
  <2> QED
    BY <1>3, <2>1
<1>10. ASSUME NEW i \in E PROVE \E k \in DOMAIN f : ds[f[k]].number = ds[i].number
  <2> DEFINE T == {j \in E : ds[j].number = ds[i].number}
  <2>1. T \in SUBSET Nat /\ T # {} /\ \A j \in T : j <= Len(ds)
    BY <1>2, <1>3
  <2>2. PICK j \in T : \A k \in T : k <= j
    <3> HIDE DEF T
    <3> QED BY <1>2, <2>1, LastNumber
  <2>3. j \in P
    BY <2>2
  <2>4. f \in Injection(1..n, P)
    <3>1. ASSUME NEW k \in 1..n, NEW l \in 1..n, f[k] = f[l] PROVE k = l
      <4>1. ds[f[k]].number \in Nat
        <5>1. f[k] \in P
          BY <1>7
        <5>2. f[k] \in 1..Len(ds)
          BY <1>3, <5>1
        <5>3. ds[f[k]].number \in 0..15
          BY <1>2, <5>2
        <5> QED BY <5>3
      <4>2. ~(k < l) /\ ~(l < k)
        BY <1>7, <3>1, <4>1
      <4>3. k \in Nat /\ l \in Nat
        BY <1>8
      <4> QED
        BY <4>2, <4>3
    <3>2. DOMAIN f = 1..n
      BY <1>7
    <3> QED
      BY <1>7, <3>1, <3>2 DEF Injection, IsInjective
  <2>5. f \in Surjection(1..n, P)
    <3>1. Cardinality(1..n) = n
      BY <1>8, FS_Interval
    <3> HIDE DEF P
    <3> QED BY <1>4, <2>4, <3>1, FS_Injection DEF n
  <2>6. PICK k \in 1..n : f[k] = j
    BY <2>3, <2>5 DEF Surjection
  <2> QED
    BY <1>7, <2>6
<1>11. {ds[f[k]].number : k \in DOMAIN f} = Numbered(ds, lang)
  <2>1. \A k \in DOMAIN f : f[k] \in E
    BY <1>3, <1>7
  <2> HIDE DEF E
  <2> QED BY <1>10, <2>1 DEF Numbered, E
<1> QED
  BY <1>7, <1>9, <1>11 DEF f

\* What was sent of an event is what ProcessEvent makes of it.
SentAsMade == messages.are = <<>> \/ (messages.of \in Contents /\ messages.are = ProcessEvent(messages.of))

\* An extended text whose parts are more than one is whole and in order.
Whole(ds, m) ==
  LET number(i) == ds[m.texts[i]].number
  IN Len(m.texts) > 1 =>
       /\ \A i, j \in DOMAIN m.texts : i < j => number(i) < number(j)
       /\ {number(i) : i \in DOMAIN m.texts} = {ds[i].number : i \in Extended(ds, m.lang)}

\* A descriptor brings messages with one text each.
LEMMA OneText == ASSUME NEW ds, NEW i, NEW n \in DOMAIN Sent(ds, i) PROVE Len(Sent(ds, i)[n].texts) = 1
<1>1. CASE ds[i].kind = "short"
  BY <1>1 DEF Sent, ShortEvent, Message
<1>2. CASE ds[i].kind = "rating"
  BY <1>2 DEF Sent, ParentalRating, Message
<1>3. CASE ds[i].kind = "crid"
  BY <1>3 DEF Sent, ContentId, Message
<1>4. CASE ds[i].kind = "title"
  BY <1>4 DEF Sent, TitleString, Message
<1>5. CASE ds[i].kind \notin {"short", "rating", "crid", "title"}
  BY <1>5 DEF Sent
<1> QED
  BY <1>1, <1>2, <1>3, <1>4, <1>5

\* One sequence after another after a third.
Joined(all, S, a, b, c) ==
  /\ all \in Seq(S) /\ Len(all) = Len(a) + Len(b) + Len(c)
  /\ \A i \in 1..Len(a) : all[i] = a[i]
  /\ \A i \in 1..Len(b) : all[Len(a) + i] = b[i]
  /\ \A i \in 1..Len(c) : all[Len(a) + Len(b) + i] = c[i]

LEMMA ThreeInOne ==
  ASSUME NEW S, NEW a \in Seq(S), NEW b \in Seq(S), NEW c \in Seq(S)
  PROVE  Joined(a \o b \o c, S, a, b, c)
<1>1. /\ a \o b \in Seq(S) /\ Len(a \o b) = Len(a) + Len(b)
      /\ \A i \in 1..Len(a) + Len(b) : (a \o b)[i] = IF i <= Len(a) THEN a[i] ELSE b[i - Len(a)]
  BY ConcatProperties
<1> DEFINE ab == a \o b
<1>2. /\ ab \o c \in Seq(S) /\ Len(ab \o c) = Len(ab) + Len(c)
      /\ \A i \in 1..Len(ab) + Len(c) : (ab \o c)[i] = IF i <= Len(ab) THEN ab[i] ELSE c[i - Len(ab)]
  <2> HIDE DEF ab
  <2>1. ab \in Seq(S)
    BY <1>1 DEF ab
  <2> QED BY <2>1, ConcatProperties
<1>3. Len(a) \in Nat /\ Len(b) \in Nat /\ Len(c) \in Nat
  OBVIOUS
<1> DEFINE abc == ab \o c
<1>4. abc = a \o b \o c
  OBVIOUS
<1>5. ab = a \o b
  OBVIOUS
<1> HIDE DEF ab, abc
<1>6. \A i \in 1..Len(a) : abc[i] = a[i]
  BY <1>1, <1>2, <1>3, <1>5 DEF abc
<1>7. \A i \in 1..Len(b) : abc[Len(a) + i] = b[i]
  BY <1>1, <1>2, <1>3, <1>5 DEF abc
<1>8. \A i \in 1..Len(c) : abc[Len(a) + Len(b) + i] = c[i]
  BY <1>1, <1>2, <1>3, <1>5 DEF abc
<1>9. abc \in Seq(S) /\ Len(abc) = Len(a) + Len(b) + Len(c)
  BY <1>1, <1>2, <1>3, <1>5 DEF abc
<1>10. Joined(abc, S, a, b, c)
  BY <1>6, <1>7, <1>8, <1>9 DEF Joined
<1> QED
  BY <1>4, <1>10

LEMMA EventIsWhole ==
  ASSUME NEW ds \in Contents, NEW k \in DOMAIN ProcessEvent(ds), NEW n \in DOMAIN ProcessEvent(ds)[k]
  PROVE  Whole(ds, ProcessEvent(ds)[k][n])
<1> DEFINE are == ProcessEvent(ds)
           first == <<<<Message("new", "none", <<>>)>>>>
           single == [i \in DOMAIN ds |-> Sent(ds, i)]
           joined == [i \in DOMAIN ds |-> Together(ds, i)]
           S == {first[1]} \cup {single[i] : i \in DOMAIN ds} \cup {joined[i] : i \in DOMAIN ds}
<1>2. are = first \o single \o joined
  BY DEF ProcessEvent
<1>3. PICK L \in Nat : L = Len(ds) /\ DOMAIN ds = 1..L
  BY Described
<1>0. are = ProcessEvent(ds) /\ k \in DOMAIN are /\ n \in DOMAIN are[k]
  OBVIOUS
<1> HIDE DEF are
<1>4. /\ k \in Nat /\ 1 <= k /\ k <= 1 + L + L
      /\ are[1] = <<Message("new", "none", <<>>)>>
      /\ \A i \in 1..L : are[1 + i] = Sent(ds, i) /\ are[1 + L + i] = Together(ds, i)
  <2>1. Len(first) = 1 /\ first \in Seq(S)
    OBVIOUS
  <2>2. Len(single) = L /\ single \in Seq(S)
    <3>1. single \in [1..L -> S]
      BY <1>3
    <3> HIDE DEF single, S
    <3> QED BY <3>1
  <2>3. Len(joined) = L /\ joined \in Seq(S)
    <3>1. joined \in [1..L -> S]
      BY <1>3
    <3> HIDE DEF joined, S
    <3> QED BY <3>1
  <2>4. \A i \in 1..L : single[i] = Sent(ds, i) /\ joined[i] = Together(ds, i)
    BY <1>3
  <2>5. first[1] = <<Message("new", "none", <<>>)>>
    OBVIOUS
  <2> HIDE DEF first, single, joined, S
  <2>6. /\ are \in Seq(S) /\ Len(are) = 1 + L + L
        /\ \A i \in 1..1 : are[i] = first[i]
        /\ \A i \in 1..L : are[1 + i] = single[i]
        /\ \A i \in 1..L : are[1 + L + i] = joined[i]
    <3> DEFINE all == first \o single \o joined
    <3>1. Joined(all, S, first, single, joined)
      BY <2>1, <2>2, <2>3, ThreeInOne
    <3>2. are = all
      BY <1>2
    <3> HIDE DEF all
    <3> QED BY <2>1, <2>2, <2>3, <3>1, <3>2 DEF Joined
  <2>7. k \in 1..(1 + L + L)
    BY <1>0, <2>6
  <2> QED
    BY <1>3, <2>4, <2>5, <2>6, <2>7
<1> HIDE DEF single, joined, S, first
<1>5. CASE k = 1
  <2>1. are[k] = <<Message("new", "none", <<>>)>>
    BY <1>4, <1>5
  <2>2. are[k][n] = Message("new", "none", <<>>)
    <3>1. n = 1
      BY <1>0, <2>1
    <3> QED BY <2>1, <3>1
  <2>3. Len(are[k][n].texts) = 0
    BY <2>2 DEF Message
  <2> QED
    BY <1>0, <2>3 DEF Whole
<1>6. CASE k # 1 /\ k <= 1 + L
  <2>1. k - 1 \in 1..L /\ are[k] = Sent(ds, k - 1)
    <3>1. k - 1 \in 1..L /\ k = 1 + (k - 1)
      BY <1>3, <1>4, <1>6
    <3> QED
      BY <1>4, <3>1
  <2>2. Len(are[k][n].texts) = 1
    BY <1>0, <2>1, OneText
  <2> QED
    BY <1>0, <2>2 DEF Whole
<1>7. CASE 1 + L < k
  <2> DEFINE i == k - (1 + L)
             lang == ds[i].lang
  <2>1. i \in 1..L /\ are[k] = Together(ds, i)
    <3>1. i \in 1..L /\ k = 1 + L + i
      BY <1>3, <1>4, <1>7
    <3> HIDE DEF i
    <3> QED
      BY <1>4, <3>1
  <2> HIDE DEF i
  <2>2. are[k][n] = Message("description", lang, Parts(ds, lang))
    BY <1>0, <2>1 DEF Together
  <2> DEFINE m == are[k][n]
  <2>3. m.texts = Parts(ds, lang) /\ m.lang = lang
    BY <2>2 DEF Message
  <2> HIDE DEF m, lang
  <2>4. /\ \A x, y \in DOMAIN m.texts : x < y => ds[m.texts[x]].number < ds[m.texts[y]].number
        /\ {ds[m.texts[x]].number : x \in DOMAIN m.texts} = {ds[x].number : x \in Extended(ds, m.lang)}
    <3>1. /\ \A x, y \in DOMAIN Parts(ds, lang) : x < y => ds[Parts(ds, lang)[x]].number < ds[Parts(ds, lang)[y]].number
          /\ {ds[Parts(ds, lang)[x]].number : x \in DOMAIN Parts(ds, lang)} = {ds[x].number : x \in Extended(ds, lang)}
      BY PartsAreWhole DEF Numbered
    <3> QED BY <2>3, <3>1
  <2>5. Whole(ds, m)
    BY <2>4 DEF Whole
  <2> QED
    BY <1>0, <2>5 DEF m
<1> QED
  BY <1>3, <1>4, <1>5, <1>6, <1>7 DEF are

LEMMA MessagesAreWhole ==
  ASSUME SentAsMade
  PROVE  \A k \in DOMAIN messages.are : \A n \in DOMAIN messages.are[k] : Whole(messages.of, messages.are[k][n])
  BY EventIsWhole DEF SentAsMade

LEMMA SentAsMadeKept == ASSUME SentAsMade, [EpgNext]_epg PROVE SentAsMade'
<1>1. CASE \E ds \in Contents : ShowEvent(ds)
  BY <1>1 DEF SentAsMade, ShowEvent
<1>2. CASE UNCHANGED messages
  BY <1>2 DEF SentAsMade
<1>3. CASE WriteOn \/ PrintEvent \/ (\E events : ProcessPFEIT(events)) \/ \E i : CommandNow(i)
  <2>1. UNCHANGED messages
    BY <1>3, Zenon DEF WriteOn, PrintEvent, ProcessPFEIT, CommandNow
  <2> QED
    BY <1>2, <2>1
<1> QED
  BY <1>1, <1>2, <1>3 DEF EpgNext, Command, CommandGoesOn, Tune, FilterGroupEventCallback, NewMGT, NewVersion,
     FrontEndTuned, ProcessEIT, DeferredProcessEIT, epg

-----------------------------------------------------------------------------
(* The capture. *)

\* The PIDs there can be, and what a group or the tables have: a decoder for some.
AllPids == DVBPids \cup UNION {OnAir[m] : m \in DOMAIN OnAir}
Pids == {S \in SUBSET AllPids : IsFiniteSet(S)}
PIDFilters == UNION {[S -> Nat] : S \in Pids}
Capture ==
  [groups : UNION {[G -> PIDFilters] : G \in SUBSET (1..MaxGroups)}, tsgroup : 0..MaxGroups,
   attached : SUBSET (Nat \ {NoDecoder}), twice : BOOLEAN, tables : PIDFilters]

\* What may remain of a command.
Restoring == {<<"attach">>, <<"create", "attach">>, <<"detach", "attach">>, <<"remove", "detach", "attach">>}
Destroyed == {<<"clear">>, <<"detach", "clear">>}
StoppingDVB == Destroyed \cup {<<"destroy", "detach", "clear">>}
StoppingATSC == {<<"destroy">>, <<"detach", "destroy">>, <<"remove", "detach", "destroy">>}
Remains ==
  {<<>>} \cup (IF standard = "DVB" THEN Restoring \cup StoppingDVB
               ELSE IF standard = "ATSC" THEN Restoring \cup StoppingATSC ELSE {})

EpgTyped ==
  /\ standard \in {"DVB", "ATSC", "now", "sent"} /\ onAir \in DOMAIN OnAir
  /\ unaware \in BOOLEAN /\ mgt \in BOOLEAN /\ raced \in BOOLEAN /\ forgotten \in BOOLEAN
  /\ doubled \in BOOLEAN /\ misfed \in BOOLEAN
  /\ capture \in Capture
  /\ calls \in [Caller -> Remains]

\* Only ATSC has an MGT.
MGTOfATSC == mgt => standard = "ATSC"

\* What is not a capture has none.
NothingElse == standard \in {"now", "sent"} => ~unaware /\ DOMAIN capture.groups = {}

\* At most two commands meet, since none is made after that.
TwoAtMost ==
  \A x, y \in Caller : x # y /\ Busy(x) /\ Busy(y) =>
    raced /\ \A z \in Caller \ {x, y} : ~Busy(z)

TablesAreKnown ==
  /\ standard = "DVB" => DOMAIN capture.tables = DVBPids
  /\ standard = "ATSC" /\ mgt /\ ~forgotten => DOMAIN capture.tables = OnAir[onAir]

\* A group that is noted exists, unless a stop that destroyed it is under way.
NotedExists ==
  capture.tsgroup # NoGroup /\ ~Exists(capture) => \E x \in Caller : calls[x] \in Destroyed

\* Unless a command is under way, the group captures what it should.
Complete ==
  (/\ Exists(capture) /\ ~unaware /\ ~forgotten /\ ~misfed
   /\ (standard = "ATSC" => mgt) /\ \A x \in Caller : ~Busy(x))
    => DOMAIN capture.groups[capture.tsgroup] = IF standard = "ATSC" THEN OnAir[onAir] ELSE DVBPids

\* While capture was not started twice there is no other group, and none at all
\* once a stop has destroyed it; to that end none may be made before it has
\* noted so, unless it met another stop.
NoOther ==
  /\ ~doubled => DOMAIN capture.groups \subseteq {capture.tsgroup}
  /\ \A x \in Caller : calls[x] \in Destroyed /\ ~doubled => DOMAIN capture.groups = {}
  /\ \A x \in Caller : calls[x] \in StoppingDVB /\ capture.tsgroup = NoGroup =>
       raced /\ \A y \in Caller : calls[y] # <<"create", "attach">>

\* While nothing raced: every filter has a decoder that is attached;
FiltersLive == \A g \in DOMAIN capture.groups : Values(capture.groups[g]) \subseteq capture.attached

\* so have the tables of a group until a command has detached them,
TablesLive ==
  (/\ capture.tsgroup # NoGroup
   /\ \A x \in Caller : calls[x] \notin {<<"attach">>, <<"clear">>})
    => Values(capture.tables) \subseteq capture.attached

\* for which the group has no filters left;
FiltersFirst ==
  \A x \in Caller : Busy(x) /\ Head(calls[x]) = "detach" /\ Exists(capture) =>
    capture.groups[capture.tsgroup] = <<>>

\* no other group has one of theirs;
OthersApart ==
  (\A x \in Caller : calls[x] # <<"attach">>)
    => \A g \in DOMAIN capture.groups \ {capture.tsgroup} :
         Values(capture.groups[g]) \cap DecodersOf(capture) = {}

\* and a group is noted while a command goes on with it.
GroupNoted == \A x \in Caller : Busy(x) /\ Head(calls[x]) # "create" => capture.tsgroup # NoGroup

DecodersLive == ~raced => FiltersLive /\ TablesLive /\ FiltersFirst /\ OthersApart /\ GroupNoted

FedRight == (misfed => raced) /\ (capture.twice => misfed)

CaptureInv ==
  /\ EpgTyped /\ MGTOfATSC /\ NothingElse /\ TwoAtMost /\ TablesAreKnown /\ NotedExists /\ Complete
  /\ NoOther /\ DecodersLive /\ FedRight

\* What a filter group or the tables have, and what there is to refer to.
LEMMA FiltersAre ==
  ASSUME NEW f \in PIDFilters
  PROVE  /\ DOMAIN f \in Pids /\ f \in [DOMAIN f -> Nat] /\ \A p \in DOMAIN f : f[p] \in Nat
         /\ IsFiniteSet(Values(f)) /\ Values(f) \subseteq Nat
<1>1. PICK S \in Pids : f \in [S -> Nat]
  BY DEF PIDFilters
<1>2. DOMAIN f = S /\ IsFiniteSet(S)
  BY <1>1 DEF Pids
<1>3. f \in Surjection(S, Values(f))
  BY <1>1 DEF Surjection, Values
<1>4. IsFiniteSet(Values(f))
  BY <1>2, <1>3, FS_Surjection
<1> QED
  BY <1>1, <1>2, <1>4 DEF Values

LEMMA AreFilters ==
  ASSUME NEW S \in Pids, NEW f \in [S -> Nat]
  PROVE  f \in PIDFilters
  BY DEF PIDFilters

LEMMA CaptureIs ==
  ASSUME NEW c \in Capture
  PROVE  /\ DOMAIN c = {"groups", "tsgroup", "attached", "twice", "tables"}
         /\ DOMAIN c.groups \subseteq 1..MaxGroups /\ \A g \in DOMAIN c.groups : c.groups[g] \in PIDFilters
         /\ c.groups = [g \in DOMAIN c.groups |-> c.groups[g]]
         /\ c.tsgroup \in 0..MaxGroups /\ c.twice \in BOOLEAN /\ c.tables \in PIDFilters
         /\ c.attached \subseteq Nat \ {NoDecoder}
<1>1. PICK G \in SUBSET (1..MaxGroups) : c.groups \in [G -> PIDFilters]
  BY DEF Capture
<1>2. DOMAIN c.groups \subseteq 1..MaxGroups /\ \A g \in DOMAIN c.groups : c.groups[g] \in PIDFilters
  BY <1>1
<1>3. c.groups = [g \in DOMAIN c.groups |-> c.groups[g]]
  BY <1>1
<1>4. c.tsgroup \in 0..MaxGroups /\ c.twice \in BOOLEAN /\ c.tables \in PIDFilters
      /\ c.attached \in SUBSET (Nat \ {NoDecoder})
  BY DEF Capture
<1>5. DOMAIN c = {"groups", "tsgroup", "attached", "twice", "tables"}
  BY DEF Capture
<1> QED
  BY <1>2, <1>3, <1>4, <1>5

LEMMA IsCapture ==
  ASSUME NEW G \in SUBSET (1..MaxGroups), NEW gs \in [G -> PIDFilters], NEW t \in 0..MaxGroups, NEW w \in BOOLEAN,
         NEW ts \in PIDFilters, NEW a \in SUBSET (Nat \ {NoDecoder})
  PROVE  [groups |-> gs, tsgroup |-> t, attached |-> a, twice |-> w, tables |-> ts] \in Capture
  BY DEF Capture

LEMMA ReferredIsFinite ==
  ASSUME NEW c \in Capture
  PROVE  IsFiniteSet(Referred(c)) /\ Referred(c) \subseteq Nat /\ Cardinality(Referred(c)) \in Nat
<1> DEFINE G == DOMAIN c.groups
           V == {Values(c.groups[g]) : g \in G}
           v == [g \in G |-> Values(c.groups[g])]
<1>1. G \subseteq 1..MaxGroups /\ \A g \in G : c.groups[g] \in PIDFilters
  BY CaptureIs
<1>2. IsFiniteSet(G)
  <2>1. IsFiniteSet(1..MaxGroups)
    BY EpgAssumption, FS_Interval
  <2> QED
    BY <1>1, <2>1, FS_Subset
<1>3. IsFiniteSet(V)
  <2>1. v \in Surjection(G, V)
    BY DEF Surjection
  <2> HIDE DEF v, V, G
  <2> QED
    BY <1>2, <2>1, FS_Surjection
<1>4. \A T \in V : IsFiniteSet(T) /\ T \subseteq Nat
  BY <1>1, FiltersAre
<1>5. IsFiniteSet(UNION V) /\ UNION V \subseteq Nat
  <2> HIDE DEF V
  <2> QED BY <1>3, <1>4, FS_UNION
<1>6. IsFiniteSet(Values(c.tables)) /\ Values(c.tables) \subseteq Nat
  BY CaptureIs, FiltersAre
<1>7. Referred(c) = (UNION V) \cup Values(c.tables)
  BY DEF Referred
<1> HIDE DEF V
<1>8. IsFiniteSet(Referred(c)) /\ Referred(c) \subseteq Nat
  <2>1. IsFiniteSet((UNION V) \cup Values(c.tables))
    BY <1>5, <1>6, FS_Union
  <2> QED BY <1>5, <1>6, <1>7, <2>1
<1> QED
  BY <1>8, FS_CardinalityType

\* What is attached anew, nobody has.
LEMMA FreshAre ==
  ASSUME NEW c \in Capture
  PROVE  /\ Fresh(c) \in PIDFilters /\ DOMAIN Fresh(c) = DOMAIN c.tables
         /\ Values(Fresh(c)) \cap Referred(c) = {}
         /\ Values(Fresh(c)) \subseteq Nat \ {NoDecoder}
<1> DEFINE D == DOMAIN c.tables
           R == Referred(c)
           n == Cardinality(R) + Cardinality(D)
           T == 1..n \ R
<1>1. IsFiniteSet(R) /\ R \subseteq Nat /\ Cardinality(R) \in Nat
  BY ReferredIsFinite
<1>2. D \in Pids /\ IsFiniteSet(D) /\ Cardinality(D) \in Nat
  BY CaptureIs, FiltersAre, FS_CardinalityType DEF Pids
<1>3. IsFiniteSet(T) /\ Cardinality(D) <= Cardinality(T)
  <2>1. n \in Nat
    BY <1>1, <1>2
  <2>2. IsFiniteSet(1..n) /\ Cardinality(1..n) = n
    BY <2>1, FS_Interval
  <2>3. IsFiniteSet(T) /\ Cardinality(T) = n - Cardinality((1..n) \cap R)
    BY <2>2, FS_Difference
  <2>4. IsFiniteSet((1..n) \cap R) /\ Cardinality((1..n) \cap R) <= Cardinality(R)
    BY <1>1, FS_Intersection
  <2>5. Cardinality((1..n) \cap R) \in Nat
    BY <2>4, FS_CardinalityType
  <2> QED
    BY <1>1, <1>2, <2>3, <2>4, <2>5
<1>4. Fresh(c) \in Names(D, T)
  <2>1. Names(D, T) # {}
    BY <1>2, <1>3, CanBeNamed
  <2>2. \E f \in [D -> T] : \A p, q \in DOMAIN f : p # q => f[p] # f[q]
    BY <2>1 DEF Names
  <2> DEFINE Apart(f) == \A p, q \in DOMAIN f : p # q => f[p] # f[q]
  <2>3. Fresh(c) = CHOOSE f \in [D -> T] : Apart(f)
    BY DEF Fresh
  <2>4. \E f \in [D -> T] : Apart(f)
    BY <2>2
  <2> HIDE DEF Apart
  <2>5. Fresh(c) \in [D -> T] /\ Apart(Fresh(c))
    BY <2>3, <2>4
  <2> QED
    BY <2>5 DEF Names, Apart
<1>5. Fresh(c) \in [D -> T]
  BY <1>4 DEF Names
<1>6. T \subseteq Nat \ {NoDecoder} /\ T \cap R = {}
  BY <1>1, <1>2 DEF NoDecoder
<1> HIDE DEF T
<1>7. Values(Fresh(c)) \subseteq T /\ DOMAIN Fresh(c) = D
  BY <1>5 DEF Values
<1>8. Fresh(c) \in PIDFilters
  <2>1. Fresh(c) \in [D -> Nat]
    BY <1>5, <1>6
  <2> QED
    BY <1>2, <2>1, AreFilters
<1> QED
  BY <1>6, <1>7, <1>8

\* What becomes of the capture; all of it stays what a capture is.
LEMMA NoFilters == <<>> \in PIDFilters /\ DOMAIN <<>> = {} /\ Values(<<>>) = {}
<1>1. {} \in Pids
  BY FS_EmptySet DEF Pids
<1>2. <<>> \in [{} -> Nat]
  OBVIOUS
<1> QED
  BY <1>1, <1>2, AreFilters DEF Values

LEMMA GroupsAre ==
  ASSUME NEW c \in Capture, NEW gs, DOMAIN gs \subseteq 1..MaxGroups, gs = [g \in DOMAIN gs |-> gs[g]],
         \A g \in DOMAIN gs : gs[g] \in PIDFilters
  PROVE  gs \in UNION {[G -> PIDFilters] : G \in SUBSET (1..MaxGroups)}
<1>1. gs \in [DOMAIN gs -> PIDFilters]
  OBVIOUS
<1> QED
  BY <1>1

LEMMA Created ==
  ASSUME NEW c \in Capture, Cardinality(DOMAIN c.groups) < MaxGroups
  PROVE  LET d == CreateGroup(c) IN
         /\ d \in Capture
         /\ d.tsgroup \in 1..MaxGroups \ DOMAIN c.groups
         /\ DOMAIN d.groups = DOMAIN c.groups \cup {d.tsgroup}
         /\ d.groups[d.tsgroup] = <<>> /\ \A g \in DOMAIN c.groups : d.groups[g] = c.groups[g]
         /\ d.attached = c.attached /\ d.twice = c.twice /\ d.tables = c.tables
<1> DEFINE G == DOMAIN c.groups
           g == CHOOSE n \in 1..MaxGroups : n \notin G
           gs == [n \in G \cup {g} |-> IF n = g THEN <<>> ELSE c.groups[n]]
           d == CreateGroup(c)
<1>1. G \subseteq 1..MaxGroups
  BY CaptureIs
<1>2. g \in 1..MaxGroups /\ g \notin G
  <2>1. IsFiniteSet(1..MaxGroups) /\ Cardinality(1..MaxGroups) = MaxGroups
    BY EpgAssumption, FS_Interval
  <2>2. G # 1..MaxGroups
    BY <2>1, EpgAssumption
  <2> HIDE DEF G
  <2>3. \E n \in 1..MaxGroups : n \notin G
    BY <1>1, <2>2
  <2> QED
    BY <2>3
<1>3. d = [c EXCEPT !.groups = gs, !.tsgroup = g]
  BY DEF CreateGroup
<1>4. DOMAIN gs = G \cup {g} /\ gs[g] = <<>> /\ \A n \in G : gs[n] = c.groups[n]
  BY <1>2
<1>5. gs \in UNION {[H -> PIDFilters] : H \in SUBSET (1..MaxGroups)}
  <2>1. \A n \in G \cup {g} : gs[n] \in PIDFilters
    BY <1>2, <1>4, CaptureIs, NoFilters
  <2>2. gs = [n \in DOMAIN gs |-> gs[n]]
    OBVIOUS
  <2>3. DOMAIN gs \subseteq 1..MaxGroups
    BY <1>1, <1>2, <1>4
  <2> HIDE DEF gs, G, g
  <2> QED
    BY <1>4, <2>1, <2>2, <2>3, GroupsAre
<1> HIDE DEF gs, g, G, d
<1>6. /\ d.groups = gs /\ d.tsgroup = g
      /\ d.attached = c.attached /\ d.twice = c.twice /\ d.tables = c.tables
  BY <1>3, CaptureIs
<1>7. d \in Capture
  <2>1. g \in 0..MaxGroups
    BY <1>2
  <2> QED
    BY <1>3, <1>5, <2>1 DEF Capture
<1> QED
  BY <1>2, <1>4, <1>6, <1>7 DEF d, G

LEMMA DestroyedIs ==
  ASSUME NEW c \in Capture
  PROVE  LET d == DestroyGroup(c) IN
         /\ d \in Capture
         /\ DOMAIN d.groups = DOMAIN c.groups \ {c.tsgroup}
         /\ \A g \in DOMAIN d.groups : d.groups[g] = c.groups[g]
         /\ d.tsgroup = c.tsgroup /\ d.attached = c.attached /\ d.twice = c.twice /\ d.tables = c.tables
<1> DEFINE G == DOMAIN c.groups \ {c.tsgroup}
           gs == [n \in G |-> c.groups[n]]
           d == DestroyGroup(c)
<1>1. d = [c EXCEPT !.groups = gs]
  BY DEF DestroyGroup
<1>2. DOMAIN gs = G /\ \A n \in G : gs[n] = c.groups[n] /\ gs[n] \in PIDFilters
  BY CaptureIs
<1>3. gs = [n \in DOMAIN gs |-> gs[n]] /\ DOMAIN gs \subseteq 1..MaxGroups
  BY CaptureIs
<1>4. G \subseteq DOMAIN c.groups
  OBVIOUS
<1> HIDE DEF gs, d
<1>5. gs \in UNION {[H -> PIDFilters] : H \in SUBSET (1..MaxGroups)}
  BY <1>2, <1>3, GroupsAre
<1>6. /\ d.groups = gs /\ d.tsgroup = c.tsgroup
      /\ d.attached = c.attached /\ d.twice = c.twice /\ d.tables = c.tables
  BY <1>1, CaptureIs
<1>7. d \in Capture
  BY <1>1, <1>5 DEF Capture
<1> QED
  BY <1>2, <1>6, <1>7 DEF d

LEMMA RemovedIs ==
  ASSUME NEW c \in Capture
  PROVE  LET d == RemoveFilters(c) IN
         /\ d \in Capture
         /\ DOMAIN d.groups = DOMAIN c.groups
         /\ \A g \in DOMAIN c.groups : d.groups[g] = IF g = c.tsgroup THEN <<>> ELSE c.groups[g]
         /\ d.tsgroup = c.tsgroup /\ d.attached = c.attached /\ d.twice = c.twice /\ d.tables = c.tables
<1> DEFINE gs == [c.groups EXCEPT ![c.tsgroup] = <<>>]
           d == RemoveFilters(c)
<1>1. CASE Exists(c)
  <2>1. d = [c EXCEPT !.groups = gs]
    BY <1>1, CaptureIs DEF RemoveFilters
  <2>2. DOMAIN gs = DOMAIN c.groups /\ \A n \in DOMAIN gs : gs[n] = IF n = c.tsgroup THEN <<>> ELSE c.groups[n]
    BY CaptureIs
  <2>3. gs = [n \in DOMAIN gs |-> gs[n]] /\ DOMAIN gs \subseteq 1..MaxGroups
    BY CaptureIs
  <2>4. \A n \in DOMAIN gs : gs[n] \in PIDFilters
    BY <2>2, CaptureIs, NoFilters
  <2> HIDE DEF gs, d
  <2>5. gs \in UNION {[H -> PIDFilters] : H \in SUBSET (1..MaxGroups)}
    BY <2>3, <2>4, GroupsAre
  <2>6. /\ d.groups = gs /\ d.tsgroup = c.tsgroup
        /\ d.attached = c.attached /\ d.twice = c.twice /\ d.tables = c.tables
    BY <2>1, CaptureIs
  <2>7. d \in Capture
    BY <2>1, <2>5 DEF Capture
  <2> QED
    BY <2>2, <2>6, <2>7 DEF d
<1>2. CASE ~Exists(c)
  BY <1>2 DEF RemoveFilters, Exists
<1> QED
  BY <1>1, <1>2

LEMMA DetachedIs ==
  ASSUME NEW c \in Capture
  PROVE  LET d == DetachDecoders(c) IN
         /\ d \in Capture
         /\ d.attached = c.attached \ DecodersOf(c)
         /\ d.twice <=> (c.twice \/ \E p \in DOMAIN c.tables : c.tables[p] \notin c.attached)
         /\ d.groups = c.groups /\ d.tsgroup = c.tsgroup /\ d.tables = c.tables
<1> DEFINE w == c.twice \/ \E p \in DOMAIN c.tables : c.tables[p] \notin c.attached
           a == c.attached \ DecodersOf(c)
           d == DetachDecoders(c)
<1>1. d = [c EXCEPT !.attached = a, !.twice = w]
  BY DEF DetachDecoders
<1>2. a \in SUBSET (Nat \ {NoDecoder}) /\ w \in BOOLEAN
  BY CaptureIs
<1> HIDE DEF a, d, w
<1>3. d.attached = a /\ d.twice = w /\ d.groups = c.groups /\ d.tsgroup = c.tsgroup /\ d.tables = c.tables
  BY <1>1, CaptureIs
<1>4. d \in Capture
  BY <1>1, <1>2 DEF Capture
<1> QED
  BY <1>3, <1>4 DEF a, d, w

LEMMA AttachedIs ==
  ASSUME NEW c \in Capture
  PROVE  LET d == AttachDecoders(c) IN
         /\ d \in Capture
         /\ d.tables = Fresh(c)
         /\ d.attached = (c.attached \cap Referred(c)) \cup Values(Fresh(c))
         /\ DOMAIN d.groups = DOMAIN c.groups
         /\ \A g \in DOMAIN c.groups : d.groups[g] = IF g = c.tsgroup THEN Fresh(c) ELSE c.groups[g]
         /\ d.tsgroup = c.tsgroup /\ d.twice = c.twice
<1> DEFINE fresh == Fresh(c)
           gs == [g \in DOMAIN c.groups |-> IF g = c.tsgroup THEN fresh ELSE c.groups[g]]
           a == (c.attached \cap Referred(c)) \cup Values(fresh)
           d == AttachDecoders(c)
<1>1. d = [c EXCEPT !.tables = fresh, !.attached = a, !.groups = gs]
  BY DEF AttachDecoders
<1>2. a \in SUBSET (Nat \ {NoDecoder}) /\ fresh \in PIDFilters
  BY CaptureIs, FreshAre
<1>3. DOMAIN gs = DOMAIN c.groups /\ \A n \in DOMAIN gs : gs[n] = IF n = c.tsgroup THEN fresh ELSE c.groups[n]
  OBVIOUS
<1>4. gs = [n \in DOMAIN gs |-> gs[n]] /\ DOMAIN gs \subseteq 1..MaxGroups
  BY CaptureIs
<1> HIDE DEF fresh, gs
<1>5. \A n \in DOMAIN gs : gs[n] \in PIDFilters
  BY <1>2, <1>3, CaptureIs
<1>6. gs \in UNION {[H -> PIDFilters] : H \in SUBSET (1..MaxGroups)}
  BY <1>4, <1>5, GroupsAre
<1> HIDE DEF a, d
<1>7. d.tables = fresh /\ d.attached = a /\ d.groups = gs /\ d.tsgroup = c.tsgroup /\ d.twice = c.twice
  BY <1>1, CaptureIs
<1>8. d \in Capture
  BY <1>1, <1>2, <1>6 DEF Capture
<1> QED
  BY <1>3, <1>7, <1>8 DEF a, d, fresh

LEMMA WithTables ==
  ASSUME NEW c \in Capture, NEW ts \in PIDFilters
  PROVE  LET d == [c EXCEPT !.tables = ts] IN
         /\ d \in Capture
         /\ d.tables = ts /\ d.groups = c.groups /\ d.tsgroup = c.tsgroup /\ d.attached = c.attached /\ d.twice = c.twice
<1>1. [c EXCEPT !.tables = ts] \in Capture
  BY DEF Capture
<1> QED
  BY <1>1, CaptureIs

LEMMA WithoutGroup ==
  ASSUME NEW c \in Capture
  PROVE  LET d == [c EXCEPT !.tsgroup = NoGroup] IN
         /\ d \in Capture
         /\ d.tsgroup = NoGroup /\ d.groups = c.groups /\ d.tables = c.tables /\ d.attached = c.attached /\ d.twice = c.twice
<1>1. [c EXCEPT !.tsgroup = NoGroup] \in Capture
  BY EpgAssumption DEF Capture, NoGroup
<1> QED
  BY <1>1, CaptureIs

-----------------------------------------------------------------------------
(* What remains of a command, and what its next step does. *)

Onward(w) ==
  \/ w = <<"attach">> /\ Head(w) = "attach" /\ Tail(w) = <<>>
  \/ w = <<"create", "attach">> /\ Head(w) = "create" /\ Tail(w) = <<"attach">>
  \/ w = <<"detach", "attach">> /\ Head(w) = "detach" /\ Tail(w) = <<"attach">>
  \/ w = <<"remove", "detach", "attach">> /\ Head(w) = "remove" /\ Tail(w) = <<"detach", "attach">>
  \/ w = <<"clear">> /\ Head(w) = "clear" /\ Tail(w) = <<>>
  \/ w = <<"detach", "clear">> /\ Head(w) = "detach" /\ Tail(w) = <<"clear">>
  \/ w = <<"destroy", "detach", "clear">> /\ Head(w) = "destroy" /\ Tail(w) = <<"detach", "clear">>
  \/ w = <<"destroy">> /\ Head(w) = "destroy" /\ Tail(w) = <<>>
  \/ w = <<"detach", "destroy">> /\ Head(w) = "detach" /\ Tail(w) = <<"destroy">>
  \/ w = <<"remove", "detach", "destroy">> /\ Head(w) = "remove" /\ Tail(w) = <<"detach", "destroy">>

LEMMA HeadsAndTails ==
  /\ Head(<<"attach">>) = "attach" /\ Tail(<<"attach">>) = <<>>
  /\ Head(<<"create", "attach">>) = "create" /\ Tail(<<"create", "attach">>) = <<"attach">>
  /\ Head(<<"detach", "attach">>) = "detach" /\ Tail(<<"detach", "attach">>) = <<"attach">>
  /\ Head(<<"remove", "detach", "attach">>) = "remove" /\ Tail(<<"remove", "detach", "attach">>) = <<"detach", "attach">>
  /\ Head(<<"clear">>) = "clear" /\ Tail(<<"clear">>) = <<>>
  /\ Head(<<"detach", "clear">>) = "detach" /\ Tail(<<"detach", "clear">>) = <<"clear">>
  /\ Head(<<"destroy", "detach", "clear">>) = "destroy" /\ Tail(<<"destroy", "detach", "clear">>) = <<"detach", "clear">>
  /\ Head(<<"destroy">>) = "destroy" /\ Tail(<<"destroy">>) = <<>>
  /\ Head(<<"detach", "destroy">>) = "detach" /\ Tail(<<"detach", "destroy">>) = <<"destroy">>
  /\ Head(<<"remove", "detach", "destroy">>) = "remove" /\ Tail(<<"remove", "detach", "destroy">>) = <<"detach", "destroy">>
<1>1. Head(<<"attach">>) = "attach" /\ Tail(<<"attach">>) = <<>>
  OBVIOUS
<1>2. Head(<<"create", "attach">>) = "create" /\ Tail(<<"create", "attach">>) = <<"attach">>
  OBVIOUS
<1>3. Head(<<"detach", "attach">>) = "detach" /\ Tail(<<"detach", "attach">>) = <<"attach">>
  OBVIOUS
<1>4. Head(<<"remove", "detach", "attach">>) = "remove" /\ Tail(<<"remove", "detach", "attach">>) = <<"detach", "attach">>
  OBVIOUS
<1>5. Head(<<"clear">>) = "clear" /\ Tail(<<"clear">>) = <<>>
  OBVIOUS
<1>6. Head(<<"detach", "clear">>) = "detach" /\ Tail(<<"detach", "clear">>) = <<"clear">>
  OBVIOUS
<1>7. Head(<<"destroy", "detach", "clear">>) = "destroy" /\ Tail(<<"destroy", "detach", "clear">>) = <<"detach", "clear">>
  OBVIOUS
<1>8. Head(<<"destroy">>) = "destroy" /\ Tail(<<"destroy">>) = <<>>
  OBVIOUS
<1>9. Head(<<"detach", "destroy">>) = "detach" /\ Tail(<<"detach", "destroy">>) = <<"destroy">>
  OBVIOUS
<1>10. Head(<<"remove", "detach", "destroy">>) = "remove" /\ Tail(<<"remove", "detach", "destroy">>) = <<"detach", "destroy">>
  OBVIOUS
<1> QED
  BY <1>1, <1>2, <1>3, <1>4, <1>5, <1>6, <1>7, <1>8, <1>9, <1>10

LEMMA OnwardFrom ==
  ASSUME NEW w \in Restoring \cup StoppingDVB \cup StoppingATSC
  PROVE  Onward(w)
  BY HeadsAndTails DEF Restoring, StoppingDVB, StoppingATSC, Destroyed, Onward

MakesGroup ==
  /\ capture'.tsgroup \in 1..MaxGroups \ DOMAIN capture.groups
  /\ DOMAIN capture'.groups = DOMAIN capture.groups \cup {capture'.tsgroup}
  /\ capture'.groups[capture'.tsgroup] = <<>>
  /\ \A g \in DOMAIN capture.groups : capture'.groups[g] = capture.groups[g]
  /\ capture'.attached = capture.attached /\ capture'.twice = capture.twice /\ capture'.tables = capture.tables

AttachesTo(c) ==
  /\ capture'.tables = Fresh(c)
  /\ capture'.attached = (c.attached \cap Referred(c)) \cup Values(Fresh(c))
  /\ DOMAIN capture'.groups = DOMAIN c.groups
  /\ \A g \in DOMAIN c.groups : capture'.groups[g] = IF g = c.tsgroup THEN Fresh(c) ELSE c.groups[g]
  /\ capture'.tsgroup = c.tsgroup /\ capture'.twice = c.twice

LosesFilters ==
  /\ DOMAIN capture'.groups = DOMAIN capture.groups
  /\ \A g \in DOMAIN capture.groups : capture'.groups[g] = IF g = capture.tsgroup THEN <<>> ELSE capture.groups[g]
  /\ capture'.tsgroup = capture.tsgroup /\ capture'.attached = capture.attached
  /\ capture'.twice = capture.twice /\ capture'.tables = capture.tables

LosesDecoders ==
  /\ capture'.attached = capture.attached \ DecodersOf(capture)
  /\ capture'.twice <=> (capture.twice \/ \E p \in DOMAIN capture.tables : capture.tables[p] \notin capture.attached)
  /\ capture'.groups = capture.groups /\ capture'.tsgroup = capture.tsgroup
  /\ capture'.tables = IF standard = "DVB" THEN capture.tables ELSE <<>>

LosesGroup ==
  /\ DOMAIN capture'.groups = DOMAIN capture.groups \ {capture.tsgroup}
  /\ \A g \in DOMAIN capture'.groups : capture'.groups[g] = capture.groups[g]
  /\ capture'.tsgroup = IF standard = "DVB" THEN capture.tsgroup ELSE NoGroup
  /\ capture'.attached = capture.attached /\ capture'.twice = capture.twice /\ capture'.tables = capture.tables

IsOver ==
  /\ capture'.groups = capture.groups /\ capture'.tsgroup = NoGroup
  /\ capture'.attached = capture.attached /\ capture'.twice = capture.twice
  /\ capture'.tables = [p \in DVBPids |-> NoDecoder]

\* The flags say what the step met.
Noticed(step) ==
  /\ doubled' = (doubled \/ (step = "create" /\ capture.tsgroup # NoGroup))
  /\ forgotten' = (forgotten \/ (step = "detach" /\ standard = "ATSC"))
  /\ misfed' = capture'.twice

LEMMA StepIs ==
  ASSUME EpgTyped, NEW x \in Caller, CommandGoesOn(x)
  PROVE  /\ ~misfed /\ calls[x] \in Remains \ {<<>>} /\ Onward(calls[x])
         /\ calls' = [calls EXCEPT ![x] = Tail(calls[x])]
         /\ capture' \in Capture
         /\ Noticed(Head(calls[x]))
         /\ UNCHANGED <<standard, onAir, unaware, mgt, raced>>
         /\ \/ Head(calls[x]) = "create" /\ MakesGroup
            \/ Head(calls[x]) = "attach" /\ AttachesTo(capture)
            \/ Head(calls[x]) = "remove" /\ LosesFilters
            \/ Head(calls[x]) = "detach" /\ LosesDecoders
            \/ Head(calls[x]) = "destroy" /\ LosesGroup
            \/ Head(calls[x]) = "clear" /\ IsOver
<1> DEFINE w == calls[x]
<1>1. w \in Remains \ {<<>>}
  BY DEF EpgTyped, CommandGoesOn, Busy
<1>2. Onward(w)
  <2>1. w \in Restoring \cup StoppingDVB \cup StoppingATSC
    BY <1>1 DEF Remains
  <2> QED
    BY <2>1, OnwardFrom
<1>3. Head(w) \in {"create", "attach", "remove", "detach", "destroy", "clear"}
  BY <1>2 DEF Onward
<1>4. capture' = Do(Head(w), capture) /\ Noticed(Head(w)) /\ ~misfed /\ UNCHANGED <<standard, onAir, unaware, mgt, raced>>
  BY DEF CommandGoesOn, Noticed
<1>5. calls' = [calls EXCEPT ![x] = Tail(w)]
  BY DEF CommandGoesOn
<1>6. capture \in Capture
  BY DEF EpgTyped
<1>7. CASE Head(w) = "create"
  <2>1. Cardinality(DOMAIN capture.groups) < MaxGroups
    BY <1>7 DEF CommandGoesOn
  <2>2. capture' = CreateGroup(capture)
    BY <1>4, <1>7 DEF Do
  <2>3. capture' \in Capture /\ MakesGroup
    BY <1>6, <2>1, <2>2, Created DEF MakesGroup
  <2> QED
    BY <1>1, <1>2, <1>4, <1>5, <1>7, <2>3
<1>8. CASE Head(w) = "attach"
  <2>2. capture' = AttachDecoders(capture)
    BY <1>4, <1>8 DEF Do
  <2>3. capture' \in Capture /\ AttachesTo(capture)
    BY <1>6, <2>2, AttachedIs DEF AttachesTo
  <2> QED
    BY <1>1, <1>2, <1>4, <1>5, <1>8, <2>3
<1>9. CASE Head(w) = "remove"
  <2>2. capture' = RemoveFilters(capture)
    BY <1>4, <1>9 DEF Do
  <2>3. capture' \in Capture /\ LosesFilters
    BY <1>6, <2>2, RemovedIs DEF LosesFilters
  <2> QED
    BY <1>1, <1>2, <1>4, <1>5, <1>9, <2>3
<1>10. CASE Head(w) = "detach"
  <2>2. capture' = IF standard = "DVB" THEN DetachDecoders(capture) ELSE ForgetTables(DetachDecoders(capture))
    BY <1>4, <1>10 DEF Do
  <2> DEFINE d == DetachDecoders(capture)
  <2>3. /\ d \in Capture
        /\ d.attached = capture.attached \ DecodersOf(capture)
        /\ d.twice <=> (capture.twice \/ \E p \in DOMAIN capture.tables : capture.tables[p] \notin capture.attached)
        /\ d.groups = capture.groups /\ d.tsgroup = capture.tsgroup /\ d.tables = capture.tables
    BY <1>6, DetachedIs
  <2> HIDE DEF d
  <2>4. CASE standard = "DVB"
    <3>1. capture' \in Capture /\ LosesDecoders
      BY <2>2, <2>3, <2>4 DEF LosesDecoders, d
    <3> QED
      BY <1>1, <1>2, <1>4, <1>5, <1>10, <3>1
  <2>5. CASE standard # "DVB"
    <3>1. capture' = [d EXCEPT !.tables = <<>>]
      BY <2>2, <2>5 DEF d, ForgetTables
    <3>2. /\ capture' \in Capture /\ capture'.tables = <<>> /\ capture'.groups = d.groups
          /\ capture'.tsgroup = d.tsgroup /\ capture'.attached = d.attached /\ capture'.twice = d.twice
      BY <2>3, <3>1, NoFilters, WithTables
    <3>3. LosesDecoders
      BY <2>3, <2>5, <3>2 DEF LosesDecoders
    <3> QED
      BY <1>1, <1>2, <1>4, <1>5, <1>10, <3>2, <3>3
  <2> QED
    BY <2>4, <2>5
<1>11. CASE Head(w) = "destroy"
  <2>2. capture' = IF standard = "DVB" THEN DestroyGroup(capture) ELSE [DestroyGroup(capture) EXCEPT !.tsgroup = NoGroup]
    BY <1>4, <1>11 DEF Do
  <2> DEFINE d == DestroyGroup(capture)
  <2>3. /\ d \in Capture
        /\ DOMAIN d.groups = DOMAIN capture.groups \ {capture.tsgroup}
        /\ \A g \in DOMAIN d.groups : d.groups[g] = capture.groups[g]
        /\ d.tsgroup = capture.tsgroup /\ d.attached = capture.attached /\ d.twice = capture.twice
        /\ d.tables = capture.tables
    BY <1>6, DestroyedIs
  <2> HIDE DEF d
  <2>4. CASE standard = "DVB"
    <3>1. capture' = d
      BY <2>2, <2>4 DEF d
    <3>2. capture' \in Capture /\ LosesGroup
      BY <2>3, <2>4, <3>1 DEF LosesGroup
    <3> QED
      BY <1>1, <1>2, <1>4, <1>5, <1>11, <3>2
  <2>5. CASE standard # "DVB"
    <3>1. capture' = [d EXCEPT !.tsgroup = NoGroup]
      BY <2>2, <2>5 DEF d
    <3>2. /\ capture' \in Capture /\ capture'.tables = d.tables /\ capture'.groups = d.groups
          /\ capture'.tsgroup = NoGroup /\ capture'.attached = d.attached /\ capture'.twice = d.twice
      BY <2>3, <3>1, WithoutGroup
    <3>3. LosesGroup
      BY <2>3, <2>5, <3>2 DEF LosesGroup
    <3> QED
      BY <1>1, <1>2, <1>4, <1>5, <1>11, <3>2, <3>3
  <2> QED
    BY <2>4, <2>5
<1>12. CASE Head(w) = "clear"
  <2> DEFINE none == [p \in DVBPids |-> NoDecoder]
             d == [capture EXCEPT !.tsgroup = NoGroup]
  <2>1. capture' = [capture EXCEPT !.tsgroup = NoGroup, !.tables = none]
    BY <1>4, <1>12 DEF Do
  <2>2. none \in PIDFilters
    <3>1. DVBPids \in Pids
      BY EpgAssumption DEF Pids, AllPids
    <3>2. none \in [DVBPids -> Nat]
      BY DEF NoDecoder
    <3> HIDE DEF none
    <3> QED
      BY <3>1, <3>2, AreFilters
  <2>3. /\ d \in Capture
        /\ d.tsgroup = NoGroup /\ d.groups = capture.groups /\ d.attached = capture.attached /\ d.twice = capture.twice
    BY <1>6, WithoutGroup
  <2>4. capture' = [d EXCEPT !.tables = none]
    <3> HIDE DEF none
    <3> QED BY <2>1
  <2> HIDE DEF d, none
  <2>5. /\ capture' \in Capture /\ capture'.tables = none /\ capture'.groups = d.groups
        /\ capture'.tsgroup = d.tsgroup /\ capture'.attached = d.attached /\ capture'.twice = d.twice
    BY <2>2, <2>3, <2>4, WithTables
  <2>6. IsOver
    BY <2>3, <2>5 DEF IsOver, none
  <2> QED
    BY <1>1, <1>2, <1>4, <1>5, <1>12, <2>5, <2>6
<1> QED
  BY <1>3, <1>7, <1>8, <1>9, <1>10, <1>11, <1>12

-----------------------------------------------------------------------------
(* A command goes on. *)

LEMMA GoingOnTyped ==
  ASSUME CaptureInv, NEW x \in Caller, CommandGoesOn(x)
  PROVE  EpgTyped' /\ MGTOfATSC' /\ NothingElse'
<1> DEFINE w == calls[x]
<1>1. /\ EpgTyped /\ MGTOfATSC /\ NothingElse
  BY DEF CaptureInv
<1>2. /\ ~misfed /\ w \in Remains \ {<<>>} /\ Onward(w)
      /\ calls' = [calls EXCEPT ![x] = Tail(w)] /\ capture' \in Capture /\ Noticed(Head(w))
      /\ UNCHANGED <<standard, onAir, unaware, mgt, raced>>
  BY <1>1, StepIs
<1>3. Tail(w) \in Remains
  <2> HIDE DEF w
  <2>1. standard \in {"DVB", "ATSC"}
    BY <1>2 DEF Remains
  <2>2. CASE standard = "DVB"
    <3>1. w \in Restoring \cup StoppingDVB
      BY <1>2, <2>2 DEF Remains
    <3>2. Tail(w) \in {<<>>} \cup Restoring \cup StoppingDVB
      BY <3>1, HeadsAndTails DEF Restoring, StoppingDVB, Destroyed
    <3> QED
      BY <2>2, <3>2 DEF Remains
  <2>3. CASE standard = "ATSC"
    <3>1. w \in Restoring \cup StoppingATSC
      BY <1>2, <2>3 DEF Remains
    <3>2. Tail(w) \in {<<>>} \cup Restoring \cup StoppingATSC
      BY <3>1, HeadsAndTails DEF Restoring, StoppingATSC
    <3> QED
      BY <2>3, <3>2 DEF Remains
  <2> QED
    BY <2>1, <2>2, <2>3
<1>4. EpgTyped'
  <2>1. calls' \in [Caller -> Remains']
    <3>1. calls \in [Caller -> Remains] /\ Remains' = Remains
      BY <1>1, <1>2 DEF EpgTyped, Remains
    <3> QED
      BY <1>2, <1>3, <3>1
  <2>2. doubled' \in BOOLEAN /\ forgotten' \in BOOLEAN
    BY <1>1, <1>2 DEF Noticed, EpgTyped
  <2>3. misfed' \in BOOLEAN
    BY <1>2, CaptureIs DEF Noticed
  <2> QED
    BY <1>1, <1>2, <2>1, <2>2, <2>3 DEF EpgTyped
<1>5. NothingElse'
  <2>1. standard \notin {"now", "sent"}
    BY <1>2 DEF Remains
  <2> QED
    BY <1>2, <2>1 DEF NothingElse
<1> QED
  BY <1>1, <1>2, <1>4, <1>5 DEF MGTOfATSC

\* What a caller has left to do, before and after.
LEMMA CallsKept ==
  ASSUME EpgTyped, NEW x \in Caller, calls' = [calls EXCEPT ![x] = Tail(calls[x])]
  PROVE  calls'[x] = Tail(calls[x]) /\ \A y \in Caller : y # x => calls'[y] = calls[y]
  BY DEF EpgTyped

LEMMA GoingOnTwo ==
  ASSUME CaptureInv, NEW x \in Caller, CommandGoesOn(x)
  PROVE  TwoAtMost' /\ TablesAreKnown'
<1> DEFINE w == calls[x]
<1>1. /\ EpgTyped /\ TwoAtMost /\ TablesAreKnown
  BY DEF CaptureInv
<1>2. /\ w \in Remains \ {<<>>} /\ Onward(w)
      /\ calls' = [calls EXCEPT ![x] = Tail(w)]
      /\ Noticed(Head(w))
      /\ UNCHANGED <<standard, onAir, unaware, mgt, raced>>
      /\ \/ Head(w) = "create" /\ MakesGroup
         \/ Head(w) = "attach" /\ AttachesTo(capture)
         \/ Head(w) = "remove" /\ LosesFilters
         \/ Head(w) = "detach" /\ LosesDecoders
         \/ Head(w) = "destroy" /\ LosesGroup
         \/ Head(w) = "clear" /\ IsOver
  BY <1>1, StepIs
<1>3. \A y \in Caller : Busy(y)' => Busy(y)
  BY <1>1, <1>2, CallsKept DEF Busy
<1>4. TwoAtMost'
  BY <1>1, <1>2, <1>3 DEF TwoAtMost
<1>5. DOMAIN Fresh(capture) = DOMAIN capture.tables
  BY <1>1, FreshAre DEF EpgTyped
<1>6. Head(w) = "clear" => standard = "DVB"
  <2> HIDE DEF w
  <2> QED BY <1>2 DEF Onward, Remains, Restoring, StoppingATSC
<1>7. TablesAreKnown'
  <2> HIDE DEF w
  <2>1. CASE Head(w) \in {"create", "remove", "destroy"}
    <3>1. capture'.tables = capture.tables /\ (forgotten => forgotten')
      BY <1>2, <2>1 DEF MakesGroup, LosesFilters, LosesGroup, Noticed
    <3> QED
      BY <1>1, <1>2, <3>1 DEF TablesAreKnown
  <2>2. CASE Head(w) = "attach"
    <3>1. capture'.tables = Fresh(capture) /\ (forgotten => forgotten')
      BY <1>2, <2>2 DEF AttachesTo, Noticed
    <3> QED
      BY <1>1, <1>2, <1>5, <3>1 DEF TablesAreKnown
  <2>3. CASE Head(w) = "detach"
    <3>1. (standard = "DVB" => capture'.tables = capture.tables) /\ (standard = "ATSC" => forgotten')
      BY <1>2, <2>3 DEF LosesDecoders, Noticed
    <3> QED
      BY <1>1, <1>2, <3>1 DEF TablesAreKnown
  <2>4. CASE Head(w) = "clear"
    <3>1. DOMAIN capture'.tables = DVBPids
      BY <1>2, <2>4 DEF IsOver
    <3> QED
      BY <1>2, <1>6, <2>4, <3>1 DEF TablesAreKnown
  <2> QED
    BY <1>2, <2>1, <2>2, <2>3, <2>4
<1> QED
  BY <1>4, <1>7

LEMMA GoingOnNoted ==
  ASSUME CaptureInv, NEW x \in Caller, CommandGoesOn(x)
  PROVE  NotedExists' /\ Complete'
<1> DEFINE w == calls[x]
<1>1. /\ EpgTyped /\ TablesAreKnown /\ NotedExists
  BY DEF CaptureInv
<1>2. /\ ~misfed /\ w \in Remains \ {<<>>} /\ Onward(w)
      /\ calls' = [calls EXCEPT ![x] = Tail(w)] /\ capture' \in Capture
      /\ Noticed(Head(w))
      /\ UNCHANGED <<standard, onAir, unaware, mgt, raced>>
      /\ \/ Head(w) = "create" /\ MakesGroup
         \/ Head(w) = "attach" /\ AttachesTo(capture)
         \/ Head(w) = "remove" /\ LosesFilters
         \/ Head(w) = "detach" /\ LosesDecoders
         \/ Head(w) = "destroy" /\ LosesGroup
         \/ Head(w) = "clear" /\ IsOver
  BY <1>1, StepIs
<1>3. calls'[x] = Tail(w) /\ \A y \in Caller : y # x => calls'[y] = calls[y]
  BY <1>1, <1>2, CallsKept
<1>4. DOMAIN Fresh(capture) = DOMAIN capture.tables
  BY <1>1, FreshAre DEF EpgTyped
<1>5. standard \in {"DVB", "ATSC"}
  BY <1>2 DEF Remains
<1>6. \A g \in DOMAIN capture'.groups : g # NoGroup
  <2>1. DOMAIN capture'.groups \subseteq 1..MaxGroups
    BY <1>2, CaptureIs
  <2> QED
    BY <2>1 DEF NoGroup
<1> HIDE DEF w
<1>7. NotedExists'
  <2> SUFFICES ASSUME capture'.tsgroup # NoGroup, ~Exists(capture') PROVE \E y \in Caller : calls'[y] \in Destroyed
    BY DEF NotedExists
  <2>1. CASE Head(w) = "create"
    BY <1>2, <2>1 DEF MakesGroup, Exists
  <2>2. CASE Head(w) \in {"attach", "remove", "detach"}
    <3>1. capture'.tsgroup = capture.tsgroup /\ DOMAIN capture'.groups = DOMAIN capture.groups
      BY <1>2, <2>2 DEF AttachesTo, LosesFilters, LosesDecoders
    <3>2. PICK y \in Caller : calls[y] \in Destroyed
      BY <1>1, <3>1 DEF NotedExists, Exists
    <3>3. CASE y # x
      BY <1>3, <3>2, <3>3
    <3>4. CASE y = x
      <4>1. w \in Destroyed
        BY <3>2, <3>4 DEF w
      <4>2. Tail(w) \in Destroyed
        BY <1>2, <2>2, <4>1, HeadsAndTails DEF Destroyed
      <4> QED
        BY <1>3, <4>2
    <3> QED
      BY <3>3, <3>4
  <2>3. CASE Head(w) = "destroy"
    <3>1. standard = "DVB"
      BY <1>2, <2>3 DEF LosesGroup
    <3>2. Tail(w) \in Destroyed
      BY <1>2, <2>3, <3>1 DEF Onward, Remains, Restoring, StoppingDVB, Destroyed
    <3> QED
      BY <1>3, <3>2
  <2>4. CASE Head(w) = "clear"
    BY <1>2, <2>4 DEF IsOver
  <2> QED
    BY <1>2, <2>1, <2>2, <2>3, <2>4
<1>8. Complete'
  <2> SUFFICES ASSUME Exists(capture'), ~unaware', ~forgotten', ~misfed', standard' = "ATSC" => mgt',
                      \A y \in Caller : calls'[y] = <<>>
               PROVE  DOMAIN capture'.groups[capture'.tsgroup] = IF standard' = "ATSC" THEN OnAir[onAir'] ELSE DVBPids
    BY DEF Complete, Busy
  <2>1. Tail(w) = <<>>
    BY <1>3
  <2>2. w \in {<<"attach">>, <<"clear">>, <<"destroy">>}
    BY <1>2, <2>1 DEF Onward
  <2>3. CASE w = <<"attach">>
    <3>1. AttachesTo(capture) /\ ~forgotten
      BY <1>2, <2>3, HeadsAndTails DEF Noticed
    <3>2. capture'.groups[capture'.tsgroup] = Fresh(capture)
      BY <3>1 DEF AttachesTo, Exists
    <3>3. DOMAIN capture.tables = IF standard = "ATSC" THEN OnAir[onAir] ELSE DVBPids
      BY <1>1, <1>2, <1>5, <3>1 DEF TablesAreKnown
    <3> QED
      BY <1>2, <1>4, <3>2, <3>3
  <2>4. CASE w = <<"clear">>
    <3>1. capture'.tsgroup = NoGroup
      BY <1>2, <2>4, HeadsAndTails DEF IsOver
    <3> QED
      BY <1>6, <3>1 DEF Exists
  <2>5. CASE w = <<"destroy">>
    <3>1. standard = "ATSC"
      BY <1>2, <1>5, <2>5 DEF Remains, Restoring, StoppingDVB, Destroyed
    <3>2. capture'.tsgroup = NoGroup
      BY <1>2, <2>5, <3>1, HeadsAndTails DEF LosesGroup
    <3> QED
      BY <1>6, <3>2 DEF Exists
  <2> QED
    BY <2>2, <2>3, <2>4, <2>5
<1> QED
  BY <1>7, <1>8

LEMMA GoingOnNoOther ==
  ASSUME CaptureInv, NEW x \in Caller, CommandGoesOn(x)
  PROVE  NoOther'
<1> DEFINE w == calls[x]
<1>1. /\ EpgTyped /\ TwoAtMost /\ NoOther
  BY DEF CaptureInv
<1>2. /\ w \in Remains \ {<<>>} /\ Onward(w)
      /\ calls' = [calls EXCEPT ![x] = Tail(w)] /\ capture' \in Capture
      /\ Noticed(Head(w))
      /\ UNCHANGED <<standard, onAir, unaware, mgt, raced>>
      /\ \/ Head(w) = "create" /\ MakesGroup
         \/ Head(w) = "attach" /\ AttachesTo(capture)
         \/ Head(w) = "remove" /\ LosesFilters
         \/ Head(w) = "detach" /\ LosesDecoders
         \/ Head(w) = "destroy" /\ LosesGroup
         \/ Head(w) = "clear" /\ IsOver
  BY <1>1, StepIs
<1>3. calls'[x] = Tail(w) /\ \A y \in Caller : y # x => calls'[y] = calls[y]
  BY <1>1, <1>2, CallsKept
<1>4. /\ \A g \in DOMAIN capture.groups : g # NoGroup
      /\ capture.tsgroup \in Nat
  <2>1. DOMAIN capture.groups \subseteq 1..MaxGroups /\ capture.tsgroup \in 0..MaxGroups
    BY <1>1, CaptureIs DEF EpgTyped
  <2> QED
    BY <2>1 DEF NoGroup
<1>5. ~doubled' => ~doubled /\ (Head(w) = "create" => capture.tsgroup = NoGroup)
  BY <1>2 DEF Noticed
<1> HIDE DEF w
<1>6. /\ Tail(w) # <<"create", "attach">>
      /\ Tail(w) \in Destroyed => standard = "DVB" /\ Head(w) \in {"detach", "destroy"} /\ w \in StoppingDVB
      /\ Tail(w) \in StoppingDVB => Tail(w) \in Destroyed
      /\ Head(w) = "clear" => w = <<"clear">>
      /\ w = <<"clear">> \/ w = <<"detach", "clear">> => w \in Destroyed /\ w \in StoppingDVB
      /\ Head(w) = "detach" /\ Tail(w) \in Destroyed => w = <<"detach", "clear">>
  <2>1. Tail(w) # <<"create", "attach">>
    BY <1>2 DEF Onward
  <2>2. Tail(w) \in Destroyed => w = <<"detach", "clear">> \/ w = <<"destroy", "detach", "clear">>
    <3>1. \/ w = <<"detach", "clear">> \/ w = <<"destroy", "detach", "clear">>
          \/ Tail(w) \in {<<>>, <<"attach">>, <<"detach", "attach">>, <<"destroy">>, <<"detach", "destroy">>}
      BY <1>2 DEF Onward
    <3>2. \A t \in {<<>>, <<"attach">>, <<"detach", "attach">>, <<"destroy">>, <<"detach", "destroy">>} : t \notin Destroyed
      BY DEF Destroyed
    <3> QED
      BY <3>1, <3>2
  <2>3. Tail(w) \in StoppingDVB => Tail(w) \in Destroyed
    <3>1. Tail(w) # <<"destroy", "detach", "clear">>
      BY <1>2 DEF Onward
    <3> QED
      BY <3>1 DEF StoppingDVB
  <2>4. Head(w) = "clear" => w = <<"clear">>
    BY <1>2 DEF Onward
  <2>5. w = <<"clear">> \/ w = <<"detach", "clear">> => w \in Destroyed /\ w \in StoppingDVB
    BY DEF Destroyed, StoppingDVB
  <2>6. w = <<"destroy", "detach", "clear">> => w \in StoppingDVB /\ Head(w) = "destroy"
    BY HeadsAndTails DEF StoppingDVB
  <2>7. w = <<"detach", "clear">> => Head(w) = "detach"
    BY HeadsAndTails
  <2>8. w = <<"detach", "clear">> \/ w = <<"destroy", "detach", "clear">> => standard = "DVB"
    BY <1>2 DEF Remains, Restoring, StoppingATSC
  <2> QED
    BY <2>1, <2>2, <2>3, <2>4, <2>5, <2>6, <2>7, <2>8
<1>7. standard \in {"DVB", "ATSC"}
  BY <1>2 DEF Remains
<1>8. \A y \in Caller : calls[y] \in StoppingDVB => standard = "DVB"
  <2>1. Restoring \cap StoppingDVB = {} /\ StoppingATSC \cap StoppingDVB = {} /\ <<>> \notin StoppingDVB
    <3>1. \A t \in Restoring : t \notin StoppingDVB
      BY DEF Restoring, StoppingDVB, Destroyed
    <3>2. \A t \in StoppingATSC : t \notin StoppingDVB
      BY DEF StoppingATSC, StoppingDVB, Destroyed
    <3>3. <<>> \notin StoppingDVB
      BY DEF StoppingDVB, Destroyed
    <3> QED
      BY <3>1, <3>2, <3>3
  <2>2. standard # "DVB" => Remains \subseteq {<<>>} \cup Restoring \cup StoppingATSC
    BY DEF Remains
  <2> QED
    BY <1>1, <2>1, <2>2 DEF EpgTyped
<1>9. <<>> \notin StoppingDVB /\ Destroyed \subseteq StoppingDVB /\ <<"create", "attach">> \notin StoppingDVB
  BY DEF StoppingDVB, Destroyed
<1>10. ~doubled' => DOMAIN capture'.groups \subseteq {capture'.tsgroup}
  <2> SUFFICES ASSUME ~doubled' PROVE DOMAIN capture'.groups \subseteq {capture'.tsgroup}
    OBVIOUS
  <2>1. DOMAIN capture.groups \subseteq {capture.tsgroup}
    BY <1>1, <1>5 DEF NoOther
  <2>2. CASE Head(w) = "create"
    <3>1. DOMAIN capture.groups = {}
      BY <1>4, <1>5, <2>1, <2>2
    <3> QED
      BY <1>2, <2>2, <3>1 DEF MakesGroup
  <2>3. CASE Head(w) \in {"attach", "remove", "detach"}
    <3>1. capture'.tsgroup = capture.tsgroup /\ DOMAIN capture'.groups = DOMAIN capture.groups
      BY <1>2, <2>3 DEF AttachesTo, LosesFilters, LosesDecoders
    <3> QED
      BY <2>1, <3>1
  <2>4. CASE Head(w) = "destroy"
    BY <1>2, <2>1, <2>4 DEF LosesGroup
  <2>5. CASE Head(w) = "clear"
    <3>1. DOMAIN capture.groups = {}
      BY <1>1, <1>5, <1>6, <2>5 DEF NoOther, w
    <3> QED
      BY <1>2, <2>5, <3>1 DEF IsOver
  <2> QED
    BY <1>2, <2>2, <2>3, <2>4, <2>5
<1>11. ASSUME NEW y \in Caller, calls'[y] \in Destroyed, ~doubled' PROVE DOMAIN capture'.groups = {}
  <2>1. DOMAIN capture.groups \subseteq {capture.tsgroup}
    BY <1>1, <1>5, <1>11 DEF NoOther
  <2>2. CASE Head(w) = "create"
    <3>1. y # x /\ calls[y] \in StoppingDVB
      BY <1>3, <1>6, <1>9, <1>11, <2>2
    <3>2. w # <<"create", "attach">>
      BY <1>1, <1>5, <1>11, <2>2, <3>1 DEF NoOther, w
    <3> QED
      BY <1>2, <2>2, <3>2 DEF Onward
  <2>3. CASE Head(w) = "destroy"
    BY <1>2, <2>1, <2>3 DEF LosesGroup
  <2>4. CASE Head(w) \in {"attach", "remove", "detach", "clear"}
    <3>1. DOMAIN capture'.groups = DOMAIN capture.groups
      BY <1>2, <2>4 DEF AttachesTo, LosesFilters, LosesDecoders, IsOver
    <3>2. CASE y # x
      BY <1>1, <1>3, <1>5, <1>11, <3>1, <3>2 DEF NoOther
    <3>3. CASE y = x
      <4>1. Tail(w) \in Destroyed
        BY <1>3, <1>11, <3>3
      <4>2. w = <<"detach", "clear">>
        BY <1>6, <2>4, <4>1
      <4> QED
        BY <1>1, <1>5, <1>6, <1>11, <3>1, <4>2 DEF NoOther, w
    <3> QED
      BY <3>2, <3>3
  <2> QED
    BY <1>2, <2>2, <2>3, <2>4
<1>12. ASSUME NEW y \in Caller, calls'[y] \in StoppingDVB, capture'.tsgroup = NoGroup
       PROVE  raced' /\ \A z \in Caller : calls'[z] # <<"create", "attach">>
  <2>1. standard = "DVB" /\ calls[y] \in StoppingDVB
    <3>1. CASE y # x
      BY <1>3, <1>8, <1>12, <3>1
    <3>2. CASE y = x
      BY <1>3, <1>6, <1>12, <3>2 DEF w
    <3> QED
      BY <3>1, <3>2
  <2>2. CASE capture.tsgroup = NoGroup
    <3>1. raced /\ \A z \in Caller : calls[z] # <<"create", "attach">>
      BY <1>1, <2>1, <2>2 DEF NoOther
    <3> QED
      BY <1>2, <1>3, <1>6, <3>1
  <2>3. CASE capture.tsgroup # NoGroup
    <3>1. w = <<"clear">>
      <4>1. Head(w) # "create"
        BY <1>2, <1>12 DEF MakesGroup, NoGroup
      <4>2. Head(w) \notin {"attach", "remove", "detach", "destroy"}
        BY <1>2, <1>12, <2>1, <2>3 DEF AttachesTo, LosesFilters, LosesDecoders, LosesGroup
      <4> QED
        BY <1>2, <1>6, <4>1, <4>2
    <3>2. y # x
      <4>1. Tail(w) = <<>>
        BY <3>1, HeadsAndTails
      <4> QED
        BY <1>3, <1>9, <1>12, <4>1
    <3>3. Busy(x) /\ Busy(y)
      BY <1>2, <1>9, <2>1 DEF Busy, w
    <3>4. raced /\ \A z \in Caller \ {x, y} : ~Busy(z)
      BY <1>1, <3>2, <3>3 DEF TwoAtMost
    <3>5. ASSUME NEW z \in Caller PROVE calls'[z] # <<"create", "attach">>
      <4>1. CASE z = x
        BY <1>3, <1>6, <4>1
      <4>2. CASE z = y
        BY <1>9, <1>12, <4>2
      <4>3. CASE z \notin {x, y}
        BY <1>3, <3>4, <4>3 DEF Busy
      <4> QED
        BY <4>1, <4>2, <4>3
    <3> QED
      BY <1>2, <3>4, <3>5
  <2> QED
    BY <2>2, <2>3
<1> QED
  BY <1>10, <1>11, <1>12 DEF NoOther

LEMMA GoingOnLive ==
  ASSUME CaptureInv, NEW x \in Caller, CommandGoesOn(x)
  PROVE  DecodersLive' /\ FedRight'
<1> DEFINE w == calls[x]
           c == capture
           d == capture'
<1>1. /\ EpgTyped /\ TwoAtMost /\ DecodersLive /\ FedRight
  BY DEF CaptureInv
<1>2. /\ ~misfed /\ w \in Remains \ {<<>>} /\ Onward(w)
      /\ calls' = [calls EXCEPT ![x] = Tail(w)] /\ capture' \in Capture
      /\ Noticed(Head(w))
      /\ UNCHANGED <<standard, onAir, unaware, mgt, raced>>
      /\ \/ Head(w) = "create" /\ MakesGroup
         \/ Head(w) = "attach" /\ AttachesTo(capture)
         \/ Head(w) = "remove" /\ LosesFilters
         \/ Head(w) = "detach" /\ LosesDecoders
         \/ Head(w) = "destroy" /\ LosesGroup
         \/ Head(w) = "clear" /\ IsOver
  BY <1>1, StepIs
<1>3. calls'[x] = Tail(w) /\ \A y \in Caller : y # x => calls'[y] = calls[y]
  BY <1>1, <1>2, CallsKept
<1>4. misfed' <=> capture'.twice
  BY <1>2 DEF Noticed
<1>5. CASE raced
  BY <1>2, <1>4, <1>5 DEF DecodersLive, FedRight
<1>6. CASE ~raced
  <2>1. \A y \in Caller : y # x => calls[y] = <<>> /\ calls'[y] = <<>>
    <3>1. Busy(x)
      BY <1>2 DEF Busy
    <3> QED
      BY <1>1, <1>3, <1>6, <3>1 DEF TwoAtMost, Busy
  <2>2. /\ FiltersLive /\ OthersApart /\ ~c.twice
        /\ Head(w) # "create" => c.tsgroup # NoGroup
        /\ Head(w) = "detach" /\ Exists(c) => c.groups[c.tsgroup] = <<>>
        /\ w \notin {<<"attach">>, <<"clear">>} /\ c.tsgroup # NoGroup => Values(c.tables) \subseteq c.attached
        /\ w # <<"attach">> => \A g \in DOMAIN c.groups \ {c.tsgroup} : Values(c.groups[g]) \cap DecodersOf(c) = {}
    <3>1. FiltersLive /\ TablesLive /\ FiltersFirst /\ OthersApart /\ GroupNoted /\ ~c.twice
      BY <1>1, <1>2, <1>6 DEF DecodersLive, FedRight
    <3>2. Busy(x)
      BY <1>2 DEF Busy
    <3>3. w # <<"attach">> => \A y \in Caller : calls[y] # <<"attach">>
      BY <2>1
    <3>4. w \notin {<<"attach">>, <<"clear">>} => \A y \in Caller : calls[y] \notin {<<"attach">>, <<"clear">>}
      BY <2>1
    <3> QED
      BY <3>1, <3>2, <3>3, <3>4 DEF TablesLive, FiltersFirst, OthersApart, GroupNoted
  <2>3. /\ \A g \in DOMAIN c.groups : g # NoGroup
        /\ c \in Capture /\ NoDecoder \notin c.attached
    <3>1. c \in Capture
      BY <1>1 DEF EpgTyped
    <3>2. DOMAIN c.groups \subseteq 1..MaxGroups /\ c.attached \subseteq Nat \ {NoDecoder}
      BY <3>1, CaptureIs
    <3> QED
      BY <3>1, <3>2 DEF NoGroup
  <2>4. Values(<<>>) = {}
    BY NoFilters
  <2> DEFINE Onto(t) ==
               /\ t \notin {<<"attach">>, <<"clear">>} /\ d.tsgroup # NoGroup => Values(d.tables) \subseteq d.attached
               /\ Head(t) = "detach" /\ t # <<>> /\ Exists(d) => d.groups[d.tsgroup] = <<>>
               /\ t # <<"attach">> => \A g \in DOMAIN d.groups \ {d.tsgroup} : Values(d.groups[g]) \cap DecodersOf(d) = {}
               /\ t # <<>> /\ Head(t) # "create" => d.tsgroup # NoGroup
  <2>5. SUFFICES FiltersLive' /\ Onto(Tail(w)) /\ ~d.twice
    <3>1. TablesLive' /\ FiltersFirst' /\ OthersApart' /\ GroupNoted'
      <4>1. TablesLive'
        BY <1>3, <2>5 DEF TablesLive
      <4>2. FiltersFirst'
        BY <1>3, <2>1, <2>5 DEF FiltersFirst, Busy
      <4>3. OthersApart'
        BY <1>3, <2>5 DEF OthersApart
      <4>4. GroupNoted'
        BY <1>3, <2>1, <2>5 DEF GroupNoted, Busy
      <4> QED
        BY <4>1, <4>2, <4>3, <4>4
    <3> QED
      BY <1>4, <2>5, <3>1 DEF DecodersLive, FedRight
  <2> HIDE DEF w
  <2>6. CASE Head(w) = "create"
    <3>1. MakesGroup
      BY <1>2, <2>6
    <3>2. FiltersLive'
      BY <2>2, <2>4, <3>1 DEF FiltersLive, MakesGroup
    <3>3. Tail(w) = <<"attach">>
      BY <1>2, <2>6 DEF Onward
    <3>4. Onto(Tail(w)) /\ ~d.twice
      BY <2>2, <3>1, <3>3, HeadsAndTails DEF MakesGroup, NoGroup
    <3> QED
      BY <3>2, <3>4
  <2>7. CASE Head(w) = "attach"
    <3>1. AttachesTo(c)
      BY <1>2, <2>7
    <3>2. /\ Values(Fresh(c)) \cap Referred(c) = {}
          /\ \A g \in DOMAIN c.groups : Values(c.groups[g]) \subseteq c.attached \cap Referred(c)
      BY <2>2, <2>3, FreshAre DEF FiltersLive, Referred
    <3>3. FiltersLive'
      BY <3>1, <3>2 DEF FiltersLive, AttachesTo
    <3>4. Tail(w) = <<>>
      BY <1>2, <2>7 DEF Onward
    <3>5. Values(d.tables) \subseteq d.attached
      BY <3>1 DEF AttachesTo
    <3>6. DecodersOf(d) \subseteq Values(Fresh(c))
      BY <3>1 DEF AttachesTo, DecodersOf, Values
    <3>7. \A g \in DOMAIN d.groups \ {d.tsgroup} : Values(d.groups[g]) \cap DecodersOf(d) = {}
      BY <3>1, <3>2, <3>6 DEF AttachesTo
    <3> QED
      BY <2>2, <3>1, <3>3, <3>4, <3>5, <3>7 DEF AttachesTo
  <2>8. CASE Head(w) = "remove"
    <3>1. LosesFilters
      BY <1>2, <2>8
    <3>2. FiltersLive'
      BY <2>2, <2>4, <3>1 DEF FiltersLive, LosesFilters
    <3>3. w \notin {<<"attach">>, <<"clear">>}
      BY <1>2, <2>8, HeadsAndTails
    <3>4. DecodersOf(d) = DecodersOf(c)
      BY <3>1 DEF LosesFilters, DecodersOf
    <3>5. /\ Values(d.tables) \subseteq d.attached /\ d.tsgroup # NoGroup /\ ~d.twice
          /\ Exists(d) => d.groups[d.tsgroup] = <<>>
          /\ \A g \in DOMAIN d.groups \ {d.tsgroup} : Values(d.groups[g]) \cap DecodersOf(d) = {}
      BY <2>2, <2>8, <3>1, <3>3, <3>4 DEF LosesFilters, Exists
    <3> QED
      BY <3>2, <3>5
  <2>9. CASE Head(w) = "detach"
    <3>1. LosesDecoders
      BY <1>2, <2>9
    <3>2. w \notin {<<"attach">>, <<"clear">>}
      BY <1>2, <2>9, HeadsAndTails
    <3>3. Values(c.tables) \subseteq c.attached
      BY <2>2, <2>9, <3>2
    <3>4. ~d.twice
      BY <2>2, <3>1, <3>3 DEF LosesDecoders, Values
    <3>5. ASSUME NEW g \in DOMAIN c.groups PROVE Values(c.groups[g]) \subseteq d.attached
      <4>1. CASE g = c.tsgroup
        BY <2>2, <2>4, <2>9, <4>1 DEF Exists
      <4>2. CASE g # c.tsgroup
        BY <2>2, <3>1, <3>2, <4>2 DEF LosesDecoders, FiltersLive
      <4> QED
        BY <4>1, <4>2
    <3>6. FiltersLive'
      BY <3>1, <3>5 DEF FiltersLive, LosesDecoders
    <3>7. Tail(w) \in {<<"attach">>, <<"clear">>} \/ (Tail(w) = <<"destroy">> /\ standard # "DVB")
      BY <1>2, <2>9 DEF Onward, Remains, Restoring, StoppingDVB, Destroyed
    <3>8. Head(Tail(w)) # "detach"
      BY <3>7, HeadsAndTails
    <3>9. d.tsgroup = c.tsgroup /\ d.groups = c.groups
      BY <3>1 DEF LosesDecoders
    <3>10. standard # "DVB" => Values(d.tables) = {} /\ DecodersOf(d) = {}
      BY <2>4, <3>1 DEF LosesDecoders, DecodersOf, Values
    <3>11. standard = "DVB" => DecodersOf(d) = DecodersOf(c)
      BY <3>1 DEF LosesDecoders, DecodersOf
    <3>12. \A g \in DOMAIN d.groups \ {d.tsgroup} : Values(d.groups[g]) \cap DecodersOf(d) = {}
      BY <2>2, <3>2, <3>9, <3>10, <3>11
    <3>13. Tail(w) \notin {<<"attach">>, <<"clear">>} => Values(d.tables) \subseteq d.attached
      BY <3>7, <3>10
    <3> QED
      BY <2>2, <2>9, <3>4, <3>6, <3>8, <3>9, <3>12, <3>13
  <2>10. CASE Head(w) = "destroy"
    <3>1. LosesGroup
      BY <1>2, <2>10
    <3>2. FiltersLive'
      BY <2>2, <3>1 DEF FiltersLive, LosesGroup
    <3>3. w \notin {<<"attach">>, <<"clear">>}
      BY <1>2, <2>10, HeadsAndTails
    <3>4. DecodersOf(d) = DecodersOf(c)
      BY <3>1 DEF LosesGroup, DecodersOf
    <3>5. (Tail(w) = <<"detach", "clear">> /\ standard = "DVB") \/ Tail(w) = <<>>
      <4>1. (w = <<"destroy", "detach", "clear">> /\ Tail(w) = <<"detach", "clear">>) \/ Tail(w) = <<>>
        BY <1>2, <2>10 DEF Onward
      <4>2. w = <<"destroy", "detach", "clear">> => standard = "DVB"
        BY <1>2 DEF Remains, Restoring, StoppingATSC
      <4> QED
        BY <4>1, <4>2
    <3>6. /\ Values(d.tables) \subseteq d.attached /\ ~d.twice
          /\ standard = "DVB" => d.tsgroup # NoGroup /\ ~Exists(d)
          /\ \A g \in DOMAIN d.groups : Values(d.groups[g]) \cap DecodersOf(d) = {}
      BY <2>2, <2>10, <3>1, <3>3, <3>4 DEF LosesGroup, Exists
    <3>7. Onto(Tail(w))
      <4>1. CASE Tail(w) = <<"detach", "clear">> /\ standard = "DVB"
        BY <3>6, <4>1
      <4>2. CASE Tail(w) = <<>>
        BY <3>6, <4>2
      <4> QED
        BY <3>5, <4>1, <4>2
    <3> QED
      BY <3>2, <3>6, <3>7
  <2>11. CASE Head(w) = "clear"
    <3>1. IsOver
      BY <1>2, <2>11
    <3>2. FiltersLive'
      BY <2>2, <3>1 DEF FiltersLive, IsOver
    <3>3. DecodersOf(d) = {}
      BY <3>1 DEF IsOver, DecodersOf
    <3>4. Tail(w) = <<>>
      BY <1>2, <2>11 DEF Onward
    <3>5. Onto(Tail(w)) /\ ~d.twice
      BY <2>2, <3>1, <3>3, <3>4 DEF IsOver
    <3> QED
      BY <3>2, <3>5
  <2> QED
    BY <1>2, <2>6, <2>7, <2>8, <2>9, <2>10, <2>11
<1> QED
  BY <1>5, <1>6

-----------------------------------------------------------------------------
(* A command is given. *)

\* What is then to be done, and when.
Given(w) ==
  \/ w = <<"create", "attach">>
  \/ w = <<"remove", "detach", "attach">> /\ capture.tsgroup # NoGroup
  \/ w = <<"destroy", "detach", "clear">> /\ standard = "DVB" /\ capture.tsgroup # NoGroup
  \/ w = <<"remove", "detach", "destroy">> /\ standard = "ATSC" /\ capture.tsgroup # NoGroup

LEMMA GivenIs ==
  ASSUME EpgTyped, standard \in {"DVB", "ATSC"}, NEW x \in Caller, Command(x)
  PROVE  /\ calls[x] = <<>> /\ ~misfed /\ ~raced
         /\ Given(calls'[x]) /\ calls'[x] \in Remains /\ calls' = [calls EXCEPT ![x] = calls'[x]]
         /\ \A y \in Caller : y # x => calls'[y] = calls[y]
         /\ raced' \in BOOLEAN /\ (raced' <=> \E y \in Caller \ {x} : calls[y] # <<>>)
         /\ UNCHANGED <<standard, onAir, unaware, mgt, capture, forgotten, doubled, misfed>>
<1>1. /\ calls[x] = <<>> /\ ~misfed /\ ~raced
      /\ UNCHANGED <<standard, onAir, unaware, mgt, capture, forgotten, doubled, misfed>>
  BY DEF Command, Busy
<1>2. raced' \in BOOLEAN /\ (raced' <=> \E y \in Caller \ {x} : calls[y] # <<>>)
  BY <1>1 DEF Command, Others, Busy
<1>3. PICK w : calls' = [calls EXCEPT ![x] = w] /\ Given(w)
  <2>1. CASE CommandEPGCapStart(x)
    BY <2>1 DEF CommandEPGCapStart, Start, Given
  <2>2. CASE CommandEPGCapStop(x)
    BY <2>2 DEF CommandEPGCapStop, Stop, Given
  <2>3. CASE CommandEPGCapRestart(x)
    BY <2>3 DEF CommandEPGCapRestart, Restart, Start, Given
  <2> QED
    BY <2>1, <2>2, <2>3 DEF Command
<1>4. calls'[x] = w /\ \A y \in Caller : y # x => calls'[y] = calls[y]
  BY <1>3 DEF EpgTyped
<1>5. w \in Remains
  BY <1>3 DEF Given, Remains, Restoring, StoppingDVB, StoppingATSC
<1> QED
  BY <1>1, <1>2, <1>3, <1>4, <1>5

LEMMA GivenKept ==
  ASSUME CaptureInv, standard \in {"DVB", "ATSC"}, NEW x \in Caller, Command(x)
  PROVE  CaptureInv'
<1> DEFINE w == calls'[x]
<1>1. /\ EpgTyped /\ MGTOfATSC /\ NothingElse /\ TwoAtMost /\ TablesAreKnown /\ NotedExists
      /\ NoOther /\ DecodersLive /\ FedRight
  BY DEF CaptureInv
<1>2. /\ calls[x] = <<>> /\ ~misfed /\ ~raced
      /\ Given(w) /\ w \in Remains /\ calls' = [calls EXCEPT ![x] = w]
      /\ raced' \in BOOLEAN /\ (raced' <=> \E y \in Caller \ {x} : calls[y] # <<>>)
      /\ UNCHANGED <<standard, onAir, unaware, mgt, capture, forgotten, doubled, misfed>>
  BY <1>1, GivenIs
<1>3. \A y \in Caller : y # x => calls'[y] = calls[y]
  BY <1>1, GivenIs
<1> HIDE DEF w
<1>4. /\ w # <<>> /\ w \notin Destroyed /\ w \notin {<<"attach">>, <<"clear">>} /\ Head(w) # "detach"
      /\ w \in StoppingDVB \/ Head(w) # "create" => capture.tsgroup # NoGroup
  <2>1. CASE w = <<"create", "attach">>
    BY <2>1, HeadsAndTails DEF Destroyed, StoppingDVB
  <2>2. CASE w = <<"remove", "detach", "attach">> /\ capture.tsgroup # NoGroup
    BY <2>2, HeadsAndTails DEF Destroyed, StoppingDVB
  <2>3. CASE w = <<"destroy", "detach", "clear">> /\ standard = "DVB" /\ capture.tsgroup # NoGroup
    BY <2>3, HeadsAndTails DEF Destroyed
  <2>4. CASE w = <<"remove", "detach", "destroy">> /\ standard = "ATSC" /\ capture.tsgroup # NoGroup
    BY <2>4, HeadsAndTails DEF Destroyed
  <2> QED
    BY <1>2, <2>1, <2>2, <2>3, <2>4 DEF Given
<1>5. EpgTyped' /\ MGTOfATSC' /\ NothingElse' /\ TablesAreKnown'
  <2>1. calls' \in [Caller -> Remains]
    BY <1>1, <1>2 DEF EpgTyped
  <2>2. Remains' = Remains
    BY <1>2 DEF Remains
  <2>3. EpgTyped'
    BY <1>1, <1>2, <2>1, <2>2 DEF EpgTyped
  <2> QED
    BY <1>1, <1>2, <2>3 DEF MGTOfATSC, NothingElse, TablesAreKnown
<1>6. TwoAtMost'
  <2>1. \A y, z \in Caller : y # z => calls[y] = <<>> \/ calls[z] = <<>>
    BY <1>1, <1>2 DEF TwoAtMost, Busy
  <2>2. SUFFICES ASSUME NEW y \in Caller, NEW z \in Caller, y # z, calls'[y] # <<>>, calls'[z] # <<>>
                 PROVE  raced' /\ \A v \in Caller \ {y, z} : calls'[v] = <<>>
    BY DEF TwoAtMost, Busy
  <2>3. CASE y # x /\ z # x
    BY <1>3, <2>1, <2>2, <2>3
  <2>4. CASE y = x
    BY <1>2, <1>3, <2>1, <2>2, <2>4
  <2>5. CASE z = x
    BY <1>2, <1>3, <2>1, <2>2, <2>5
  <2> QED
    BY <2>3, <2>4, <2>5
<1>7. NotedExists' /\ Complete'
  <2>1. NotedExists'
    <3>1. <<>> \notin Destroyed
      BY DEF Destroyed
    <3> QED
      BY <1>1, <1>2, <1>3, <3>1 DEF NotedExists, Exists
  <2>2. Busy(x)'
    BY <1>4 DEF Busy, w
  <2> QED
    BY <2>1, <2>2 DEF Complete
<1>8. NoOther'
  <2>1. ASSUME NEW y \in Caller, calls'[y] \in Destroyed PROVE calls[y] \in Destroyed
    BY <1>3, <1>4, <2>1 DEF w
  <2>2. ASSUME NEW y \in Caller, calls'[y] \in StoppingDVB PROVE capture.tsgroup # NoGroup
    <3>1. CASE y = x
      BY <1>4, <2>2, <3>1 DEF w
    <3>2. CASE y # x
      BY <1>1, <1>2, <1>3, <2>2, <3>2 DEF NoOther
    <3> QED
      BY <3>1, <3>2
  <2> QED
    BY <1>1, <1>2, <2>1, <2>2 DEF NoOther
<1>9. DecodersLive'
  <2> SUFFICES ASSUME ~raced'
               PROVE  FiltersLive' /\ TablesLive' /\ FiltersFirst' /\ OthersApart' /\ GroupNoted'
    BY DEF DecodersLive
  <2>1. FiltersLive /\ TablesLive /\ OthersApart
    BY <1>1, <1>2 DEF DecodersLive
  <2>2. \A y \in Caller : calls[y] = <<>> /\ (y # x => calls'[y] = <<>>)
    BY <1>2, <1>3
  <2>3. FiltersLive'
    BY <1>2, <2>1 DEF FiltersLive
  <2>4. TablesLive'
    BY <1>2, <2>1, <2>2 DEF TablesLive
  <2>5. FiltersFirst'
    BY <1>4, <2>2 DEF FiltersFirst, Busy, w
  <2>6. OthersApart'
    <3>1. <<>> # <<"attach">> /\ DecodersOf(capture)' = DecodersOf(capture)
      BY <1>2 DEF DecodersOf
    <3>2. \A g \in DOMAIN capture.groups \ {capture.tsgroup} : Values(capture.groups[g]) \cap DecodersOf(capture) = {}
      BY <2>1, <2>2, <3>1 DEF OthersApart
    <3> QED
      BY <1>2, <3>1, <3>2 DEF OthersApart
  <2>7. GroupNoted'
    BY <1>2, <1>4, <2>2 DEF GroupNoted, Busy, w
  <2> QED
    BY <2>3, <2>4, <2>5, <2>6, <2>7
<1>10. FedRight'
  BY <1>1, <1>2 DEF FedRight
<1> QED
  BY <1>5, <1>6, <1>7, <1>8, <1>9, <1>10 DEF CaptureInv

-----------------------------------------------------------------------------
(* The packet loop sets the capture up anew. *)

\* A capture in order: every filter and every table of the group has a decoder
\* that is attached, no other group one of theirs, and none was detached twice.
IsLive(c) ==
  /\ \A g \in DOMAIN c.groups : Values(c.groups[g]) \subseteq c.attached
  /\ c.tsgroup # NoGroup => Values(c.tables) \subseteq c.attached
  /\ \A g \in DOMAIN c.groups \ {c.tsgroup} : Values(c.groups[g]) \cap DecodersOf(c) = {}
  /\ ~c.twice

\* d is c with the filters of the group removed and its decoders detached.
LetGo(c, d) ==
  /\ d \in Capture /\ DOMAIN d.groups = DOMAIN c.groups /\ d.tsgroup = c.tsgroup
  /\ \A g \in DOMAIN c.groups : d.groups[g] = IF g = c.tsgroup THEN <<>> ELSE c.groups[g]
  /\ d.attached = c.attached \ DecodersOf(c)
  /\ d.twice <=> (c.twice \/ \E p \in DOMAIN c.tables : c.tables[p] \notin c.attached)

LEMMA LetGoIs ==
  ASSUME NEW c \in Capture
  PROVE  LET d == DetachDecoders(RemoveFilters(c)) IN LetGo(c, d) /\ d.tables = c.tables
<1> DEFINE r == RemoveFilters(c)
           d == DetachDecoders(r)
<1>1. /\ r \in Capture /\ DOMAIN r.groups = DOMAIN c.groups
      /\ \A g \in DOMAIN c.groups : r.groups[g] = IF g = c.tsgroup THEN <<>> ELSE c.groups[g]
      /\ r.tsgroup = c.tsgroup /\ r.attached = c.attached /\ r.twice = c.twice /\ r.tables = c.tables
  BY RemovedIs
<1> HIDE DEF r
<1>2. /\ d \in Capture /\ d.attached = r.attached \ DecodersOf(r)
      /\ d.twice <=> (r.twice \/ \E p \in DOMAIN r.tables : r.tables[p] \notin r.attached)
      /\ d.groups = r.groups /\ d.tsgroup = r.tsgroup /\ d.tables = r.tables
  BY <1>1, DetachedIs
<1> HIDE DEF d
<1>3. DecodersOf(r) = DecodersOf(c)
  BY <1>1 DEF DecodersOf
<1>4. LetGo(c, d) /\ d.tables = c.tables
  BY <1>1, <1>2, <1>3 DEF LetGo
<1> QED
  BY <1>4 DEF d, r

LEMMA ClearedIs ==
  ASSUME NEW c \in Capture
  PROVE  LET d == ClearTableInfo(c) IN
         /\ d \in Capture /\ d.tables = <<>> /\ DOMAIN d.groups = DOMAIN c.groups /\ d.tsgroup = c.tsgroup
         /\ c.tsgroup # NoGroup => LetGo(c, d)
         /\ c.tsgroup = NoGroup => d.groups = c.groups /\ d.attached = c.attached /\ d.twice = c.twice
<1>1. CASE c.tsgroup = NoGroup
  BY <1>1, NoFilters, WithTables DEF ClearTableInfo, ForgetTables
<1>2. CASE c.tsgroup # NoGroup
  <2> DEFINE e == DetachDecoders(RemoveFilters(c))
             d == ForgetTables(e)
  <2>1. LetGo(c, e)
    BY LetGoIs
  <2>2. e \in Capture
    BY <2>1 DEF LetGo
  <2> HIDE DEF e
  <2>3. d \in Capture /\ d.tables = <<>> /\ d.groups = e.groups /\ d.tsgroup = e.tsgroup /\ d.attached = e.attached /\ d.twice = e.twice
    BY <2>2, NoFilters, WithTables DEF ForgetTables
  <2> HIDE DEF d
  <2>4. LetGo(c, d)
    BY <2>1, <2>3 DEF LetGo
  <2>5. ClearTableInfo(c) = d
    BY <1>2 DEF ClearTableInfo, d, e
  <2> QED
    BY <1>2, <2>3, <2>4, <2>5 DEF LetGo
<1> QED
  BY <1>1, <1>2

\* What was in order stays so without the filters and decoders of the group.
LEMMA LetGoIsLive ==
  ASSUME NEW c \in Capture, NEW d, IsLive(c), c.tsgroup # NoGroup, LetGo(c, d)
  PROVE  ~d.twice /\ \A g \in DOMAIN d.groups : Values(d.groups[g]) \subseteq d.attached
<1>1. Values(<<>>) = {}
  BY NoFilters
<1>2. ~d.twice
  BY DEF IsLive, LetGo, Values
<1>3. ASSUME NEW g \in DOMAIN c.groups PROVE Values(d.groups[g]) \subseteq d.attached
  <2>1. CASE g = c.tsgroup
    BY <1>1, <2>1 DEF LetGo
  <2>2. CASE g # c.tsgroup
    BY <2>2 DEF LetGo, IsLive
  <2> QED
    BY <2>1, <2>2
<1> QED
  BY <1>2, <1>3 DEF LetGo

LEMMA AttachedIsLive ==
  ASSUME NEW d \in Capture, ~d.twice, \A g \in DOMAIN d.groups : Values(d.groups[g]) \subseteq d.attached
  PROVE  IsLive(AttachDecoders(d))
<1> DEFINE a == AttachDecoders(d)
<1>1. /\ a.tables = Fresh(d) /\ a.attached = (d.attached \cap Referred(d)) \cup Values(Fresh(d))
      /\ DOMAIN a.groups = DOMAIN d.groups
      /\ \A g \in DOMAIN d.groups : a.groups[g] = IF g = d.tsgroup THEN Fresh(d) ELSE d.groups[g]
      /\ a.tsgroup = d.tsgroup /\ a.twice = d.twice
  BY AttachedIs
<1>2. /\ Values(Fresh(d)) \cap Referred(d) = {}
      /\ \A g \in DOMAIN d.groups : Values(d.groups[g]) \subseteq d.attached \cap Referred(d)
  BY FreshAre DEF Referred
<1> HIDE DEF a
<1>3. DecodersOf(a) \subseteq Values(Fresh(d))
  BY <1>1 DEF DecodersOf, Values
<1>4. IsLive(a)
  BY <1>1, <1>2, <1>3 DEF IsLive
<1> QED
  BY <1>4 DEF a

\* When nothing is under way what must hold is that the capture is in order.
LEMMA IdleIsLive ==
  ASSUME DecodersLive, FedRight, ~raced, \A x \in Caller : ~Busy(x)
  PROVE  IsLive(capture)
<1>1. \A x \in Caller : calls[x] \notin {<<"attach">>, <<"clear">>}
  BY DEF Busy
<1>2. FiltersLive /\ TablesLive /\ OthersApart /\ ~capture.twice
  BY DEF DecodersLive, FedRight
<1> QED
  BY <1>1, <1>2 DEF FiltersLive, TablesLive, OthersApart, IsLive

LEMMA SetUpKept ==
  ASSUME CaptureInv, Meets, UNCHANGED <<standard, onAir, calls, doubled>>,
         DOMAIN capture'.groups = DOMAIN capture.groups, capture'.tsgroup = capture.tsgroup,
         misfed' <=> capture'.twice,
         (\A x \in Caller : ~Busy(x)) /\ IsLive(capture) => IsLive(capture')
  PROVE  TwoAtMost' /\ NotedExists' /\ NoOther' /\ DecodersLive' /\ FedRight'
<1>1. TwoAtMost /\ NotedExists /\ NoOther /\ DecodersLive /\ FedRight
  BY DEF CaptureInv
<1>2. raced => raced'
  BY DEF Meets
<1>3. TwoAtMost'
  BY <1>1, <1>2 DEF TwoAtMost, Busy
<1>4. NotedExists'
  BY <1>1 DEF NotedExists, Exists
<1>5. NoOther'
  <2>1. StoppingDVB' = StoppingDVB /\ Destroyed' = Destroyed
    BY DEF StoppingDVB, Destroyed
  <2> QED
    BY <1>1, <1>2, <2>1 DEF NoOther
<1>6. CASE raced'
  BY <1>3, <1>4, <1>5, <1>6 DEF DecodersLive, FedRight
<1>7. CASE ~raced'
  <2>1. ~raced /\ \A x \in Caller : ~Busy(x)
    BY <1>7 DEF Meets
  <2>2. IsLive(capture')
    BY <1>1, <2>1, IdleIsLive
  <2>3. \A x \in Caller : ~Busy(x)'
    BY <2>1 DEF Busy
  <2>4. FiltersLive' /\ TablesLive' /\ OthersApart' /\ ~capture'.twice
    BY <2>2 DEF IsLive, FiltersLive, TablesLive, OthersApart, DecodersOf
  <2>5. FiltersFirst' /\ GroupNoted'
    BY <2>3 DEF FiltersFirst, GroupNoted
  <2> QED
    BY <1>3, <1>4, <1>5, <2>4, <2>5 DEF DecodersLive, FedRight
<1> QED
  BY <1>6, <1>7

LEMMA CallbackKept ==
  ASSUME CaptureInv, FilterGroupEventCallback
  PROVE  CaptureInv'
<1> DEFINE c == capture
           d == IF standard = "ATSC" THEN ClearTableInfo(c)
                ELSE IF DecodersOf(c) = {} THEN c ELSE DetachDecoders(RemoveFilters(c))
<1>1. /\ EpgTyped /\ MGTOfATSC /\ NothingElse /\ TablesAreKnown /\ c \in Capture
  BY DEF CaptureInv, EpgTyped
<1>2. /\ unaware /\ ~misfed /\ unaware' = FALSE /\ mgt' = FALSE /\ Meets
      /\ UNCHANGED <<standard, onAir, calls, doubled, forgotten>> /\ misfed' = capture'.twice
      /\ raced' = (raced \/ \E x \in Caller : Busy(x))
  BY DEF FilterGroupEventCallback, Meets
<1>3. capture' = IF DOMAIN c.groups = {} \/ c.tsgroup = NoGroup THEN c
                 ELSE IF standard = "ATSC" THEN d ELSE AttachDecoders(d)
  BY DEF FilterGroupEventCallback
<1>4. standard \in {"DVB", "ATSC"}
  BY <1>1, <1>2 DEF EpgTyped, NothingElse
<1>5. /\ d \in Capture /\ DOMAIN d.groups = DOMAIN c.groups /\ d.tsgroup = c.tsgroup
      /\ IF standard = "ATSC" THEN d.tables = <<>> ELSE d.tables = c.tables
      /\ c.tsgroup # NoGroup => d = c \/ LetGo(c, d)
  <2>1. CASE standard = "ATSC"
    BY <1>1, <2>1, ClearedIs
  <2>2. CASE standard # "ATSC" /\ DecodersOf(c) = {}
    BY <1>1, <2>2
  <2>3. CASE standard # "ATSC" /\ DecodersOf(c) # {}
    <3> DEFINE e == DetachDecoders(RemoveFilters(c))
    <3>1. LetGo(c, e) /\ e.tables = c.tables
      BY <1>1, LetGoIs
    <3>2. d = e
      BY <2>3
    <3> QED
      BY <2>3, <3>1, <3>2 DEF LetGo
  <2> QED
    BY <2>1, <2>2, <2>3
<1> HIDE DEF d
<1>6. /\ capture' \in Capture /\ DOMAIN capture'.groups = DOMAIN c.groups /\ capture'.tsgroup = c.tsgroup
      /\ standard = "DVB" => DOMAIN capture'.tables = DOMAIN c.tables
  <2>1. CASE DOMAIN c.groups = {} \/ c.tsgroup = NoGroup
    BY <1>1, <1>3, <2>1
  <2>2. CASE ~(DOMAIN c.groups = {} \/ c.tsgroup = NoGroup) /\ standard = "ATSC"
    BY <1>3, <1>5, <2>2
  <2>3. CASE ~(DOMAIN c.groups = {} \/ c.tsgroup = NoGroup) /\ standard = "DVB"
    BY <1>3, <1>5, <2>3, AttachedIs, FreshAre
  <2> QED
    BY <1>4, <2>1, <2>2, <2>3
<1>7. EpgTyped' /\ MGTOfATSC' /\ NothingElse' /\ TablesAreKnown'
  <2>1. raced' \in BOOLEAN /\ misfed' \in BOOLEAN
    BY <1>1, <1>2, <1>6, CaptureIs DEF EpgTyped
  <2>2. Remains' = Remains
    BY <1>2 DEF Remains
  <2>3. EpgTyped'
    BY <1>1, <1>2, <1>6, <2>1, <2>2 DEF EpgTyped
  <2> QED
    BY <1>1, <1>2, <1>4, <1>6, <2>3 DEF MGTOfATSC, NothingElse, TablesAreKnown
<1>8. \A g \in DOMAIN c.groups : g # NoGroup
  <2>1. DOMAIN c.groups \subseteq 1..MaxGroups
    BY <1>1, CaptureIs
  <2> QED
    BY <2>1 DEF NoGroup
<1>9. Complete'
  <2> SUFFICES ASSUME c.tsgroup \in DOMAIN c.groups, standard = "DVB"
               PROVE  DOMAIN capture'.groups[capture'.tsgroup] = DVBPids
    BY <1>2, <1>4, <1>6 DEF Complete, Exists
  <2>1. capture' = AttachDecoders(d)
    BY <1>3, <1>8
  <2>2. capture'.groups[c.tsgroup] = Fresh(d)
    BY <1>5, <2>1, AttachedIs
  <2>3. DOMAIN Fresh(d) = DVBPids
    BY <1>1, <1>5, FreshAre DEF TablesAreKnown
  <2> QED
    BY <1>6, <2>2, <2>3
<1>10. ASSUME IsLive(c) PROVE IsLive(capture')
  <2>1. CASE DOMAIN c.groups = {} \/ c.tsgroup = NoGroup
    BY <1>3, <1>10, <2>1
  <2>2. CASE ~(DOMAIN c.groups = {} \/ c.tsgroup = NoGroup)
    <3>1. ~d.twice /\ \A g \in DOMAIN d.groups : Values(d.groups[g]) \subseteq d.attached
      <4>1. CASE d = c
        BY <1>10, <4>1 DEF IsLive
      <4>2. CASE LetGo(c, d)
        BY <1>1, <1>10, <2>2, <4>2, LetGoIsLive
      <4> QED
        BY <1>5, <2>2, <4>1, <4>2
    <3>2. CASE standard = "ATSC"
      <4>1. DecodersOf(d) = {} /\ Values(d.tables) = {}
        BY <1>5, <3>2, NoFilters DEF DecodersOf, Values
      <4>2. IsLive(d)
        BY <3>1, <4>1 DEF IsLive
      <4> QED
        BY <1>3, <2>2, <3>2, <4>2
    <3>3. CASE standard = "DVB"
      BY <1>3, <1>5, <2>2, <3>1, <3>3, AttachedIsLive
    <3> QED
      BY <1>4, <3>2, <3>3
  <2> QED
    BY <2>1, <2>2
<1>11. TwoAtMost' /\ NotedExists' /\ NoOther' /\ DecodersLive' /\ FedRight'
  BY <1>2, <1>6, <1>10, SetUpKept
<1> QED
  BY <1>7, <1>9, <1>11 DEF CaptureInv

LEMMA NewMGTKept ==
  ASSUME CaptureInv, received \in DOMAIN OnAir, NewMGT
  PROVE  CaptureInv'
<1> DEFINE c == capture
           z == [p \in OnAir[received] |-> NoDecoder]
           b == ClearTableInfo(c)
           d == [b EXCEPT !.tables = z]
<1>1. EpgTyped /\ MGTOfATSC /\ c \in Capture
  BY DEF CaptureInv, EpgTyped
<1>2. /\ standard = "ATSC" /\ ~misfed /\ mgt' = (received = onAir) /\ forgotten' = FALSE /\ Meets
      /\ UNCHANGED <<standard, onAir, unaware, calls, doubled>> /\ misfed' = capture'.twice
      /\ raced' = (raced \/ \E x \in Caller : Busy(x))
      /\ capture' = IF c.tsgroup = NoGroup THEN d ELSE AttachDecoders(d)
  BY DEF NewMGT, Meets
<1>3. z \in PIDFilters /\ DOMAIN z = OnAir[received] /\ \A p \in DOMAIN z : z[p] = NoDecoder
  <2>1. OnAir[received] \in Pids
    BY <1>1, EpgAssumption DEF EpgTyped, Pids, AllPids
  <2>2. z \in [OnAir[received] -> Nat]
    BY DEF NoDecoder
  <2> QED
    BY <2>1, <2>2, AreFilters
<1>4. /\ b \in Capture /\ DOMAIN b.groups = DOMAIN c.groups /\ b.tsgroup = c.tsgroup
      /\ c.tsgroup # NoGroup => LetGo(c, b)
      /\ c.tsgroup = NoGroup => b.groups = c.groups /\ b.attached = c.attached /\ b.twice = c.twice
  BY <1>1, ClearedIs
<1> HIDE DEF z, b
<1>5. d \in Capture /\ d.tables = z /\ d.groups = b.groups /\ d.tsgroup = b.tsgroup /\ d.attached = b.attached /\ d.twice = b.twice
  BY <1>3, <1>4, WithTables
<1> HIDE DEF d
<1>6. DOMAIN Fresh(d) = OnAir[received]
  BY <1>3, <1>5, FreshAre
<1>7. /\ capture' \in Capture /\ DOMAIN capture'.groups = DOMAIN c.groups /\ capture'.tsgroup = c.tsgroup
      /\ DOMAIN capture'.tables = OnAir[received]
  <2>1. CASE c.tsgroup = NoGroup
    BY <1>2, <1>3, <1>4, <1>5, <2>1
  <2>2. CASE c.tsgroup # NoGroup
    BY <1>2, <1>4, <1>5, <1>6, <2>2, AttachedIs
  <2> QED
    BY <2>1, <2>2
<1>8. EpgTyped' /\ MGTOfATSC' /\ NothingElse' /\ TablesAreKnown'
  <2>1. raced' \in BOOLEAN /\ misfed' \in BOOLEAN
    BY <1>1, <1>2, <1>7, CaptureIs DEF EpgTyped
  <2>2. Remains' = Remains
    BY <1>2 DEF Remains
  <2>3. EpgTyped'
    BY <1>1, <1>2, <1>7, <2>1, <2>2 DEF EpgTyped
  <2> QED
    BY <1>1, <1>2, <1>7, <2>3 DEF MGTOfATSC, NothingElse, TablesAreKnown
<1>9. \A g \in DOMAIN c.groups : g # NoGroup
  <2>1. DOMAIN c.groups \subseteq 1..MaxGroups
    BY <1>1, CaptureIs
  <2> QED
    BY <2>1 DEF NoGroup
<1>10. Complete'
  <2> SUFFICES ASSUME c.tsgroup \in DOMAIN c.groups
               PROVE  DOMAIN capture'.groups[capture'.tsgroup] = OnAir[received]
    BY <1>2, <1>7 DEF Complete, Exists
  <2>1. capture' = AttachDecoders(d)
    BY <1>2, <1>9
  <2>2. capture'.groups[c.tsgroup] = Fresh(d)
    BY <1>4, <1>5, <2>1, AttachedIs
  <2> QED
    BY <1>6, <1>7, <2>2
<1>11. ASSUME IsLive(c) PROVE IsLive(capture')
  <2>1. CASE c.tsgroup = NoGroup
    <3>1. DecodersOf(d) = {}
      BY <1>3, <1>5 DEF DecodersOf
    <3>2. IsLive(d)
      BY <1>4, <1>5, <1>11, <2>1, <3>1 DEF IsLive
    <3> QED
      BY <1>2, <2>1, <3>2
  <2>2. CASE c.tsgroup # NoGroup
    <3>1. ~b.twice /\ \A g \in DOMAIN b.groups : Values(b.groups[g]) \subseteq b.attached
      BY <1>1, <1>4, <1>11, <2>2, LetGoIsLive
    <3> QED
      BY <1>2, <1>5, <2>2, <3>1, AttachedIsLive
  <2> QED
    BY <2>1, <2>2
<1>12. TwoAtMost' /\ NotedExists' /\ NoOther' /\ DecodersLive' /\ FedRight'
  BY <1>2, <1>7, <1>11, SetUpKept
<1> QED
  BY <1>8, <1>10, <1>12 DEF CaptureInv

-----------------------------------------------------------------------------
(* Whatever else happens. *)

LEMMA UntouchedKept ==
  ASSUME CaptureInv, UNCHANGED <<standard, onAir, unaware, mgt, capture, calls, raced, forgotten, doubled, misfed>>
  PROVE  CaptureInv'
<1>1. EpgTyped' /\ MGTOfATSC' /\ NothingElse' /\ TwoAtMost' /\ TablesAreKnown'
  BY DEF CaptureInv, EpgTyped, Remains, MGTOfATSC, NothingElse, TwoAtMost, Busy, TablesAreKnown
<1>2. NotedExists' /\ Complete' /\ NoOther'
  BY DEF CaptureInv, NotedExists, Exists, Complete, Busy, NoOther
<1>3. DecodersLive' /\ FedRight'
  BY DEF CaptureInv, DecodersLive, FiltersLive, TablesLive, FiltersFirst, Exists, Busy, OthersApart, DecodersOf, GroupNoted,
     FedRight
<1> QED
  BY <1>1, <1>2, <1>3 DEF CaptureInv

\* A multiplex and a new version of its MGT are still to be noticed.
LEMMA TuneKept ==
  ASSUME CaptureInv, onAir' \in DOMAIN OnAir, unaware' \in BOOLEAN, mgt' = FALSE,
         unaware' \/ (standard = "ATSC" /\ unaware' = unaware /\ onAir' = onAir),
         standard \in {"DVB", "ATSC"},
         UNCHANGED <<standard, capture, calls, raced, forgotten, doubled, misfed>>
  PROVE  CaptureInv'
<1>1. EpgTyped' /\ MGTOfATSC' /\ NothingElse' /\ TwoAtMost' /\ TablesAreKnown'
  BY DEF CaptureInv, EpgTyped, Remains, MGTOfATSC, NothingElse, TwoAtMost, Busy, TablesAreKnown
<1>2. NotedExists' /\ Complete' /\ NoOther'
  BY DEF CaptureInv, NotedExists, Exists, Complete, Busy, NoOther
<1>3. DecodersLive' /\ FedRight'
  BY DEF CaptureInv, DecodersLive, FiltersLive, TablesLive, FiltersFirst, Exists, Busy, OthersApart, DecodersOf, GroupNoted,
     FedRight
<1> QED
  BY <1>1, <1>2, <1>3 DEF CaptureInv

LEMMA EITKept ==
  ASSUME CaptureInv, NEW g, NEW p, ProcessEIT(g, p)
  PROVE  CaptureInv'
<1> DEFINE live == capture.groups[g][p] \in capture.attached
<1>1. /\ ~misfed /\ g \in DOMAIN capture.groups /\ p \in DOMAIN capture.groups[g] /\ misfed' = ~live
      /\ UNCHANGED <<standard, onAir, unaware, mgt, capture, calls, raced, forgotten, doubled>>
  BY DEF ProcessEIT
<1>2. EpgTyped' /\ MGTOfATSC' /\ NothingElse' /\ TwoAtMost' /\ TablesAreKnown'
  BY <1>1 DEF CaptureInv, EpgTyped, Remains, MGTOfATSC, NothingElse, TwoAtMost, Busy, TablesAreKnown
<1>3. NotedExists' /\ Complete' /\ NoOther'
  BY <1>1 DEF CaptureInv, NotedExists, Exists, Complete, Busy, NoOther
<1>4. DecodersLive'
  BY <1>1 DEF CaptureInv, DecodersLive, FiltersLive, TablesLive, FiltersFirst, Exists, Busy, OthersApart, DecodersOf, GroupNoted
<1>5. ~raced => live
  BY <1>1 DEF CaptureInv, DecodersLive, FiltersLive, Values
<1>6. FedRight'
  BY <1>1, <1>5 DEF CaptureInv, FedRight
<1> QED
  BY <1>2, <1>3, <1>4, <1>6 DEF CaptureInv

LEMMA CaptureKept ==
  ASSUME CaptureInv, received \in DOMAIN OnAir, [EpgNext]_epg
  PROVE  CaptureInv'
<1>1. CASE UNCHANGED epg
  BY <1>1, UntouchedKept DEF epg
<1>2. ASSUME NEW x \in Caller, standard \in {"DVB", "ATSC"}, Command(x) PROVE CaptureInv'
  BY <1>2, GivenKept
<1>3. ASSUME NEW x \in Caller, CommandGoesOn(x) PROVE CaptureInv'
  BY <1>3, GoingOnTyped, GoingOnTwo, GoingOnNoted, GoingOnNoOther, GoingOnLive DEF CaptureInv
<1>4. ASSUME NEW m \in DOMAIN OnAir, standard \in {"DVB", "ATSC"}, Tune(m) PROVE CaptureInv'
  BY <1>4, TuneKept DEF Tune
<1>5. CASE NewVersion
  <2>1. standard = "ATSC" /\ EpgTyped
    BY <1>5 DEF NewVersion, CaptureInv, MGTOfATSC
  <2> QED
    BY <1>5, <2>1, TuneKept DEF NewVersion, EpgTyped
<1>6. ASSUME NEW g, NEW p, ProcessEIT(g, p) PROVE CaptureInv'
  BY <1>6, EITKept
<1>7. CASE DeferredProcessEIT
  BY <1>7, UntouchedKept DEF DeferredProcessEIT
<1>8. CASE FrontEndTuned \/ WriteOn \/ PrintEvent \/ (\E events : ProcessPFEIT(events)) \/ \E i : CommandNow(i)
  <2>1. UNCHANGED <<standard, onAir, unaware, mgt, capture, calls, raced, forgotten, doubled, misfed>>
    <3>1. CASE WriteOn \/ PrintEvent
      BY <3>1, Zenon DEF WriteOn, PrintEvent
    <3>2. CASE FrontEndTuned
      BY <3>2, Zenon DEF FrontEndTuned
    <3>3. CASE \E events : ProcessPFEIT(events)
      BY <3>3, Zenon DEF ProcessPFEIT
    <3>4. CASE \E i : CommandNow(i)
      BY <3>4, Zenon DEF CommandNow
    <3> QED
      BY <1>8, <3>1, <3>2, <3>3, <3>4
  <2> QED
    BY <2>1, UntouchedKept
<1>9. ASSUME NEW ds, ShowEvent(ds) PROVE CaptureInv'
  BY <1>9, UntouchedKept DEF ShowEvent
<1> QED
  BY <1>1, <1>2, <1>3, <1>4, <1>5, <1>6, <1>7, <1>8, <1>9, CallbackKept, NewMGTKept DEF EpgNext

\* What waits has the multiplex noted that it is reported for.
Noted(j) == j.noted = IF standard = "ATSC" THEN j.current ELSE j.from
Jobs == {j \in [from : DOMAIN OnAir, current : DOMAIN OnAir, noted : DOMAIN OnAir] : Noted(j)}

Announced == waiting \in Seq(Jobs) /\ Noted(reported) /\ received \in DOMAIN OnAir /\ SentAsMade

\* Between two tables the name of each event, if it has one, is that of its times and
\* description; and a command that was not torn has read from between two tables.
WholeEvents ==
  \A i \in 1..2 : /\ "name" \in DOMAIN info.was[i]
                  /\ info.was[i].name # 0 => /\ info.was[i].times = info.was[i].name
                                             /\ info.was[i].description = info.was[i].name
ReadSoFar ==
  (~torn /\ reading.done < Reads) =>
    /\ info.written = 0 /\ reading.description = {}
    /\ reading.times = IF reading.done = 0 THEN {} ELSE {info.was[reading.of].times}
    /\ reading.name = IF reading.done <= 1 THEN {} ELSE {info.was[reading.of].name}
NowNextInv ==
  /\ DOMAIN info = {"was", "events", "written"} /\ info.written \in 0..(Writes - 1)
  /\ DOMAIN reading = {"of", "done", "times", "name", "description"}
  /\ reading.of \in 1..2 /\ reading.done \in 0..Reads
  /\ WholeEvents /\ ReadSoFar /\ NowNextAgree

LEMMA WrittenIsWhole ==
  ASSUME WholeEvents, NEW i \in 1..2
  PROVE  LET e == Written(i, Writes) IN
           "name" \in DOMAIN e /\ (e.name # 0 => e.times = e.name /\ e.description = e.name)
<1>1. Cleared(info.was[i]).name = 0 /\ "name" \in DOMAIN Cleared(info.was[i])
  BY DEF Cleared, WholeEvents
<1>2. CASE i > Len(info.events)
  <2>1. Written(i, Writes) = Cleared(info.was[i])
    BY <1>2 DEF Written, Writes
  <2> QED
    BY <1>1, <2>1
<1>3. CASE ~(i > Len(info.events))
  <2> DEFINE n == Writes - (3 * i - 1)
  <2>1. n >= 3
    BY DEF Writes
  <2>2. Written(i, Writes) = UpdateEvent(Cleared(info.was[i]), info.events[i], n)
    BY <1>3 DEF Written, Writes
  <2>3. n >= 1 /\ n >= 2
    BY DEF Writes
  <2> HIDE DEF n
  <2> QED
    BY <1>1, <2>1, <2>2, <2>3 DEF UpdateEvent
<1> QED
  BY <1>2, <1>3

LEMMA TearKept ==
  ASSUME NowNextInv, Tear, WholeEvents', DOMAIN info' = {"was", "events", "written"}, info'.written \in 0..(Writes - 1)
  PROVE  NowNextInv'
<1>1. CASE reading.done = Reads
  <2>1. reading' = reading /\ torn' = torn
    BY <1>1 DEF Tear
  <2>2. NowNextAgree' /\ ReadSoFar'
    BY <1>1, <2>1 DEF NowNextInv, NowNextAgree, ReadSoFar, Reads
  <2> QED
    BY <2>1, <2>2 DEF NowNextInv
<1>2. CASE reading.done # Reads
  <2>1. torn' = TRUE /\ reading' = Unread(reading.of, reading.done)
    BY <1>2 DEF Tear
  <2>2. NowNextAgree' /\ ReadSoFar'
    BY <2>1 DEF NowNextAgree, ReadSoFar
  <2>3. /\ DOMAIN reading' = {"of", "done", "times", "name", "description"}
        /\ reading'.of = reading.of /\ reading'.done = reading.done
    BY <2>1 DEF Unread
  <2> QED
    BY <2>2, <2>3 DEF NowNextInv
<1> QED
  BY <1>1, <1>2

LEMMA NowNextKept ==
  ASSUME NowNextInv, [EpgNext]_epg
  PROVE  NowNextInv'
<1>1. CASE UNCHANGED nownext
  BY <1>1 DEF nownext, NowNextInv, WholeEvents, ReadSoFar, NowNextAgree
<1>2. ASSUME NEW events, ProcessPFEIT(events) PROVE NowNextInv'
  <2>1. info.written = 0 /\ info' = [info EXCEPT !.events = events, !.written = 1] /\ Tear
    BY <1>2 DEF ProcessPFEIT
  <2>2. info'.was = info.was /\ info'.written = 1 /\ DOMAIN info' = {"was", "events", "written"}
    BY <2>1 DEF NowNextInv
  <2>3. WholeEvents'
    BY <2>2 DEF NowNextInv, WholeEvents
  <2> QED
    <3>1. info'.written \in 0..(Writes - 1)
      BY <2>2 DEF Writes
    <3> QED
      BY <2>1, <2>2, <2>3, <3>1, TearKept
<1>3. CASE WriteOn
  <2>1. CASE info.written + 1 < Writes
    <3>1. info' = [info EXCEPT !.written = @ + 1] /\ Tear
      BY <1>3, <2>1 DEF WriteOn
    <3>2. info'.was = info.was /\ info'.written = info.written + 1 /\ DOMAIN info' = {"was", "events", "written"}
      BY <3>1 DEF NowNextInv
    <3>3. WholeEvents' /\ info'.written \in 0..(Writes - 1)
      BY <2>1, <3>2 DEF NowNextInv, WholeEvents, Writes
    <3> QED
      BY <3>1, <3>2, <3>3, TearKept
  <2>2. CASE ~(info.written + 1 < Writes)
    <3>1. info' = [was |-> [i \in 1..2 |-> Written(i, Writes)], events |-> <<>>, written |-> 0] /\ Tear
      BY <1>3, <2>2 DEF WriteOn
    <3>2. \A i \in 1..2 : info'.was[i] = Written(i, Writes)
      BY <3>1
    <3>3. WholeEvents'
      BY <3>2, WrittenIsWhole DEF NowNextInv, WholeEvents
    <3>4. info'.written = 0 /\ DOMAIN info' = {"was", "events", "written"}
      BY <3>1
    <3>5. info'.written \in 0..(Writes - 1)
      BY <3>4 DEF Writes
    <3> QED
      BY <3>1, <3>3, <3>4, <3>5, TearKept
  <2> QED
    BY <2>1, <2>2
<1>4. ASSUME NEW i \in 1..2, CommandNow(i) PROVE NowNextInv'
  <2>1. reading' = Unread(i, 0) /\ torn' = (info.written # 0) /\ info' = info
    BY <1>4 DEF CommandNow
  <2>2. /\ DOMAIN reading' = {"of", "done", "times", "name", "description"} /\ reading'.of = i /\ reading'.done = 0
        /\ reading'.times = {} /\ reading'.name = {} /\ reading'.description = {}
    BY <2>1 DEF Unread
  <2>3. WholeEvents' /\ reading'.done \in 0..Reads
    BY <2>1, <2>2 DEF NowNextInv, WholeEvents, Reads
  <2>4. ~torn' => info'.written = 0
    BY <2>1
  <2>5. NowNextAgree' /\ ReadSoFar'
    BY <2>2, <2>4 DEF ReadSoFar, NowNextAgree, Reads
  <2> QED
    BY <2>1, <2>2, <2>3, <2>5 DEF NowNextInv
<1>5. CASE PrintEvent
  <2> DEFINE p == NowNext(reading.of)
             times == IF reading.done \in {0, 2} /\ ~torn THEN {p.times} ELSE {}
             name == IF reading.done \in {1} /\ ~torn THEN {p.name} ELSE {}
             description == IF reading.done \in {3} /\ ~torn THEN {p.description} ELSE {}
  <2>1. /\ reading.done < Reads /\ info' = info /\ torn' = torn
        /\ reading' = [reading EXCEPT !.done = @ + 1, !.times = @ \cup times,
                                      !.name = @ \cup name, !.description = @ \cup description]
    BY <1>5 DEF PrintEvent
  <2>2. ~torn => p = info.was[reading.of]
    BY <2>1 DEF NowNextInv, ReadSoFar, NowNext, Written
  <2>3. ~torn => /\ times = IF reading.done \in {0, 2} THEN {info.was[reading.of].times} ELSE {}
                 /\ name = IF reading.done = 1 THEN {info.was[reading.of].name} ELSE {}
                 /\ description = IF reading.done = 3 THEN {info.was[reading.of].description} ELSE {}
    BY <2>2
  <2> HIDE DEF p, times, name, description
  <2>4. /\ DOMAIN reading' = {"of", "done", "times", "name", "description"}
        /\ reading'.of = reading.of /\ reading'.done = reading.done + 1
        /\ reading'.times = reading.times \cup times /\ reading'.name = reading.name \cup name
        /\ reading'.description = reading.description \cup description
    BY <2>1 DEF NowNextInv
  <2>5. reading.done \in 0..3
    BY <2>1 DEF NowNextInv, Reads
  <2>6. ASSUME ~torn
        PROVE  /\ reading'.times = {info.was[reading.of].times}
               /\ reading'.name = IF reading.done = 0 THEN {} ELSE {info.was[reading.of].name}
               /\ reading'.description = IF reading.done = 3 THEN {info.was[reading.of].description} ELSE {}
    <3>1. /\ reading.description = {}
          /\ reading.times = IF reading.done = 0 THEN {} ELSE {info.was[reading.of].times}
          /\ reading.name = IF reading.done <= 1 THEN {} ELSE {info.was[reading.of].name}
      BY <2>1, <2>6 DEF NowNextInv, ReadSoFar
    <3> QED
      BY <2>3, <2>4, <2>5, <2>6, <3>1
  <2>7. WholeEvents' /\ reading'.done \in 0..Reads /\ info'.written \in 0..(Writes - 1)
    BY <2>1, <2>4, <2>5 DEF NowNextInv, WholeEvents, Reads
  <2>8. ReadSoFar'
    BY <2>1, <2>4, <2>5, <2>6 DEF NowNextInv, ReadSoFar, Reads
  <2>9. NowNextAgree'
    <3> SUFFICES ASSUME reading'.done = Reads, ~torn, reading'.name # {0}
                 PROVE  reading'.times = reading'.name /\ reading'.description = reading'.name
      BY <2>1 DEF NowNextAgree
    <3>1. reading.done = 3 /\ reading.of \in 1..2
      BY <2>4, <2>5 DEF Reads, NowNextInv
    <3>2. /\ reading'.name = {info.was[reading.of].name} /\ reading'.times = {info.was[reading.of].times}
          /\ reading'.description = {info.was[reading.of].description}
      BY <2>6, <3>1
    <3>3. info.was[reading.of].name # 0
      BY <3>2
    <3> QED
      BY <3>1, <3>2, <3>3 DEF NowNextInv, WholeEvents
  <2> QED
    BY <2>1, <2>4, <2>7, <2>8, <2>9 DEF NowNextInv
<1> QED
  BY <1>1, <1>2, <1>3, <1>4, <1>5 DEF EpgNext, Command, CommandGoesOn, Tune, FrontEndTuned, FilterGroupEventCallback,
     NewMGT, NewVersion, ProcessEIT, DeferredProcessEIT, ShowEvent, epg

LEMMA AnnouncedKept ==
  ASSUME CaptureInv, Announced, [EpgNext]_epg
  PROVE  Announced'
<1>1. waiting \in Seq(Jobs) /\ Noted(reported) /\ received \in DOMAIN OnAir /\ onAir \in DOMAIN OnAir
  BY DEF Announced, CaptureInv, EpgTyped
<1>2. SentAsMade'
  BY SentAsMadeKept DEF Announced
<1> DEFINE OfNowNext == WriteOn \/ PrintEvent \/ (\E events : ProcessPFEIT(events)) \/ \E i : CommandNow(i)
<1>9. OfNowNext => UNCHANGED <<standard, onAir, received, waiting, reported>>
  <2>1. WriteOn \/ PrintEvent => UNCHANGED <<standard, onAir, received, waiting, reported>>
    BY Zenon DEF WriteOn, PrintEvent
  <2>2. (\E events : ProcessPFEIT(events)) => UNCHANGED <<standard, onAir, received, waiting, reported>>
    BY Zenon DEF ProcessPFEIT
  <2>3. (\E i : CommandNow(i)) => UNCHANGED <<standard, onAir, received, waiting, reported>>
    BY Zenon DEF CommandNow
  <2> QED
    BY <2>1, <2>2, <2>3
<1>3. standard' = standard
  <2>1. CASE OfNowNext
    BY <1>9, <2>1
  <2> HIDE DEF OfNowNext
  <2>2. CASE ~OfNowNext
    BY <2>2 DEF OfNowNext, EpgNext, Command, CommandGoesOn, Tune, FrontEndTuned, FilterGroupEventCallback, NewMGT,
       NewVersion, ProcessEIT, DeferredProcessEIT, ShowEvent, epg
  <2> QED
    BY <2>1, <2>2
<1>4. Jobs' = Jobs
  BY <1>3 DEF Jobs, Noted
<1>5. SUFFICES waiting' \in Seq(Jobs) /\ Noted(reported)' /\ received' \in DOMAIN OnAir
  BY <1>2, <1>4 DEF Announced
<1>6. CASE UNCHANGED <<waiting, reported>> /\ received' \in {received, onAir}
  BY <1>1, <1>3, <1>6 DEF Noted
<1>7. CASE \E g, p : ProcessEIT(g, p)
  <2> DEFINE j == [from |-> received, current |-> onAir, noted |-> IF standard = "DVB" THEN received ELSE onAir]
  <2>1. /\ UNCHANGED <<reported, received>> /\ waiting' \in {waiting, Append(waiting, j)}
        /\ \E g : g \in DOMAIN capture.groups
    BY <1>7 DEF ProcessEIT
  <2>2. standard \in {"DVB", "ATSC"}
    BY <2>1 DEF CaptureInv, EpgTyped, NothingElse
  <2>3. j \in Jobs
    BY <1>1, <2>2 DEF Jobs, Noted
  <2> HIDE DEF j
  <2>4. waiting' \in Seq(Jobs)
    BY <1>1, <2>1, <2>3, AppendProperties
  <2> QED
    BY <1>1, <1>3, <2>1, <2>4 DEF Noted
<1>8. CASE DeferredProcessEIT
  <2>1. UNCHANGED received /\ waiting # <<>> /\ waiting' = Tail(waiting) /\ reported' = Head(waiting)
    BY <1>8 DEF DeferredProcessEIT
  <2>2. Head(waiting) \in Jobs /\ waiting' \in Seq(Jobs)
    BY <1>1, <2>1, HeadTailProperties
  <2>3. Noted(Head(waiting))
    BY <2>2 DEF Jobs
  <2> QED
    BY <1>1, <1>3, <2>1, <2>2, <2>3 DEF Noted
<1>10. CASE OfNowNext
  BY <1>6, <1>9, <1>10
<1> HIDE DEF OfNowNext
<1>11. CASE \E m : Tune(m) \/ FrontEndTuned
  BY <1>6, <1>11 DEF Tune, FrontEndTuned
<1>12. CASE \E x : Command(x) \/ CommandGoesOn(x)
  BY <1>6, <1>12 DEF Command, CommandGoesOn
<1>13. CASE FilterGroupEventCallback \/ NewMGT \/ NewVersion \/ (\E ds : ShowEvent(ds)) \/ UNCHANGED epg
  BY <1>6, <1>13 DEF FilterGroupEventCallback, NewMGT, NewVersion, ShowEvent, epg
<1> QED
  BY <1>7, <1>8, <1>10, <1>11, <1>12, <1>13 DEF EpgNext, OfNowNext

LEMMA CaptureFromStart == ASSUME EpgInit PROVE CaptureInv /\ Announced /\ NowNextInv
<1>1. /\ standard \in {"DVB", "ATSC", "now", "sent"}
      /\ onAir \in DOMAIN OnAir /\ unaware = FALSE /\ mgt = FALSE
      /\ capture = [groups |-> <<>>, tsgroup |-> NoGroup, attached |-> {}, twice |-> FALSE,
                    tables |-> IF standard = "DVB" THEN [p \in DVBPids |-> NoDecoder] ELSE <<>>]
      /\ calls = [x \in Caller |-> <<>>]
      /\ raced = FALSE /\ forgotten = FALSE /\ doubled = FALSE /\ misfed = FALSE
  BY DEF EpgInit
<1>2. DOMAIN <<>> = {} /\ <<>> \in PIDFilters
  BY NoFilters
<1> DEFINE ts == IF standard = "DVB" THEN [p \in DVBPids |-> NoDecoder] ELSE <<>>
<1>3. ts \in PIDFilters
  <2>1. DVBPids \in Pids
    BY EpgAssumption DEF Pids, AllPids
  <2>2. [p \in DVBPids |-> NoDecoder] \in [DVBPids -> Nat]
    BY DEF NoDecoder
  <2> QED
    BY <1>2, <2>1, <2>2, AreFilters
<1>4. standard = "DVB" => DOMAIN ts = DVBPids
  OBVIOUS
<1> HIDE DEF ts
<1>5. <<>> \in [{} -> PIDFilters]
  BY <1>2
<1>6. capture \in Capture
  <2>1. NoGroup \in 0..MaxGroups
    BY EpgAssumption DEF NoGroup
  <2>2. capture = [groups |-> <<>>, tsgroup |-> NoGroup, attached |-> {}, twice |-> FALSE, tables |-> ts]
    BY <1>1 DEF ts
  <2>3. {} \in SUBSET (1..MaxGroups) /\ {} \in SUBSET (Nat \ {NoDecoder}) /\ FALSE \in BOOLEAN
    OBVIOUS
  <2>4. [groups |-> <<>>, tsgroup |-> NoGroup, attached |-> {}, twice |-> FALSE, tables |-> ts] \in Capture
    BY <1>3, <1>5, <2>1, <2>3, IsCapture
  <2> QED
    BY <2>2, <2>4
<1>7. /\ DOMAIN capture.groups = {} /\ capture.tsgroup = NoGroup /\ capture.twice = FALSE /\ capture.tables = ts
  BY <1>1, <1>2 DEF ts
<1>8. \A x \in Caller : calls[x] = <<>>
  BY <1>1
<1>9. EpgTyped
  BY <1>1, <1>6, <1>8 DEF EpgTyped, Remains
<1>10. MGTOfATSC /\ NothingElse /\ TablesAreKnown /\ FedRight
  BY <1>1, <1>4, <1>7 DEF MGTOfATSC, NothingElse, TablesAreKnown, FedRight
<1>11. TwoAtMost /\ NotedExists /\ Complete
  BY <1>7, <1>8 DEF TwoAtMost, Busy, NotedExists, Complete, Exists
<1>12. NoOther
  <2>1. <<>> \notin StoppingDVB /\ <<>> \notin Destroyed
    BY DEF StoppingDVB, Destroyed
  <2> QED
    BY <1>7, <1>8, <2>1 DEF NoOther
<1>13. DecodersLive
  BY <1>7, <1>8 DEF DecodersLive, FiltersLive, TablesLive, FiltersFirst, OthersApart, GroupNoted, Busy
<1>14. Announced
  <2>1. waiting = <<>> /\ reported = [from |-> onAir, current |-> onAir, noted |-> onAir] /\ received = onAir
        /\ messages = [of |-> <<>>, are |-> <<>>]
    BY DEF EpgInit
  <2>2. waiting \in Seq(Jobs)
    BY <2>1
  <2>3. SentAsMade
    BY <2>1 DEF SentAsMade
  <2> QED
    BY <1>1, <2>1, <2>2, <2>3 DEF Announced, Noted
<1>15. NowNextInv
  <2>1. /\ info = [was |-> [i \in 1..2 |-> Blank], events |-> <<>>, written |-> 0]
        /\ reading = Unread(1, Reads) /\ torn = FALSE
    BY DEF EpgInit
  <2>2. WholeEvents
    BY <2>1 DEF WholeEvents, Blank
  <2> QED
    BY <2>1, <2>2 DEF NowNextInv, Unread, ReadSoFar, NowNextAgree, Reads, Writes
<1> QED
  BY <1>9, <1>10, <1>11, <1>12, <1>13, <1>14, <1>15 DEF CaptureInv

LEMMA CaptureFollowsFrom == ASSUME CaptureInv PROVE CaptureFollows
<1> SUFFICES ASSUME capture.tsgroup # NoGroup, ~unaware, ~forgotten, ~misfed,
                    standard = "ATSC" => mgt, \A x \in Caller : ~Busy(x)
             PROVE  /\ DOMAIN capture.groups[capture.tsgroup] = IF standard = "ATSC" THEN OnAir[onAir] ELSE DVBPids
                    /\ Cardinality(DOMAIN capture.groups) > 1 => doubled
  BY DEF CaptureFollows
<1>1. <<>> \notin Destroyed
  BY DEF Destroyed
<1>2. Exists(capture)
  BY <1>1 DEF CaptureInv, NotedExists, Busy
<1>3. DOMAIN capture.groups[capture.tsgroup] = IF standard = "ATSC" THEN OnAir[onAir] ELSE DVBPids
  BY <1>2 DEF CaptureInv, Complete
<1>4. ASSUME ~doubled PROVE Cardinality(DOMAIN capture.groups) <= 1
  <2>1. DOMAIN capture.groups \subseteq {capture.tsgroup}
    BY <1>4 DEF CaptureInv, NoOther
  <2>2. IsFiniteSet({capture.tsgroup}) /\ Cardinality({capture.tsgroup}) = 1
    BY FS_Singleton
  <2> QED
    BY <2>1, <2>2, FS_Subset
<1>5. Cardinality(DOMAIN capture.groups) \in Nat
  <2>1. DOMAIN capture.groups \subseteq 1..MaxGroups
    BY CaptureIs DEF CaptureInv, EpgTyped
  <2>2. IsFiniteSet(1..MaxGroups)
    BY EpgAssumption, FS_Interval
  <2> QED
    BY <2>1, <2>2, FS_Subset, FS_CardinalityType
<1> QED
  BY <1>3, <1>4, <1>5

LEMMA EventsAttributedFrom == ASSUME CaptureInv, Announced PROVE EventsAttributed
<1>1. (misfed => raced) /\ Noted(reported)
  BY DEF CaptureInv, FedRight, Announced
<1>2. \A k \in DOMAIN messages.are : \A n \in DOMAIN messages.are[k] : Whole(messages.of, messages.are[k][n])
  BY MessagesAreWhole DEF Announced
<1> QED
  BY <1>1, <1>2 DEF EventsAttributed, Whole, Noted

\* What is on the air is captured by one group, no section reaches a decoder
\* that is gone unless commands meet, an event is announced for its own multiplex, or
\* with ATSC for the one current when it was decoded, and what now and next print is of
\* one event unless a table was written over it meanwhile: dvbtoepg.c, atsctoepg.c.
THEOREM CaptureIsSound == EpgSpec => []CaptureSound
<1> DEFINE Inv == CaptureInv /\ Announced /\ NowNextInv
<1>1. EpgInit => Inv
  BY CaptureFromStart
<1>2. Inv /\ [EpgNext]_epg => Inv'
  BY CaptureKept, AnnouncedKept, NowNextKept DEF Announced
<1>3. Inv => CaptureSound
  BY CaptureFollowsFrom, EventsAttributedFrom DEF CaptureSound, NowNextInv
<1> QED
  BY <1>1, <1>2, <1>3, PTL DEF EpgSpec

================================================================================
