-------------------------------- MODULE Dialogs --------------------------------
(***************************************************************************)
(* What two kinds of sessions of CAM keep: the menu or question a module   *)
(* shows (MMI), in a union whose pointers are freed by its type, and the   *)
(* interval in which a module wants the time (date-time). Messages are in  *)
(* the module's hand, their times in the poll's. They share nothing with   *)
(* the transport below, which only brings the messages.                    *)
(***************************************************************************)
EXTENDS Transport

CONSTANTS Menus,         \* menus a module may send: a text is short, or long from 128 bytes
          Intervals,     \* intervals it may ask for, 0 for once
          MaxClock,      \* bound
          MaxDialogs     \* bound: messages of the MMI session

ASSUME DialogsAssumption ==
  Menus \subseteq Seq({"short", "long"}) /\ Intervals \subseteq Nat /\ {MaxClock, MaxDialogs} \subseteq Nat

VARIABLES
  mmi,        \* the last object: its type, three pointers, choices; none when the session is closed
  meant,      \* the texts of it the module sent
  few,        \* a menu had less than its three first texts
  badFree,    \* something was freed twice, or that never was allocated
  date,       \* the interval and the time of the last message, and whether there is a session
  clock, exchanged

dialogs == <<mmi, meant, few, badFree, date, clock, exchanged>>

\* enq.psz_text is menu.psz_subtitle, enq.b_blind lies in menu.psz_title.
Title == 1
Subtitle == 2
Bottom == 3
Junk == "junk"
Held == "held"
Gone == "freed"

NoMMI == [open |-> FALSE, type |-> "NONE", word |-> [i \in 1..3 |-> Junk], texts |-> <<>>]

\* What MMIFree frees of an object.
Frees(o) == CASE o.type = "ENQ"  -> {Subtitle}
              [] o.type = "MENU" -> {Title, Subtitle, Bottom}
              [] OTHER -> {}
MMIFree(o) == [o EXCEPT !.word = [i \in 1..3 |-> IF i \in Frees(o) THEN Gone ELSE @[i]]]
BadlyFreed(o) == \E i \in Frees(o) : o.word[i] # Held

DialogsInit ==
  /\ mmi = NoMMI /\ meant = <<>> /\ few = FALSE /\ badFree = FALSE
  /\ date = [open |-> FALSE, interval |-> 0, last |-> 0]
  /\ clock = 0 /\ exchanged = 0
-----------------------------------------------------------------------------
(* The MMI session. *)

Dialog == exchanged < MaxDialogs /\ exchanged' = exchanged + 1 /\ ~badFree /\ UNCHANGED <<date, clock>>

\* Only its type is.
MMIOpen ==
  /\ Dialog /\ ~mmi.open
  /\ mmi' = [mmi EXCEPT !.open = TRUE, !.type = "NONE", !.texts = <<>>]
  /\ meant' = <<>>
  /\ UNCHANGED <<few, badFree>>

MMIHandleEnq(text) ==
  /\ Dialog /\ mmi.open
  /\ badFree' = BadlyFreed(mmi)
  /\ mmi' = [MMIFree(mmi) EXCEPT !.type = "ENQ", !.word[Title] = Junk, !.word[Subtitle] = Held, !.texts = <<text>>]
  /\ meant' = <<text>>
  /\ UNCHANGED few

\* MMIGetText goes on four bytes after the end of a text's contents, which are
\* five with a long text: after one nothing but an empty text is found.
MMIGetTexts(texts) ==
  LET long == {i \in DOMAIN texts : texts[i] = "long"}
      first == CHOOSE i \in long : \A j \in long : i <= j
  IN IF long = {} THEN texts ELSE Append(SubSeq(texts, 1, first), "empty")

MMIHandleMenu(texts) ==
  LET found == MMIGetTexts(texts)
  IN /\ Dialog /\ mmi.open
     /\ badFree' = BadlyFreed(mmi)
     /\ mmi' = [MMIFree(mmi) EXCEPT !.type = "MENU", !.texts = found,
                                    !.word = [i \in 1..3 |-> IF i <= Len(found) THEN Held ELSE MMIFree(mmi).word[i]]]
     /\ few' = (few \/ Len(found) < Bottom)
     /\ meant' = texts

MMIClose ==
  /\ Dialog /\ mmi.open
  /\ badFree' = BadlyFreed(mmi)
  /\ mmi' = [MMIFree(mmi) EXCEPT !.open = FALSE]
  /\ UNCHANGED <<meant, few>>
-----------------------------------------------------------------------------
(* The date-time session; the poll looks at it. *)

DateTimeSend == [date EXCEPT !.open = TRUE, !.last = clock]

DateTimeOpen ==
  /\ ~date.open /\ date' = [DateTimeSend EXCEPT !.interval = 0]
  /\ UNCHANGED <<mmi, meant, few, badFree, clock, exchanged>>

DateTimeHandle(n) ==
  /\ date.open /\ date' = [DateTimeSend EXCEPT !.interval = n]
  /\ UNCHANGED <<mmi, meant, few, badFree, clock, exchanged>>

\* A second goes by, and the slots are polled.
DateTimeManage ==
  /\ clock < MaxClock /\ clock' = clock + 1
  /\ date' = IF date.open /\ date.interval # 0 /\ clock' > date.last + date.interval
             THEN [date EXCEPT !.last = clock'] ELSE date
  /\ UNCHANGED <<mmi, meant, few, badFree, exchanged>>

DateTimeClose ==
  /\ date.open /\ date' = [date EXCEPT !.open = FALSE]
  /\ UNCHANGED <<mmi, meant, few, badFree, clock, exchanged>>

DialogsNext ==
  \/ MMIOpen
  \/ \E text \in {"short", "long"} : MMIHandleEnq(text)
  \/ \E texts \in Menus : MMIHandleMenu(texts)
  \/ MMIClose
  \/ DateTimeOpen
  \/ \E n \in Intervals : DateTimeHandle(n)
  \/ DateTimeManage
  \/ DateTimeClose

\* Both layers, each with its own steps.
LinkSpec == TransportInit /\ DialogsInit /\ [][TransportNext]_transport /\ [][DialogsNext]_dialogs
-----------------------------------------------------------------------------
(* Properties. *)

\* Over questions, menus and sessions that follow each other nothing is freed
\* that is not held, and what is kept of the last one is what the module sent;
\* except where a menu came without its title, subtitle and bottom, or had a
\* long text, after which the rest is not found. A module that asked for the
\* time in an interval gets it then, at the latest with the poll after it.
DialogsSound ==
  /\ badFree => few
  /\ mmi.open /\ (\A i \in DOMAIN meant : meant[i] # "long" \/ mmi.type = "ENQ") => mmi.texts = meant
  /\ date.open /\ date.interval # 0 => clock <= date.last + date.interval

\* The link to a module and the dialogue over it: its messages come in order, and
\* what it says and asks is kept and answered.
LinkSound == InStep /\ DialogsSound

=============================================================================
