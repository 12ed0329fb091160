------------------------------- MODULE Commands -------------------------------
(***************************************************************************)
(* What becomes of a line of a command (commands.c): it is cut into a       *)
(* command and its arguments, the command is looked for in the lists that   *)
(* are registered, and its number of arguments is checked.  Lines come from *)
(* the startup file, through a buffer, or from a remote client              *)
(* (remoteintf.c), whose connection is one stream read and written.         *)
(*                                                                         *)
(* The four have no state in common: a behaviour is about one of them.      *)
(* Upper and lower case are alike in names, so names have one case here.    *)
(***************************************************************************)
EXTENDS Integers, Sequences, FiniteSets, SequencesExt

CONSTANTS TypedLines,     \* lines: sequences of "a", "b", " ", "#", "dq" and "sq"
          MAX_ARGS,       \* the arguments a command can have
          CommandNames,   \* the lists of commands, each a sequence of [name, min, max]
          Asked,          \* the names and beginnings of names that are typed
          ContextCommands,\* the commands only a remote connection has
          FileLines,      \* startup files: sequences of [size, kind]
          LineRoom,       \* the buffer for a line of a file
          MaxSent         \* bound: lines a client sends

VARIABLES about,     \* "line", "names", "file" or "remote"
          heard,     \* the last line and what it was taken for
          registry,  \* CommandsList
          asked,     \* the last command looked for, or the completion under way
          file,      \* what is left of the file and what has been executed of it
          remote     \* the connection

commandVars == <<about, heard, registry, asked, file, remote>>

Space == " "

-----------------------------------------------------------------------------
(* ParseLine and Tokenise *)

FirstIn(line, Test(_), last) ==
  LET i == SelectInSeq(line, Test) IN IF i = 0 THEN last + 1 ELSE i

\* A comment starts at the first #, quoted or not; the command ends at the first space;
\* the argument is what is between, without the spaces around it.
ParseLine(line) ==
  LET text     == SubSeq(line, FirstIn(line, LAMBDA c : c # Space, Len(line)), Len(line))
      eol      == FirstIn(text, LAMBDA c : c = "#", Len(text))
      kept     == SubSeq(text, 1, eol - 1)
      eoc      == FirstIn(kept, LAMBDA c : c = Space, Len(kept))
      rest     == SubSeq(kept, eoc + 1, Len(kept))
      argStart == FirstIn(rest, LAMBDA c : c # Space, Len(rest))
      argEnd   == SelectLastInSeq(rest, LAMBDA c : c # Space)
  IN  [command |-> SubSeq(kept, 1, eoc - 1), argument |-> SubSeq(rest, argStart, argEnd)]

\* Mutant of Quoted: a word in quotes ends at the first space.
QuotedToSpace(arguments, start) ==
  [dq |-> FALSE, sq |-> FALSE,
   from |-> IF start <= Len(arguments) /\ arguments[start] \in {"dq", "sq"} THEN start + 1 ELSE start]

\* Quotes open a word, the one kind and then, perhaps, the other.
Quoted(arguments, start) ==
  LET Opens(i, q) == i <= Len(arguments) /\ arguments[i] = q
      dq == Opens(start, "dq")
      i  == IF dq THEN start + 1 ELSE start
      sq == Opens(i, "sq")
  IN  [dq |-> dq, sq |-> sq, from |-> IF sq THEN i + 1 ELSE i]

\* One word: it ends at a space, or at the quote that opened it first, or with the
\* argument; behind a quote the next word starts, and if there is none, behind the
\* end of the string.
OneWord(arguments, t) ==
  LET start == CHOOSE i \in t.start..(Len(arguments) + 1) :
                 /\ i = Len(arguments) + 1 \/ arguments[i] # Space
                 /\ \A j \in t.start..(i - 1) : arguments[j] = Space
      q     == Quoted(arguments, start)
      stop  == IF q.dq THEN "dq" ELSE IF q.sq THEN "sq" ELSE Space
      left  == SubSeq(arguments, q.from, Len(arguments))
      end   == q.from - 1 + FirstIn(left, LAMBDA c : c = stop, Len(left))
      next  == IF q.dq \/ q.sq THEN end + 1 ELSE end
  IN  [args |-> Append(t.args, SubSeq(arguments, q.from, end - 1)), start |-> next,
       overran |-> next > Len(arguments) + 1]

Tokenise(arguments) ==
  FoldLeft(LAMBDA t, i : IF t.overran \/ t.start > Len(arguments) THEN t ELSE OneWord(arguments, t),
           [args |-> <<>>, start |-> 1, overran |-> FALSE], [i \in 1..MAX_ARGS |-> i])

Unheard == [line |-> <<>>, command |-> <<>>, args |-> <<>>, overran |-> FALSE]

\* CommandExecute as far as the line goes.
Understand(line) ==
  /\ about = "line" /\ heard = Unheard /\ line # <<>>
  /\ LET p == ParseLine(line)
         t == Tokenise(p.argument)
     IN  heard' = [line |-> line, command |-> p.command, args |-> t.args, overran |-> t.overran]
  /\ UNCHANGED <<about, registry, asked, file, remote>>

-----------------------------------------------------------------------------
(* The lists of commands *)

Nobody == [name |-> <<>>, min |-> 0, max |-> 0]

\* FindCommand
FindCommand(commands, name) ==
  LET i == SelectInSeq(commands, LAMBDA c : c.name = name)
  IN  IF i = 0 THEN Nobody ELSE commands[i]

\* ProcessCommand: the connection's own commands come first.
Search(context, name) ==
  LET own   == FindCommand(context, name)
      lists == SelectSeq(registry, LAMBDA l : FindCommand(l, name) # Nobody)
  IN  IF own # Nobody THEN own
      ELSE IF lists = <<>> THEN Nobody ELSE FindCommand(lists[1], name)

Unasked == [kind |-> "none", text |-> <<>>, remote |-> FALSE, argc |-> 0, result |-> "OK",
            found |-> Nobody, list |-> 0, lastIndex |-> 0, offers |-> <<>>]

\* CommandRegisterCommands, CommandUnRegisterCommands
CommandRegisterCommands(commands) ==
  /\ about = "names" /\ asked.kind # "completing"
  /\ ~(\E i \in DOMAIN registry : registry[i] = commands)
  /\ registry' = Append(registry, commands)
  /\ asked' = Unasked
  /\ UNCHANGED <<about, heard, file, remote>>

CommandUnRegisterCommands(commands) ==
  /\ about = "names" /\ asked.kind # "completing"
  /\ \E i \in DOMAIN registry : registry[i] = commands
  /\ registry' = SelectSeq(registry, LAMBDA l : l # commands)
  /\ asked' = Unasked
  /\ UNCHANGED <<about, heard, file, remote>>

\* ProcessCommand and CommandExecute's answer.
ProcessCommand(name, argc, isRemote) ==
  /\ about = "names" /\ asked.kind # "completing"
  /\ LET c == Search(IF isRemote THEN ContextCommands ELSE <<>>, name)
     IN  asked' = [Unasked EXCEPT
           !.kind = "executed", !.text = name, !.remote = isRemote, !.argc = argc, !.found = c,
           !.result = IF c = Nobody THEN "Unknown command"
                      ELSE IF argc \in c.min..c.max THEN "OK" ELSE "Wrong number of arguments"]
  /\ UNCHANGED <<about, heard, registry, file, remote>>

\* CompleteCommand with state 0: the first list.
CompleteFirst(text) ==
  /\ about = "names" /\ asked.kind # "completing"
  /\ asked' = [Unasked EXCEPT !.kind = "completing", !.text = text, !.list = 1]
  /\ UNCHANGED <<about, heard, registry, file, remote>>

\* CompleteCommand: one name more of the list, or the next list, or, with no list
\* left, no more.
CompleteCommand ==
  /\ asked.kind = "completing"
  /\ LET more == asked.list <= Len(registry)
         list == IF more THEN registry[asked.list] ELSE <<>>
         fits == {i \in (asked.lastIndex + 1)..Len(list) : IsPrefix(asked.text, list[i].name)}
     IN  asked' = IF ~more THEN [asked EXCEPT !.kind = "completed"]
                  ELSE IF fits = {} THEN [asked EXCEPT !.list = @ + 1, !.lastIndex = 0]
                  ELSE LET i == CHOOSE i \in fits : \A j \in fits : i <= j
                       IN  [asked EXCEPT !.lastIndex = i, !.offers = Append(@, list[i].name)]
  /\ UNCHANGED <<about, heard, registry, file, remote>>

\* CommandHelp without a name: every list, then the connection's own.
CommandHelp(isRemote) ==
  /\ about = "names" /\ asked.kind # "completing"
  /\ asked' = [Unasked EXCEPT !.kind = "helped", !.remote = isRemote,
       !.offers = FoldLeft(LAMBDA s, l : s \o [i \in DOMAIN l |-> l[i].name], <<>>,
                           registry \o IF isRemote THEN <<ContextCommands>> ELSE <<>>)]
  /\ UNCHANGED <<about, heard, registry, file, remote>>

-----------------------------------------------------------------------------
(* The startup file *)

\* fgets: what fits in the buffer, the newline with it; the rest is read next.  A line
\* in two parts is a plain command and something else.
FileStep ==
  /\ about = "file" /\ file.left # <<>> /\ ~file.quit
  /\ LET first  == Head(file.left)
         whole  == first.size + 1 <= LineRoom - 1
         part   == IF whole THEN first ELSE [size |-> LineRoom - 1, kind |-> IF first.size = LineRoom - 1 THEN first.kind ELSE "part"]
         beyond == [size |-> first.size - (LineRoom - 1), kind |-> "part"]
     IN  file' = [file EXCEPT
           !.left = IF whole THEN Tail(@) ELSE <<beyond>> \o Tail(@),
           !.lineno = @ + 1,
           !.executed = IF part.size > 0 THEN Append(@, part) ELSE @,
           !.quit = part.kind = "quit"]
  /\ UNCHANGED <<about, heard, registry, asked, remote>>

-----------------------------------------------------------------------------
(* A remote connection: one stream for what comes and what goes *)

\* The client sends a line; if it waits it has had an answer to the last.
ClientSends ==
  /\ about = "remote" /\ remote.open /\ remote.sent < MaxSent
  /\ remote' = [remote EXCEPT !.sent = @ + 1, !.wire = @ + 1,
                              !.waits = @ /\ remote.answered = remote.sent]
  /\ UNCHANGED <<about, heard, registry, asked, file>>

\* PrintResponse.  What a stream has read and not given out is in the way of what is
\* written to it: the answer does not go out and nothing more is read.
Respond(r) ==
  IF r.buffered = 0 THEN [r EXCEPT !.executed = @ + 1, !.answered = @ + 1]
  ELSE [r EXCEPT !.executed = @ + 1, !.buffered = 0, !.broken = TRUE]

\* HandleConnection: poll sees that something came; fgets takes all of it into the
\* stream, and the first line out of it.
HandleLine ==
  /\ about = "remote" /\ remote.open /\ remote.wire > 0 /\ ~remote.broken
  /\ remote' = Respond([remote EXCEPT !.wire = 0, !.buffered = @ + remote.wire - 1])
  /\ UNCHANGED <<about, heard, registry, asked, file>>

\* Nothing came for 30 seconds, or the stream is broken, or the client has gone.
ConnectionCloses ==
  /\ about = "remote" /\ remote.open
  /\ remote.wire = 0 \/ remote.broken
  /\ remote' = [remote EXCEPT !.open = FALSE]
  /\ UNCHANGED <<about, heard, registry, asked, file>>

CommandsInit ==
  /\ about \in {"line", "names", "file", "remote"}
  /\ heard = Unheard
  /\ registry = <<CommandNames[1]>>
  /\ asked = Unasked
  /\ file \in {[left |-> l, whole |-> l, lineno |-> 0, executed |-> <<>>, quit |-> FALSE] :
                 l \in IF about = "file" THEN FileLines ELSE {<<>>}}
  /\ remote = [open |-> TRUE, sent |-> 0, wire |-> 0, buffered |-> 0, executed |-> 0,
               answered |-> 0, waits |-> TRUE, broken |-> FALSE]

CommandsNext ==
  \/ about = "line" /\ heard = Unheard /\ \E line \in TypedLines : Understand(line)
  \/ \E i \in DOMAIN CommandNames : \/ CommandRegisterCommands(CommandNames[i])
                                    \/ CommandUnRegisterCommands(CommandNames[i])
  \/ \E name \in Asked : CompleteFirst(name)
  \/ \E name \in Asked, argc \in 0..2, isRemote \in BOOLEAN : ProcessCommand(name, argc, isRemote)
  \/ CompleteCommand
  \/ \E isRemote \in BOOLEAN : CommandHelp(isRemote)
  \/ FileStep
  \/ ClientSends \/ HandleLine \/ ConnectionCloses

-----------------------------------------------------------------------------
\* The words of a line, a character at a time: in quotes anything is part of the
\* word, outside them a # ends the line.  "odd": what the code takes differently.
Words(line) ==
  LET New(w, mode)  == [w EXCEPT !.mode = mode, !.words = Append(@, <<>>)]
      More(w, c)    == [w EXCEPT !.words[Len(w.words)] = Append(@, c)]
      Mark(w, what) == [w EXCEPT !.odd = @ \cup what]
      step(w, c) ==
        CASE w.mode = "comment" -> w
          [] w.mode = "before"  -> IF c = Space THEN w
                                   ELSE IF c = "#" THEN [w EXCEPT !.mode = "comment"]
                                   ELSE More(New(w, "command"), c)
          [] w.mode \in {"command", "word"} ->
               IF c = Space THEN [w EXCEPT !.mode = "between"]
               ELSE IF c = "#" THEN [w EXCEPT !.mode = "comment"] ELSE More(w, c)
          [] w.mode = "between" ->
               IF c = Space THEN w
               ELSE IF c = "#" THEN [w EXCEPT !.mode = "comment"]
               ELSE IF c \in {"dq", "sq"} THEN New(w, c) ELSE More(New(w, "word"), c)
          [] OTHER ->
               IF c = w.mode THEN [w EXCEPT !.mode = "between"]
               ELSE LET both == c = "sq" /\ Last(w.words) = <<>>
                    IN  More(Mark(w, (IF c = "#" THEN {"comment sign in quotes"} ELSE {})
                                     \cup (IF both THEN {"both quotes"} ELSE {})), c)
      all == FoldLeft(step, [mode |-> "before", words |-> <<>>, odd |-> {}], line)
  IN  Mark(all, (IF all.mode \in {"dq", "sq"} THEN {"quotes left open"} ELSE {})
                \cup (IF Len(all.words) > MAX_ARGS + 1 THEN {"too many words"} ELSE {}))

\* A line is taken for the words it has, but for a comment sign in quotes, quotes left
\* open, both quotes at the start of a word and more arguments than there is room
\* for; and nothing is read behind its end but for quotes that are open there.
WordsFound ==
  LET w == Words(heard.line)
  IN  /\ w.odd = {} => <<heard.command>> \o heard.args =
                       IF w.words = <<>> THEN <<<<>>>> ELSE w.words
      /\ heard.overran => w.odd \cap {"quotes left open", "comment sign in quotes"} # {}

\* A command is found if a list that is registered, or the connection's, has it, the
\* connection's first; completion offers and help lists every name once for each list
\* it is in, in their order.
NamesFound ==
  LET own      == IF asked.remote THEN ContextCommands ELSE <<>>
      Named(n) == {c \in UNION {ToSet(l) : l \in ToSet(registry)} \cup ToSet(own) : c.name = n}
      every    == FlattenSeq(registry \o <<own>>)
      names    == [i \in DOMAIN every |-> every[i].name]
  IN  /\ asked.kind = "executed" =>
           /\ (asked.result = "Unknown command") <=> (Named(asked.text) = {})
           /\ asked.result = "OK" =>
                \E c \in Named(asked.text) : /\ asked.argc \in c.min..c.max
                                              /\ FindCommand(own, asked.text) \in {Nobody, c}
      /\ asked.kind = "completed" => asked.offers = SelectSeq(names, LAMBDA n : IsPrefix(asked.text, n))
      /\ asked.kind = "helped" => asked.offers = names

\* The lines of a file that fit in the buffer are executed, each once and in order, up
\* to a "quit", but for those that are empty.
FileIsRun ==
  LET said == SelectSeq(file.whole, LAMBDA l : l.size > 0)
      quit == SelectInSeq(said, LAMBDA l : l.kind = "quit")
      due  == IF quit = 0 THEN said ELSE SubSeq(said, 1, quit)
  IN  (\A l \in ToSet(file.whole) : l.size < LineRoom) =>
        /\ IsPrefix(file.executed, due)
        /\ ((file.left = <<>> \/ file.quit) => file.executed = due)

\* A client that waits for the answer to a line before it sends the next gets one to
\* every line that is read.
ClientIsAnswered ==
  remote.waits => ~remote.broken /\ (remote.wire = 0 => remote.answered = remote.sent)

\* What a user types, a file says or a client sends is what is carried out.
CommandsUnderstood == WordsFound /\ NamesFound /\ FileIsRun /\ ClientIsAnswered

=============================================================================
