------------------------------- MODULE Carousel -------------------------------
(***************************************************************************)
(* The receiver of an object carousel (plugins/libdsmcc): modules are      *)
(* listed by download information, gathered from blocks and taken apart    *)
(* into directories and files, which are kept in the cache of files until  *)
(* the way from the gateway to them is known and are then written to disk. *)
(* An object is named by its module and key, a file's data by the version  *)
(* of the module it came in. Sections come in any order; the broadcaster   *)
(* may change a module at any time.                                        *)
(***************************************************************************)
EXTENDS Integers, SequencesExt, FiniteSetsExt

CONSTANTS Root,         \* the service gateway
          Dir, File,    \* the other directories and the files
          Module,       \* the modules in the order of the download information
          Content,      \* their objects in order
          Blocks,       \* the number of blocks of each
          Compressed,   \* those with a compressed module descriptor
          NoData,
          MaxUpdates    \* bound: changes of modules

Modules == ToSet(Module)

ASSUME CarouselAssumption ==
  /\ Root \notin Dir /\ Dir \cap File = {}
  /\ Content \in [Modules -> Seq([kind : {"srg", "dir", "fil"},
                                  name : Dir \cup File \cup {Root},
                                  entries : Seq(Dir \cup File)])]
  /\ Blocks \in [Modules -> Nat \ {0}]
  /\ Compressed \subseteq Modules /\ MaxUpdates \in Nat

VARIABLES
  version,     \* what is broadcast now
  id,          \* carousels[0].id
  gate,        \* gate, the service gateway information
  streams,     \* modules whose stream has been asked for
  infos,       \* the carousel's cache: the list of known modules
  cache,       \* filecache
  announced,   \* the version of each module in the last information handled
  since,       \* blocks of that version handled since
  opened       \* modules that have been taken apart

carousel == <<version, id, gate, streams, infos, cache, announced, since, opened>>

Objects == UNION {ToSet(Content[m]) : m \in Modules}

\* The directory an object is listed in.
Parent(x) == (CHOOSE o \in Objects : x \in ToSet(o.entries)).name

ModuleOf(x) == CHOOSE m \in Modules : \E o \in ToSet(Content[m]) : o.name = x

----------------------------------------------------------------------------
(* The cache of files. *)

EmptyCache ==
  [known |-> {}, up |-> [d \in Dir |-> NoData], dirs |-> <<>>, path |-> {},
   files |-> [d \in Dir \cup {Root} |-> <<>>], loose |-> <<>>, data |-> <<>>,
   disk |-> [f \in File |-> NoData], crashed |-> FALSE, passed |-> {}, stray |-> {}]

\* A directory and what has been attached below it.
RECURSIVE Tree(_, _)
Tree(c, d) == {d} \cup UNION {Tree(c, x) : x \in {y \in Dir : c.up[y] = d}}

Linked(c) == IF Root \in c.known THEN Tree(c, Root) ELSE {}

First(s, f) == SelectInSeq(s, LAMBDA r : r.name = f)

\* Mutant: the directories below are left out.
WriteOneDir(c, d) ==
  LET Held(f) == SelectSeq(c.files[d], LAMBDA r : r.name = f /\ r.data # NoData)
  IN  [c EXCEPT !.path = @ \cup {d},
                !.disk = [f \in File |-> IF Held(f) # <<>> THEN Last(Held(f)).data ELSE @[f]],
                !.files[d] = [i \in DOMAIN @ |-> [@[i] EXCEPT !.data = NoData]]]

\* All files of a directory and below that have data; of two records of a
\* file the later is the one that stays.
WriteDir(c, d) ==
  LET below == Tree(c, d)
      Held(f) == SelectSeq(c.files[Parent(f)], LAMBDA r : r.name = f /\ r.data # NoData)
  IN  [c EXCEPT !.path = @ \cup below,
                !.disk = [f \in File |-> IF Parent(f) \in below /\ Held(f) # <<>>
                                         THEN Last(Held(f)).data ELSE @[f]],
                !.files = [x \in DOMAIN @ |->
                             IF x \in below
                             THEN [i \in DOMAIN @[x] |-> [@[x][i] EXCEPT !.data = NoData]]
                             ELSE @[x]]]

AttachFiles(c, d) ==
  LET Mine(r) == Parent(r.name) = d
      Others(r) == Parent(r.name) # d
  IN  [c EXCEPT !.files[d] = @ \o SelectSeq(c.loose, Mine),
                !.loose = SelectSeq(@, Others)]

\* Attaching a directory cuts the list the loop runs over: only the first
\* that was waiting is attached.
AttachDir(c, d) ==
  LET i == SelectInSeq(c.dirs, LAMBDA x : Parent(x) = d)
  IN  IF i = 0 THEN c
      ELSE [c EXCEPT !.up[c.dirs[i]] = d, !.dirs = RemoveAt(@, i)]

\* Looking for the gateway creates it.
FindParent(c, p) ==
  IF p # Root \/ Root \in c.known THEN c
  ELSE WriteDir(AttachDir(AttachFiles([c EXCEPT !.known = @ \cup {Root}], Root), Root), Root)

DirInfo(c0, d, p) ==
  IF d \in c0.known THEN c0
  ELSE LET c == FindParent(c0, p)
           placed == IF p \in c.known
                     THEN [c EXCEPT !.known = @ \cup {d}, !.up[d] = p]
                     ELSE [c EXCEPT !.known = @ \cup {d}, !.dirs = Append(@, d)]
           whole == AttachDir(AttachFiles(placed, d), d)
       IN  IF p \in c.known \cap c.path THEN WriteDir(whole, d) ELSE whole

\* A file is looked for among those without a parent and below the gateway,
\* not in directories that are still unlinked.
IsLoose(c, f) == First(c.loose, f) # 0
IsLinked(c, f) == Parent(f) \in Linked(c) /\ First(c.files[Parent(f)], f) # 0

FileInfo(c0, f, p) ==
  IF IsLoose(c0, f) \/ IsLinked(c0, f) THEN c0
  ELSE LET i == First(c0.data, f)
           record == [name |-> f, data |-> IF i = 0 THEN NoData ELSE c0.data[i].data]
           c == FindParent(IF i = 0 THEN c0 ELSE [c0 EXCEPT !.data = RemoveAt(@, i)], p)
       IN  CASE p \notin c.known -> [c EXCEPT !.loose = Append(@, record)]
             [] p \in c.known /\ p \in c.path /\ record.data # NoData ->
                  [c EXCEPT !.files[p] = Append(@, [record EXCEPT !.data = NoData]),
                            !.disk[f] = record.data]
             [] OTHER -> [c EXCEPT !.files[p] = Append(@, record)]

\* The data of a file has come. Writing a file without a parent reads the
\* parent's path for the log. Data that comes while older data waits is left
\* aside, or kept behind it; so is data of a file in an unlinked directory.
FileData(c, f, v) ==
  LET p == Parent(f)
      record == IF IsLoose(c, f) THEN c.loose[First(c.loose, f)]
                ELSE c.files[p][First(c.files[p], f)]
  IN  CASE ~IsLoose(c, f) /\ ~IsLinked(c, f) ->
             [c EXCEPT !.data = Append(@, [name |-> f, data |-> v]),
                       !.passed = IF First(c.data, f) # 0 THEN @ \cup {f} ELSE @,
                       !.stray = IF First(c.files[p], f) # 0 THEN @ \cup {f} ELSE @]
        [] (IsLoose(c, f) \/ IsLinked(c, f)) /\ record.data # NoData ->
             [c EXCEPT !.passed = @ \cup {f}]
        [] IsLoose(c, f) /\ record.data = NoData -> [c EXCEPT !.crashed = TRUE]
        [] OTHER -> IF p \in c.path THEN [c EXCEPT !.disk[f] = v]
                    ELSE [c EXCEPT !.files[p][First(c.files[p], f)].data = v]

Entry(c, x, p) == IF x \in Dir THEN DirInfo(c, x, p) ELSE FileInfo(c, x, p)

\* The objects of a module, one after the other, until the program crashes.
ProcessObject(c, o, v) ==
  IF c.crashed THEN c
  ELSE IF o.kind = "fil" THEN FileData(c, o.name, v)
  ELSE FoldLeft(LAMBDA k, x : Entry(k, x, o.name), c, o.entries)

ProcessData(c, m, v) == FoldLeft(LAMBDA k, o : ProcessObject(k, o, v), c, Content[m])

----------------------------------------------------------------------------
(* Sections. *)

CarouselInit ==
  /\ version = [m \in Modules |-> 1]
  /\ id \in BOOLEAN
  /\ gate = FALSE /\ streams = {} /\ infos = <<>>
  /\ cache = EmptyCache
  /\ announced = [m \in Modules |-> 0]
  /\ since = [m \in Modules |-> {}]
  /\ opened = {}

\* The broadcaster changes a module.
Update(m) ==
  /\ ~cache.crashed
  /\ MapThenSumSet(LAMBDA k : version[k] - 1, Modules) < MaxUpdates
  /\ version' = [version EXCEPT ![m] = @ + 1]
  /\ UNCHANGED <<id, gate, streams, infos, cache, announced, since, opened>>

\* The gateway information names the carousel, if the PMT has not.
Gateway ==
  /\ ~cache.crashed /\ ~gate
  /\ gate' = TRUE /\ id' = TRUE
  /\ streams' = streams \cup {ModuleOf(Root)}
  /\ UNCHANGED <<version, infos, cache, announced, since, opened>>

NewInfo(m, v) == [module |-> m, version |-> v, status |-> {}, blocks |-> {}, cached |-> FALSE]

\* The search for a module goes on from where the one before was found; a
\* module of another version is dropped, and a module not found is added.
AddModuleInfo(s, m) ==
  LET i == SelectInSubSeq(s.list, s.at, Len(s.list), LAMBDA r : r.module = m)
      kept == IF i = 0 THEN s.list ELSE RemoveAt(s.list, i)
  IN  IF i # 0 /\ s.list[i].version = version[m] THEN [s EXCEPT !.at = i]
      ELSE [list |-> Append(kept, NewInfo(m, version[m])), at |-> Len(kept) + 1]

\* As long as the carousel's id is not known, the modules are listed for
\* another one; their streams are asked for all the same.
Information ==
  /\ ~cache.crashed
  /\ streams' = Modules
  /\ IF id
     THEN /\ infos' = FoldLeft(AddModuleInfo, [list |-> infos, at |-> 1], Module).list
          /\ announced' = version
          /\ since' = [m \in Modules |-> IF announced[m] = version[m] THEN since[m] ELSE {}]
     ELSE UNCHANGED <<infos, announced, since>>
  /\ UNCHANGED <<version, id, gate, cache, opened>>

\* What the blocks of a module make together.
DataOf(blocks) ==
  LET versions == {b.version : b \in blocks}
  IN  IF Cardinality(versions) = 1 THEN CHOOSE v \in versions : TRUE ELSE NoData

Accepts(r, v) == r.version = v /\ ~r.cached

\* A block comes, of this version or of the one before. If it completes its
\* module, that is inflated, which may fail, and taken apart. The first record
\* of a module is the one that counts. (bound: none before the carousel's id is
\* known, when the code goes on with whatever was in "car", dsmcc-receiver.c:605)
Block(m, b, v) ==
  LET i == SelectInSeq(infos, LAMBDA r : r.module = m)
      r == infos[i]
      more == IF b \in r.status THEN r.blocks
              ELSE r.blocks \cup {[number |-> b, version |-> v]}
      Wanted == i # 0 /\ Accepts(r, v)
      filled == [r EXCEPT !.status = @ \cup {b}, !.blocks = more]
      Complete == Cardinality(more) >= Blocks[m]
  IN
  /\ ~cache.crashed /\ id /\ m \in streams
  /\ since' = IF v = announced[m] THEN [since EXCEPT ![m] = @ \cup {b}] ELSE since
  /\ \/ /\ ~Wanted
        /\ UNCHANGED <<infos, cache, opened>>
     \/ /\ Wanted /\ ~Complete
        /\ infos' = [infos EXCEPT ![i] = filled]
        /\ UNCHANGED <<cache, opened>>
     \/ /\ Wanted /\ Complete
        /\ infos' = [infos EXCEPT ![i] = [filled EXCEPT !.cached = TRUE, !.blocks = {}]]
        /\ cache' = ProcessData(cache, m, DataOf(more))
        /\ opened' = opened \cup {m}
     \/ /\ Wanted /\ Complete /\ m \in Compressed
        /\ infos' = [infos EXCEPT ![i] = [filled EXCEPT !.blocks = {}]]
        /\ UNCHANGED <<cache, opened>>
  /\ UNCHANGED <<version, id, gate, streams, announced>>

CarouselNext ==
  \/ Gateway
  \/ Information
  \/ \E m \in Modules : Update(m)
  \/ \E m \in Modules : \E b \in 1..Blocks[m], v \in {version[m], version[m] - 1} \ {0} :
        Block(m, b, v)

----------------------------------------------------------------------------

RECURSIVE Way(_)
Way(x) == IF x = Root THEN {} ELSE {Parent(x)} \cup Way(Parent(x))

Twice(m)  == \E i, j \in DOMAIN infos : i # j /\ {infos[i].module, infos[j].module} = {m}
Spoilt(m) == \E r \in ToSet(infos) : r.module = m /\ ~r.cached /\ r.status = 1..Blocks[m]
Skipped   == {d \in Dir : d \in cache.known /\ cache.up[d] = NoData /\ Parent(d) \in cache.known}

\* Whatever order the modules come in: once the blocks of a file's module and
\* the modules of all directories above it have come, the file is on disk, in
\* the version that was announced last. The exceptions are what the code loses:
\* a module listed twice, so that its blocks are compared with the older record;
\* one whose data could not be inflated; a directory that was waiting behind
\* another for the same parent; data that came for a file in an unlinked
\* directory, or while older data of the file was still waiting. And nothing is
\* claimed once data of a file whose directory waits for its own has crashed the
\* program (dsmcc-cache.c:789).
FilesArrive ==
  ~cache.crashed =>
    \A f \in File :
      LET m == ModuleOf(f)
      IN  /\ since[m] = 1..Blocks[m]
          /\ \A d \in Way(f) : ModuleOf(d) \in opened
          => \/ cache.disk[f] = announced[m]
             \/ f \in cache.passed \cup cache.stray
             \/ Twice(m) \/ Spoilt(m)
             \/ Way(f) \cap Skipped # {}

=============================================================================
