---------------------------- MODULE VirtualMemory ----------------------------
(***************************************************************************)
(* The paged virtual memory of ex4/VirtualMemory.cpp: a tree of page       *)
(* tables in a physical memory of NumFrames frames, with page 0 of the     *)
(* tree, the root table, in frame 0.                                       *)
(*                                                                         *)
(* A call of VMread or VMwrite walks from the root to the page, one step   *)
(* for each level (the loop of get_physical_address); a step that finds no *)
(* child gets a frame for it.  The searches find_free_frame and            *)
(* dfs_max_frame, which the code does as a depth-first walk over the tree, *)
(* are given by what they find: the walk meets pages, and tables without   *)
(* children, in the order of the page numbers below them.                  *)
(*                                                                         *)
(* The physical memory and the swap file (PMread, PMwrite, PMevict and     *)
(* PMrestore) are not in the repository; they are modelled from their use. *)
(***************************************************************************)
EXTENDS Integers, FiniteSets, FiniteSetsExt, Functions

CONSTANTS
    OffsetWidth,         \* OFFSET_WIDTH
    VirtualAddressWidth, \* VIRTUAL_ADDRESS_WIDTH
    NumFrames,           \* NUM_FRAMES
    Addresses,           \* the addresses that the program uses
    Values               \* the values that the program writes

PageSize == 2 ^ OffsetWidth
NumPages == 2 ^ (VirtualAddressWidth - OffsetWidth)
VirtualMemorySize == 2 ^ VirtualAddressWidth

\* TABLES_DEPTH: the tables on the way to a page.
TablesDepth == (VirtualAddressWidth - 1) \div OffsetWidth

Pages == 0 .. NumPages - 1
Offsets == 0 .. PageSize - 1
Frames == 0 .. NumFrames - 1
Root == 0
Words == Values \union Frames

ASSUME WidthAssumption ==
    /\ OffsetWidth \in Nat \ {0}
    /\ VirtualAddressWidth \in Nat
    /\ VirtualAddressWidth > OffsetWidth
ASSUME ProgramAssumption == Addresses \subseteq Nat /\ Values \subseteq Nat
\* One path and its page fit into the physical memory.
ASSUME FramesAssumption == NumFrames \in Nat /\ NumFrames > TablesDepth

VARIABLES
    ram,     \* the physical memory: each frame's words
    swap,    \* the swap file: the words of the pages that were evicted
    call,    \* the call in progress and its walk, or NoCall
    answer,  \* what the last call returned
    written  \* history: the addresses written so far

vars == <<ram, swap, call, answer, written>>

NoCall == [op |-> "none", address |-> 0, value |-> 0,
           level |-> 0, frame |-> Root, restored |-> FALSE]

Unwritten == -1
\* What a call returns, kept with the call: for a write, the word is the
\* one that was asked for.
NoAnswer == [op |-> "none", address |-> 0, ok |-> FALSE, word |-> 0]
Failure(op, address) == [op |-> op, address |-> address, ok |-> FALSE, word |-> 0]
Success(op, address, word) == [op |-> op, address |-> address, ok |-> TRUE, word |-> word]

\* NUM_OF_PAGES and OFFSET.
PageIndex(address) == address \div PageSize
Offset(address) == address % PageSize

\* get_bites_array: the page number, shifted until the first rows of the way
\* from the root to the page are left, and the last of these rows.
Prefix(page, levels) == page \div 2 ^ (OffsetWidth * (TablesDepth - levels))
Row(page, level) == Prefix(page, level + 1) % PageSize

\* VMinitialize clears the root; the other frames hold anything.
Init ==
    /\ \E garbage \in Values :
          ram = [f \in Frames |-> [o \in Offsets |-> IF f = Root THEN 0 ELSE garbage]]
    /\ swap = <<>>
    /\ call = NoCall
    /\ answer = NoAnswer
    /\ written = {}

-----------------------------------------------------------------------------
(* The tree.                                                               *)

\* The frame at the end of the first levels of the way to a page; 0, which
\* no table refers to, if the way ends before.
FrameAt(page, levels) ==
    LET walk[n \in 0 .. TablesDepth] ==
          IF n = 0 THEN Root
          ELSE LET table == walk[n - 1]
               IN  IF n > 1 /\ table = Root THEN Root ELSE ram[table][Row(page, n - 1)]
    IN  walk[levels]

Levels == 1 .. TablesDepth
Resident(page) == FrameAt(page, TablesDepth) # Root
UsedFrames == {Root} \union {FrameAt(page, n) : page \in Pages, n \in Levels}

\* check_frame_empty.
IsEmpty(frame) == \A o \in Offsets : ram[frame][o] = 0

\* Seeded fault: the table that is being extended may be taken.
EmptyTablesUnprotected(page, working_on) ==
    {n \in Levels \ {TablesDepth} : FrameAt(page, n) # Root /\ IsEmpty(FrameAt(page, n))}

\* Seeded fault: empty tables are not found.
EmptyTablesNone(page, working_on) == {}

\* The levels of the empty tables on the way to a page, but for the table
\* that is being extended (currently_working_on).
EmptyTables(page, working_on) ==
    {n \in Levels \ {TablesDepth} :
        /\ FrameAt(page, n) \notin {Root, working_on}
        /\ IsEmpty(FrameAt(page, n))}

\* The pages whose way ends in an empty table.
PagesBelowEmpty(working_on) == {page \in Pages : EmptyTables(page, working_on) # {}}

\* CIRCULAR_DISTANCE of DISTANCE.
Distance(p, q) ==
    LET d == IF p > q THEN p - q ELSE q - p
    IN  IF NumPages - d < d THEN NumPages - d ELSE d

\* finding_max_value: the first of the resident pages that are farthest away.
Candidates(page) == {p \in Pages : Resident(p) /\ Distance(page, p) > 0}
PageToEvict(page) ==
    Min({p \in Candidates(page) : \A q \in Candidates(page) : Distance(page, q) <= Distance(page, p)})

-----------------------------------------------------------------------------
(* A call.                                                                 *)

Calling == call # NoCall
Page == PageIndex(call.address)
ThisRow == Row(Page, call.level)
Child == ram[call.frame][ThisRow]
AtLastLevel == call.level = TablesDepth - 1

\* VMread and VMwrite, up to the walk.
Begin(op, address, value) ==
    /\ ~Calling
    /\ address < VirtualMemorySize
    /\ call' = [op |-> op, address |-> address, value |-> value,
                level |-> 0, frame |-> Root, restored |-> FALSE]
    /\ UNCHANGED <<ram, swap, answer, written>>

\* An address beyond the end.
Refuse(op, address) ==
    /\ ~Calling
    /\ address >= VirtualMemorySize
    /\ answer' = Failure(op, address)
    /\ UNCHANGED <<ram, swap, call, written>>

Walking == Calling /\ call.level < TablesDepth

Descend(frame) ==
    call' = [call EXCEPT !.level = @ + 1,
                         !.frame = frame,
                         !.restored = Child = Root /\ AtLastLevel]

\* The table has a child.
Follow ==
    /\ Walking
    /\ Child # Root
    /\ Descend(Child)
    /\ UNCHANGED <<ram, swap, answer, written>>

\* The memory without the reference to the frame at a level of a page's way.
Unlink(page, level) ==
    [ram EXCEPT ![FrameAt(page, level - 1)][Row(page, level - 1)] = Root]

\* clear_table.
ClearedFrame == [o \in Offsets |-> 0]

\* The rest of the step after get_frame: a table is cleared, and the frame
\* becomes a child.
Install(frame, memory) ==
    /\ ram' = [[memory EXCEPT ![frame] = IF AtLastLevel THEN @ ELSE ClearedFrame]
                 EXCEPT ![call.frame][ThisRow] = frame]
    /\ Descend(frame)

Missing == Walking /\ Child = Root
EmptyTableExists == PagesBelowEmpty(call.frame) # {}
FirstFresh == Max(UsedFrames) + 1

\* Seeded fault: an empty table that is reused stays linked where it was.
ReuseTableLinked ==
    /\ Missing
    /\ EmptyTableExists
    /\ LET page == Min(PagesBelowEmpty(call.frame))
           level == CHOOSE n \in EmptyTables(page, call.frame) : TRUE
       IN  Install(FrameAt(page, level), ram)
    /\ UNCHANGED <<swap, answer, written>>

\* get_frame: the walk of find_free_frame unlinks the first empty table.
ReuseTable ==
    /\ Missing
    /\ EmptyTableExists
    /\ LET page == Min(PagesBelowEmpty(call.frame))
           level == CHOOSE n \in EmptyTables(page, call.frame) : TRUE
       IN  Install(FrameAt(page, level), Unlink(page, level))
    /\ UNCHANGED <<swap, answer, written>>

\* Seeded fault: one frame is skipped.
TakeFreshSkipping ==
    /\ Missing
    /\ ~EmptyTableExists
    /\ FirstFresh + 1 < NumFrames
    /\ Install(FirstFresh + 1, ram)
    /\ UNCHANGED <<swap, answer, written>>

\* Seeded fault: there is one frame more than there is.
TakeFreshPastEnd ==
    /\ Missing
    /\ ~EmptyTableExists
    /\ FirstFresh <= NumFrames
    /\ Install(FirstFresh, ram)
    /\ UNCHANGED <<swap, answer, written>>

\* get_frame: the frame after the last one in use.
TakeFresh ==
    /\ Missing
    /\ ~EmptyTableExists
    /\ FirstFresh < NumFrames
    /\ Install(FirstFresh, ram)
    /\ UNCHANGED <<swap, answer, written>>

\* The swap file with the words of a page that is evicted.
PMevict(page, words) ==
    [p \in DOMAIN swap \union {page} |-> IF p = page THEN words ELSE swap[p]]

MustEvict == Missing /\ ~EmptyTableExists /\ FirstFresh >= NumFrames

\* Seeded fault: the table goes on referring to the page that was evicted.
EvictLinked ==
    /\ MustEvict
    /\ LET page == PageToEvict(Page)
           frame == FrameAt(page, TablesDepth)
       IN  /\ swap' = PMevict(page, ram[frame])
           /\ Install(frame, ram)
    /\ UNCHANGED <<answer, written>>

\* get_frame: dfs_max_frame evicts the farthest page and unlinks it.
Evict ==
    /\ MustEvict
    /\ LET page == PageToEvict(Page)
           frame == FrameAt(page, TablesDepth)
       IN  /\ swap' = PMevict(page, ram[frame])
           /\ Install(frame, Unlink(page, TablesDepth))
    /\ UNCHANGED <<answer, written>>

\* The word that a call reads or writes, in the frame's words.
Access(words) ==
    LET offset == Offset(call.address)
        Answer(word) == answer' = Success(call.op, call.address, word)
    IN  /\ \/ /\ call.op = "read"
              /\ ram' = [ram EXCEPT ![call.frame] = words]
              /\ Answer(words[offset])
              /\ UNCHANGED written
           \/ /\ call.op = "write"
              /\ ram' = [ram EXCEPT ![call.frame] = [words EXCEPT ![offset] = call.value]]
              /\ Answer(call.value)
              /\ written' = written \union {call.address}
        /\ call' = NoCall

\* PMrestore leaves the frame of a page that was never evicted as it is.
ComesBack == call.restored /\ Page \in DOMAIN swap

\* Seeded fault: a page that comes back is not read from the swap file.
FinishUnrestored ==
    /\ Calling
    /\ call.level = TablesDepth
    /\ Access(ram[call.frame])
    /\ UNCHANGED swap

\* The end of the walk, and VMread's PMread or VMwrite's PMwrite.
Finish ==
    /\ Calling
    /\ call.level = TablesDepth
    /\ Access(IF ComesBack THEN swap[Page] ELSE ram[call.frame])
    /\ swap' = IF ComesBack THEN Restrict(swap, DOMAIN swap \ {Page}) ELSE swap

Next ==
    \/ \E a \in Addresses :
          \/ Begin("read", a, 0)
          \/ \E value \in Values : Begin("write", a, value)
          \/ \E op \in {"read", "write"} : Refuse(op, a)
    \/ Follow
    \/ ReuseTable
    \/ TakeFresh
    \/ Evict
    \/ Finish

Spec == Init /\ [][Next]_vars

-----------------------------------------------------------------------------
(* Properties.                                                             *)

\* Every variable has its type.
TypeOK ==
    /\ ram \in [Frames -> [Offsets -> Words]]
    /\ DOMAIN swap \subseteq Pages
    /\ \A page \in DOMAIN swap : swap[page] \in [Offsets -> Words]
    /\ call \in [op : {"none", "read", "write"}, address : Addresses \union {0},
                 value : Values \union {0}, level : 0 .. TablesDepth,
                 frame : Frames, restored : BOOLEAN]
    /\ answer \in [op : {"none", "read", "write"}, address : Addresses \union {0},
                   ok : BOOLEAN, word : Words]
    /\ written \subseteq Addresses

\* The tree's nodes: how far the way has come, the way, and the frame there.
Nodes == {node \in {<<n, Prefix(page, n), FrameAt(page, n)>> : page \in Pages, n \in Levels} :
             node[3] # Root}

\* No frame has two parents, or two rows of one parent: a frame that an
\* eviction or the reuse of a table moves within the tree has left its old
\* place.
EachFrameOnce == Cardinality(Nodes) = Cardinality({node[3] : node \in Nodes})

\* A page is in one place: a resident page whose content has arrived is not
\* in the swap file, where its next eviction would meet an older copy.
OnePlace ==
    \A page \in DOMAIN swap :
        Resident(page) => Calling /\ Page = page /\ call.restored

\* The walk stands where the tree says, whatever get_frame took or evicted
\* on the way: the path behind it is never cut.
PathIntact ==
    Calling => /\ call.frame = FrameAt(Page, call.level)
               /\ call.level > 0 => call.frame # Root

\* The frames in use are a prefix of the physical memory.  get_frame knows
\* the free frames only by the largest one in use, so a frame left behind
\* below it would be lost for good.
NoFrameLost == UsedFrames = 0 .. Max(UsedFrames)

\* When a page must be evicted there is one: otherwise dfs_max_frame would
\* evict what its uninitialised saving_data holds.
CandidateExists == MustEvict => Candidates(Page) # {}

\* The content of an address that was written: in its frame or, until the
\* walk has brought the page back, in the swap file.
Content(a) ==
    LET page == PageIndex(a)
        pending == Calling /\ Page = page /\ call.restored
    IN  IF Resident(page) /\ ~pending
        THEN ram[FrameAt(page, TablesDepth)][Offset(a)]
        ELSE IF page \in DOMAIN swap THEN swap[page][Offset(a)] ELSE Unwritten

Flat == INSTANCE FlatMemory WITH
            Size <- VirtualMemorySize,
            memory <- [a \in Addresses |-> IF a \in written THEN Content(a) ELSE Unwritten]

\* Paging is invisible: under every order of faults, evictions and reused
\* tables, a read returns what was written last to its address, and no call
\* changes the content of another address.
FlatSpec == Flat!Spec
=============================================================================
