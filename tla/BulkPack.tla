------------------------------ MODULE BulkPack ------------------------------
(***************************************************************************)
(* How a presented frame is laid out in the shared file: the header, the   *)
(* table of draws, and behind it the bulk region with the data the draws   *)
(* need (vertices, indices, declaration, constants, textures, bytecode).   *)
(* The packer is the loop of dx9mt_backend_bridge_present, one action per  *)
(* item; the viewer's checks of the header and of each range are operators *)
(* on the finished frame.  That the viewer may see the file while it is    *)
(* being written is the subject of FrameIpc.                               *)
(***************************************************************************)
EXTENDS Integers, Sequences, FiniteSets

CONSTANTS
    FileSize,    \* DX9MT_METAL_IPC_SIZE
    HeaderSize,  \* sizeof(dx9mt_metal_ipc_header)
    DrawSize,    \* sizeof(dx9mt_metal_ipc_draw)
    MaxDraws,    \* DX9MT_METAL_IPC_MAX_DRAWS
    Stages,      \* DX9MT_MAX_PS_SAMPLERS
    DataSizes,   \* the byte counts an item with data can have
    MaxData      \* bound: items packed in one frame

\* (n + 15u) & ~15u
RoundUp(n) == ((n + 15) \div 16) * 16

\* The file is a whole number of 16-byte lines and has room for a full table;
\* no sum of an offset and a data size leaves the 32-bit range (an upload
\* never exceeds its 256 MB slot).
ASSUME FileAssumption ==
    /\ FileSize \in Nat /\ HeaderSize \in Nat /\ DrawSize \in Nat
    /\ MaxDraws \in Nat /\ Stages \in Nat
    /\ FileSize % 16 = 0
    /\ HeaderSize + MaxDraws * DrawSize + 15 =< FileSize
ASSUME DataAssumption ==
    /\ DataSizes \subseteq Nat \ {0}
    /\ \A s \in DataSizes : FileSize + s < 1073741824

\* What a draw may bring, in the order in which the code packs it.
Items == <<"vb", "ib", "decl", "vs_constants", "ps_constants">>
           \o [s \in 1..Stages |-> "tex"] \o <<"vs_bytecode", "ps_bytecode">>

Draws == 1..MaxDraws
NoRange == [offset |-> 0, size |-> 0]
NoRanges == [i \in DOMAIN Items |-> NoRange]

VARIABLES
    phase,   \* "packing" while sequence is 0, "published" afterwards
    count,   \* draw_count
    offset,  \* bulk_offset
    used,    \* bulk_used
    draw,    \* i, counted from 1
    item,    \* position in Items; 0 before the draw's entry is cleared
    table,   \* the draws in the file: the range each names for each item
    header,  \* the header fields about the layout
    held     \* the data of this frame that is whole in the bulk region

packVars == <<phase, count, offset, used, draw, item, table, header, held>>

Header == [draw_count: 0..MaxDraws, bulk_data_offset: 0..FileSize,
           bulk_data_used: 0..FileSize]
Piece == [draw: Draws, item: DOMAIN Items, from: 0..FileSize, size: DataSizes]

\* The type invariant.
PackTypeOK ==
    /\ phase \in {"packing", "published"}
    /\ count \in 0..MaxDraws
    /\ offset \in 0..FileSize
    /\ used \in 0..FileSize
    /\ draw \in 1..(MaxDraws + 1)
    /\ item \in 0..(Len(Items) + 1)
    /\ table \in [Draws -> [DOMAIN Items -> [offset: 0..FileSize,
                                             size: DataSizes \cup {0}]]]
    /\ header \in Header
    /\ held \subseteq Piece

\* Where the bulk region of a frame of n draws begins.
RightBehindTheTable(n) == HeaderSize + n * DrawSize
BulkOffset(n) == RoundUp(HeaderSize + n * DrawSize)

-----------------------------------------------------------------------------
\* The file before the first frame of this process: zeroed.
PackInit ==
    /\ phase = "published" /\ count = 0
    /\ offset = BulkOffset(0) /\ used = 0
    /\ draw = 1 /\ item = 0
    /\ table = [d \in Draws |-> NoRanges]
    /\ header = [draw_count |-> 0, bulk_data_offset |-> BulkOffset(0),
                 bulk_data_used |-> 0]
    /\ held = {}

\* draw_count of a frame with `stored` recorded commands.
Capped(stored) == IF stored > MaxDraws THEN MaxDraws ELSE stored

\* A present with `stored` recorded commands starts to write its frame; those
\* beyond the table are dropped.  One more than the table holds stands for all
\* larger numbers.
BeginFrame(stored) ==
    /\ phase = "published"
    /\ phase' = "packing"
    /\ count' = Capped(stored)
    /\ offset' = BulkOffset(count')
    /\ used' = 0 /\ draw' = 1 /\ item' = 0
    /\ held' = {}
    /\ UNCHANGED <<table, header>>

\* memset(d, 0, sizeof(*d)): the entry may still name ranges of an old frame.
KeepEntry(d) == table[d]
ClearedEntry(d) == NoRanges

ClearDraw ==
    /\ phase = "packing" /\ draw =< count /\ item = 0
    /\ table' = [table EXCEPT ![draw] = ClearedEntry(draw)]
    /\ item' = 1
    /\ UNCHANGED <<phase, count, offset, used, draw, header, held>>

AtItem == phase = "packing" /\ draw =< count /\ item \in DOMAIN Items

\* The item has no data: the size is 0 or the upload does not resolve.
NoData ==
    /\ AtItem
    /\ item' = item + 1
    /\ UNCHANGED <<phase, count, offset, used, draw, table, header, held>>

FitsBehindTheOffset(size) == used + size =< FileSize
Fits(size) == offset + used + size =< FileSize

\* The memcpy: what it overwrites of the frame is no longer whole.
Apart(p, q) == p.from + p.size =< q.from \/ q.from + q.size =< p.from
Written(p) == {q \in held : Apart(p, q)} \cup {p}

Pack(size) ==
    /\ AtItem /\ Fits(size)
    /\ Cardinality(held) < MaxData
    /\ table' = [table EXCEPT ![draw][item] = [offset |-> used, size |-> size]]
    /\ held' = Written([draw |-> draw, item |-> item, from |-> used, size |-> size])
    /\ used' = used + RoundUp(size)
    /\ item' = item + 1
    /\ UNCHANGED <<phase, count, offset, draw, header>>

\* Data that finds no room stays out; what follows is still tried.
LeaveOut(size) ==
    /\ AtItem /\ ~Fits(size)
    /\ item' = item + 1
    /\ UNCHANGED <<phase, count, offset, used, draw, table, header, held>>

NextDraw ==
    /\ phase = "packing" /\ draw =< count /\ item = Len(Items) + 1
    /\ draw' = draw + 1 /\ item' = 0
    /\ UNCHANGED <<phase, count, offset, used, table, header, held>>

PublishHeader ==
    /\ phase = "packing" /\ draw = count + 1
    /\ phase' = "published"
    /\ header' = [draw_count |-> count, bulk_data_offset |-> offset,
                  bulk_data_used |-> used]
    /\ UNCHANGED <<count, offset, used, draw, item, table, held>>

PackNext ==
    \/ \E stored \in 0..(MaxDraws + 1) : BeginFrame(stored)
    \/ ClearDraw
    \/ NoData
    \/ \E size \in DataSizes : Pack(size)
    \/ \E size \in DataSizes : LeaveOut(size)
    \/ NextDraw
    \/ PublishHeader

PackSpec == PackInit /\ [][PackNext]_packVars

-----------------------------------------------------------------------------
(* The viewer's side. *)

\* The layout checks of the poll and of render_frame.
HeaderOK ==
    /\ header.draw_count =< MaxDraws
    /\ header.bulk_data_offset >= HeaderSize + header.draw_count * DrawSize
    /\ header.bulk_data_offset =< FileSize
    /\ header.bulk_data_used =< FileSize - header.bulk_data_offset

\* dx9mt_ipc_bulk_range_valid
RangeValid(r) ==
    /\ r.size # 0
    /\ header.bulk_data_offset =< FileSize
    /\ r.offset =< header.bulk_data_used
    /\ r.size =< header.bulk_data_used - r.offset
    /\ r.offset =< FileSize - header.bulk_data_offset
    /\ r.size =< FileSize - header.bulk_data_offset - r.offset

\* The data the viewer uses of the frame: the ranges it accepts.
Taken == {p \in {[draw |-> d, item |-> i, from |-> table[d][i].offset,
                  size |-> table[d][i].size] :
                   d \in 1..header.draw_count, i \in DOMAIN Items} :
            RangeValid([offset |-> p.from, size |-> p.size])}

\* The viewer never rejects a published frame for its layout, however much
\* data was left out: the table, the region and what it says is used fit.
FrameAccepted == phase = "published" => HeaderOK

\* The viewer takes exactly the data that is whole in the file, each piece for
\* the draw and the item it belongs to: no range of an earlier frame survives
\* in a reused entry, none is overwritten by a later item, and none that was
\* packed is refused by the range check.
TakesWhatIsThere == phase = "published" => Taken = held

\* Every piece lies in the file behind the table of draws and begins on a
\* 16-byte line, which the viewer's casts to vertices and words rely on.
InPlace ==
    \A p \in held :
        /\ (offset + p.from) % 16 = 0
        /\ offset + p.from >= HeaderSize + count * DrawSize
        /\ offset + p.from + p.size =< FileSize
=============================================================================
