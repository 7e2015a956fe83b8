----------------------------- MODULE Documents -----------------------------
(***************************************************************************)
(* The documents the editor works on (crates/xppatch-core: map.rs,         *)
(* block.rs, patch.rs, doc.rs).  A document is a Common block followed by  *)
(* repeated blocks: a patch and its Tones, a performance and its Parts, a  *)
(* rhythm set and its Notes, the System settings and their Scale Tunes.    *)
(* A block is a sequence of data bytes read and written by parameter.      *)
(***************************************************************************)
EXTENDS Sysex

CONSTANT MAP  \* kind -> [common, item: block definitions, items: number]

(* A block definition is [size, params]; a parameter, known by its index,  *)
(* is [offset, bytes, encoding, min, max].                                 *)

Kinds == DOMAIN MAP

MAX_BLOCK_SIZE   == 1024
MAX_NIBBLE_BYTES == 4

Unit(p)     == IF p.encoding = "nibble" THEN 16 ELSE 128
Capacity(p) == Unit(p) ^ p.bytes
BytesOf(p)  == (p.offset + 1)..(p.offset + p.bytes)

\* validate_block: the definitions a parameter map may hold.
validate_block(def) ==
  /\ def.size \in 0..MAX_BLOCK_SIZE
  /\ def.params \in Seq(ToSet(def.params))
  /\ \A i \in DOMAIN def.params : LET p == def.params[i] IN
       /\ p.offset \in Nat
       /\ p.encoding \in {"seven", "ascii", "nibble"}
       /\ p.bytes \in 1..(IF p.encoding = "nibble" THEN MAX_NIBBLE_BYTES
                          ELSE 1)
       /\ 0 <= p.min /\ p.min <= p.max /\ p.max < Capacity(p)
       /\ p.offset + p.bytes <= def.size
       /\ \A j \in 1..(i - 1) : BytesOf(p) \cap BytesOf(def.params[j]) = {}

\* What the map of the program (data/xp60-parameters.json) has besides: every
\* byte of a block belongs to a parameter, and one message holds a parameter.
AllParameters(def) ==
  /\ \A k \in 1..def.size : \E i \in DOMAIN def.params :
       k \in BytesOf(def.params[i])
  /\ \A i \in DOMAIN def.params :
       def.params[i].bytes <= MAX_DT1_DATA_TO_DEVICE

\* How many blocks are repeated, and how far apart they are.
TONES        == 4
PARTS        == 16
RHYTHM_NOTES == 64
SCALE_TUNES  == 17
MostItems(kind) ==
  CASE kind = "patch"       -> TONES
    [] kind = "performance" -> PARTS
    [] kind = "rhythm"      -> RHYTHM_NOTES
    [] kind = "system"      -> SCALE_TUNES
Stride(kind) == IF kind = "patch" THEN 256 ELSE 128

ASSUME MapAssumption ==
  /\ Kinds \subseteq {"patch", "performance", "rhythm", "system"}
  /\ \A k \in Kinds : /\ validate_block(MAP[k].common)
                      /\ validate_block(MAP[k].item)
                      /\ AllParameters(MAP[k].common)
                      /\ AllParameters(MAP[k].item)
                      /\ MAP[k].items \in 0..MostItems(k)
                      /\ MAP[k].item.size <= Stride(k)

-----------------------------------------------------------------------------
(* One block.                                                              *)

\* get_param: the number held in the bytes of a parameter, whatever it is.
get_param(p, data) ==
  FoldLeft(LAMBDA v, b : v * Unit(p) + b, 0,
           SubSeq(data, p.offset + 1, p.offset + p.bytes))

\* write: the bytes of one parameter, or of several that are apart, as those of
\* a definition are: parameter i gets number vs[i].
ByteAt(p, v, k) ==
  (v \div Unit(p) ^ (p.offset + p.bytes - k)) % Unit(p)
write(p, v, data) ==
  [k \in DOMAIN data |-> IF k \in BytesOf(p) THEN ByteAt(p, v, k) ELSE data[k]]
write_all(ps, vs, data) ==
  LET At(k) == {i \in DOMAIN ps : k \in BytesOf(ps[i])}
  IN [k \in DOMAIN data |->
        IF At(k) = {} THEN data[k]
        ELSE LET i == CHOOSE i \in At(k) : TRUE IN ByteAt(ps[i], vs[i], k)]

InRange(p, v) == v \in p.min..p.max

\* validate, for one parameter: a byte that is no nibble, a value outside.
Issue(p, data) ==
  \/ \E k \in BytesOf(p) : data[k] \notin 0..(Unit(p) - 1)
  \/ ~InRange(p, get_param(p, data))

\* init: every parameter at its minimum.
init(def) == write_all(def.params, [i \in DOMAIN def.params |->
                                      def.params[i].min],
                       [k \in 1..def.size |-> 0])

SPACE == 32
AsciiParams(def) == SelectSeq(def.params, LAMBDA p : p.encoding = "ascii")
CharAt(chars, k) == IF k <= Len(chars) THEN chars[k] ELSE SPACE

\* set_text: refused as a whole when one character does not fit.
TextFits(def, chars) ==
  /\ Len(chars) <= Len(AsciiParams(def))
  /\ \A k \in DOMAIN AsciiParams(def) :
       InRange(AsciiParams(def)[k], CharAt(chars, k))
set_text(def, chars, data) ==
  write_all(AsciiParams(def),
            [k \in DOMAIN AsciiParams(def) |-> CharAt(chars, k)], data)

Trimmed(chars) ==
  LET kept == {k \in DOMAIN chars : chars[k] # SPACE}
  IN SubSeq(chars, 1, Max(kept \cup {0}))

\* text: what is not printable is shown as "?"; trailing spaces are dropped.
text(def, data) ==
  LET Shown(b) == IF b \in 32..126 THEN b ELSE 63
  IN Trimmed([k \in DOMAIN AsciiParams(def) |->
                Shown(data[AsciiParams(def)[k].offset + 1])])

-----------------------------------------------------------------------------
(* Documents.                                                              *)

items(kind) == MAP[kind].items

\* The third lane of the address steps by one per block, by two per Tone.
item_offset(kind, i) ==
  128 * (IF kind = "rhythm" THEN 35 ELSE 16) + Stride(kind) * i

layout(kind) ==
  [i \in 1..(1 + items(kind)) |->
     IF i = 1 THEN [offset |-> 0, def |-> MAP[kind].common]
     ELSE [offset |-> item_offset(kind, i - 2), def |-> MAP[kind].item]]

DefOf(kind, i) == layout(kind)[i].def

temp_base(kind) ==
  CASE kind = "patch"       -> TEMP_PATCH
    [] kind = "performance" -> TEMP_PERFORMANCE
    [] kind = "rhythm"      -> temp_patch_part(9)
    [] kind = "system"      -> SYSTEM
is_live_editable(kind) == kind # "system"

user_slots(kind) ==
  CASE kind = "patch"       -> USER_PATCH_COUNT
    [] kind = "performance" -> USER_PERFORMANCE_COUNT
    [] kind = "rhythm"      -> USER_RHYTHM_COUNT
    [] kind = "system"      -> 0
user_base(kind, slot) ==
  CASE kind = "patch"       -> user_patch(slot)
    [] kind = "performance" -> user_performance(slot)
    [] kind = "rhythm"      -> user_rhythm(slot)

\* A document of its kind: every block is there, and as long as it must be.
IsBytes(b, n) == b \in [1..n -> ToSet(b)]
IsDocument(d) ==
  /\ d = [kind |-> d.kind, blocks |-> d.blocks]
  /\ d.kind \in Kinds
  /\ d.blocks \in [DOMAIN layout(d.kind) -> ToSet(d.blocks)]
  /\ \A i \in DOMAIN d.blocks : IsBytes(d.blocks[i], DefOf(d.kind, i).size)

init_document(kind) ==
  [kind |-> kind, blocks |-> [i \in DOMAIN layout(kind) |->
                                init(DefOf(kind, i))]]

to_block_bytes(doc) == FlattenSeq(doc.blocks)

\* from_block_bytes: the exact length; each block as received.
StartOf(kind, i) ==
  LET start[j \in DOMAIN layout(kind)] ==
        IF j = 1 THEN 0 ELSE start[j - 1] + DefOf(kind, j - 1).size
  IN start[i]
CutIntoBlocks(kind, bytes) ==
  [i \in DOMAIN layout(kind) |->
     SubSeq(bytes, StartOf(kind, i) + 1,
            StartOf(kind, i) + DefOf(kind, i).size)]
from_block_bytes(kind, bytes) ==
  [kind |-> kind, blocks |-> CutIntoBlocks(kind, bytes)]

Invalid(doc) ==
  \E i \in DOMAIN doc.blocks :
    \E p \in ToSet(DefOf(doc.kind, i).params) : Issue(p, doc.blocks[i])

-----------------------------------------------------------------------------
(* Documents as pieces [address, data].                                    *)

\* to_dt1, for a document that is not Invalid.
to_dt1(doc, base) ==
  [i \in DOMAIN doc.blocks |->
     [address |-> base + layout(doc.kind)[i].offset,
      data    |-> doc.blocks[i]]]

\* param_dt1, for parameter number j of block i when its value is in range.
ParamSendable(doc, i, j) == ~Issue(DefOf(doc.kind, i).params[j],
                                   doc.blocks[i])
param_dt1(doc, base, i, j) ==
  LET p == DefOf(doc.kind, i).params[j]
  IN [address |-> base + layout(doc.kind)[i].offset + p.offset,
      data    |-> SubSeq(doc.blocks[i], p.offset + 1, p.offset + p.bytes)]

\* assemble: pieces in any order and cut anywhere.  Each must lie within one
\* block, no two may disagree, and every byte must be there.
DataAt(pieces, a) ==
  {p.data[a - p.address + 1] :
     p \in {q \in ToSet(pieces) :
              a \in q.address..(q.address + Len(q.data) - 1)}}
Assembles(kind, base, pieces) ==
  /\ \A p \in ToSet(pieces) : \E l \in ToSet(layout(kind)) :
       /\ p.address >= base + l.offset
       /\ p.address + Len(p.data) <= base + l.offset + l.def.size
  /\ \A l \in ToSet(layout(kind)) : \A k \in 0..(l.def.size - 1) :
       Cardinality(DataAt(pieces, base + l.offset + k)) = 1
from_dt1(kind, base, pieces) ==
  [kind |-> kind, blocks |-> [i \in DOMAIN layout(kind) |->
     [k \in 1..DefOf(kind, i).size |->
        CHOOSE b \in DataAt(pieces, base + layout(kind)[i].offset + k - 1) :
          TRUE]]]
=============================================================================
