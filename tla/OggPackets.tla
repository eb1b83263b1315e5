----------------------------- MODULE OggPackets -----------------------------
(***************************************************************************)
(* iter_ogg_opus_packets (app/opus_source.py): the Opus packets of an Ogg  *)
(* file.  A packet is laced into segments of Full bytes and a last one of  *)
(* fewer; pages hold runs of segments, so that a packet may go on in the   *)
(* next page.                                                              *)
(*                                                                         *)
(* First a writer makes the file, segment by segment: any packets, any     *)
(* division into pages, foreign bytes between pages, an end at any place   *)
(* behind a page's header.  Then the parser reads it.  A byte is           *)
(* represented by the number of the packet it belongs to; the first byte   *)
(* of packets 1 and 2 stands for their names, OpusHead and OpusTags.  The  *)
(* parser finds a page by its capture pattern; an item of `file` is a page *)
(* or what lies between pages.                                             *)
(*                                                                         *)
(* Left out: the fields of the page header that the parser skips, and a    *)
(* page whose header itself is cut (the parser raises).                    *)
(***************************************************************************)
EXTENDS Integers, Sequences

CONSTANTS
  Full,        \* the lacing value that continues a packet, 255 in a file
  MaxLength,   \* bound: bytes of a packet
  MaxPackets,  \* bound: packets of a file
  MaxItems     \* bound: items of a file

ASSUME OggAssumption ==
  /\ Full \in Nat \ {0}
  /\ MaxLength \in Nat /\ MaxPackets \in Nat /\ MaxItems \in Nat

VARIABLES
  packets,  \* the packets completely written: the length of each, and where it
            \* ends, in bytes of all packets
  place,    \* where the writer is: the packet, bytes written of it and of all
  file,     \* the items written
  missing,  \* bytes missing at the end of the file
  written,  \* the file is there
  pos,      \* the item the parser is at
  seg,      \* the entry of its segment table that is read next
  idx,      \* the place in its body
  cur,      \* bytes of the packet under way, carried on over pages
  out       \* packets yielded so far

writer == <<packets, place, file, missing, written>>
parser == <<pos, seg, idx, cur, out>>
vars == <<writer, parser>>

\* marks[k] is the writer's place before segment k of the item, the last one its
\* place behind the item.  Only properties read it.
Item(page) == [page |-> page, table |-> <<>>, body |-> <<>>, marks |-> <<place>>]

Init ==
  /\ packets = <<>>
  /\ place = [packet |-> 1, done |-> 0, total |-> 0]
  /\ file = <<>> /\ missing = 0 /\ written = FALSE
  /\ pos = 1 /\ seg = 1 /\ idx = 1 /\ cur = <<>> /\ out = <<>>

-----------------------------------------------------------------------------
(* The writer: the reference *)

Top == file[Len(file)]

NewPage ==
  /\ ~written /\ Len(file) < MaxItems
  /\ file' = Append(file, Item(TRUE))
  /\ UNCHANGED <<packets, place, missing, written, parser>>

\* Foreign bytes, before or behind a page.
Gap ==
  /\ ~written /\ Len(file) < MaxItems
  /\ file # <<>> => Top.page
  /\ file' = Append(file, Item(FALSE))
  /\ UNCHANGED <<packets, place, missing, written, parser>>

\* The place behind a segment of n bytes.
After(n) ==
  [packet |-> IF n < Full THEN place.packet + 1 ELSE place.packet,
   done   |-> IF n < Full THEN 0 ELSE place.done + n,
   total  |-> place.total + n]

\* A segment of Full bytes is continued, a shorter one ends the packet.
WriteSegment ==
  /\ ~written /\ file # <<>> /\ Top.page
  /\ place.packet <= MaxPackets
  /\ \E n \in 0..Full :
       /\ place.done + n <= MaxLength
       /\ place.packet <= 2 /\ n < Full => place.done + n > 0
       /\ place' = After(n)
       /\ packets' = IF n < Full
                     THEN Append(packets, [length |-> place.done + n, end |-> place.total + n])
                     ELSE packets
       /\ file' = [file EXCEPT ![Len(file)] =
                     [page  |-> TRUE,
                      table |-> Append(Top.table, n),
                      body  |-> Top.body \o [b \in 1..n |-> place.packet],
                      marks |-> Append(Top.marks, After(n))]]
  /\ UNCHANGED <<missing, written, parser>>

\* The file ends here, between two packets or not, or some bytes of the last page
\* before.
Finish ==
  /\ ~written /\ file # <<>>
  /\ written' = TRUE
  /\ \E n \in 0..Len(Top.body) :
       /\ missing' = n
       /\ file' = [file EXCEPT ![Len(file)].body = SubSeq(Top.body, 1, Len(Top.body) - n)]
  /\ UNCHANGED <<packets, place, parser>>

-----------------------------------------------------------------------------
(* The parser *)

CompletesAtFull(seg_len) == seg_len <= Full     \* mutant: off by one
Completes(seg_len) == seg_len < Full

\* cur.startswith(...)
IsHeader(bytes) == bytes # <<>> /\ Head(bytes) \in {1, 2}

\* data[i:i + seg_len] is shorter, or empty, at the end of the file.
Slice(body, i, seg_len) ==
  SubSeq(body, i, IF i + seg_len - 1 < Len(body) THEN i + seg_len - 1 ELSE Len(body))

\* One turn of the loop over seg_table.
ReadSegment ==
  /\ written /\ pos <= Len(file) /\ seg <= Len(file[pos].table)
  /\ LET seg_len == file[pos].table[seg]
         read == cur \o Slice(file[pos].body, idx, seg_len)
     IN /\ idx' = idx + seg_len
        /\ cur' = IF Completes(seg_len) THEN <<>> ELSE read
        /\ out' = IF Completes(seg_len) /\ ~IsHeader(read) THEN Append(out, read) ELSE out
  /\ seg' = seg + 1
  /\ UNCHANGED <<writer, pos>>

CarryDropped(bytes) == <<>>     \* mutant: a packet ends with its page
Carry(bytes) == bytes

\* The loop is over: the page behind, or what is there in its place.
NextPage ==
  /\ written /\ pos <= Len(file) /\ file[pos].page /\ seg > Len(file[pos].table)
  /\ pos' = pos + 1 /\ seg' = 1 /\ idx' = 1
  /\ cur' = Carry(cur)
  /\ UNCHANGED <<writer, out>>

\* No capture pattern here: the parser goes to the next one, or ends.
Resync ==
  /\ written /\ pos <= Len(file) /\ ~file[pos].page
  /\ pos' = pos + 1
  /\ UNCHANGED <<writer, seg, idx, cur, out>>

Next == NewPage \/ Gap \/ WriteSegment \/ Finish \/ ReadSegment \/ NextPage \/ Resync

Spec == Init /\ [][Next]_vars

-----------------------------------------------------------------------------

Audio == [p \in 1..Len(packets) - 2 |-> [b \in 1..packets[p + 2].length |-> p + 2]]

\* The parser has read the file.
Read == written /\ pos > Len(file)

\* A file without a damaged page, whatever lies between its pages, yields exactly the
\* audio packets that are complete in it, in order: also those whose length is a
\* multiple of 255, that are empty, or that go on over pages.
YieldsAll == Read /\ missing = 0 => out = Audio

\* A file that ends in a page yields what precedes its end unchanged.  (What
\* follows is a short packet and empty ones.)
YieldsBeforeCut ==
  Read => \A p \in DOMAIN Audio :
            packets[p + 2].end <= place.total - missing => p <= Len(out) /\ out[p] = Audio[p]
=============================================================================
