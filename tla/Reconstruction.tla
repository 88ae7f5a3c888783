--------------------------- MODULE Reconstruction ---------------------------
(***************************************************************************)
(* The read path: what a shard upload records about its files, how the CAS *)
(* turns those rows into terms and signed byte ranges, what the gateway    *)
(* serves under such a range, and what a client rebuilds from it.          *)
(*                                                                         *)
(* A chunk is a model value with two lengths: as stored in the serialised  *)
(* xorb, header included, and unpacked.  Bytes are offsets.  Ranges are    *)
(* kept as the code keeps them: end-exclusive in the tables, end-inclusive *)
(* in URLs and HTTP.  Pin states move as ObjectLife lets them.             *)
(***************************************************************************)
EXTENDS Integers, Sequences, FiniteSets, SequencesExt

CONSTANTS
    XorbChunks,    \* XorbChunks[x]: the chunks of xorb x, in order
    FileChunks,    \* FileChunks[f]: the content of file f
    Stored,        \* Stored[c]: serialised length of chunk c, with header
    Unpacked,      \* Unpacked[c]: its length in a file
    Unindexed,     \* xorbs whose chunk_boundaries column is NULL
    Listed,        \* Listed[s]: the xorbs shard s has a XorbInfo for
    Segments,      \* Segments[s]: the files of shard s and, for each of them,
                   \* its segments [xorb, first, last), chunk indices from 0
    Starts,        \* start offsets clients put in a Range header
    Specs,         \* Range headers clients send to the gateway
    Clients,
    U64,           \* 2^64 in the code: the modulus of unsigned arithmetic
    NULL

Xorbs == DOMAIN XorbChunks
Files == DOMAIN FileChunks
Shards == DOMAIN Segments

Chunks == DOMAIN Stored

\* The sum of the first n numbers of q.
PrefixSum(q, n) ==
    LET sum[i \in 0..Len(q)] == IF i = 0 THEN 0 ELSE sum[i - 1] + q[i]
    IN  sum[n]

\* The bytes of the first n of some chunks, and of all, in either length.
Offset(len, chunks, n) == PrefixSum([i \in DOMAIN chunks |-> len[chunks[i]]], n)
Length(len, chunks) == Offset(len, chunks, Len(chunks))

\* The content segment seg selects, and that of several segments.
Chosen(seg) == SubSeq(XorbChunks[seg.xorb], seg.first + 1, seg.last)
Content(segs) == FlattenSeq([i \in DOMAIN segs |-> Chosen(segs[i])])

ASSUME LengthsAssumption ==
    /\ U64 \in Nat \ {0} /\ NULL \notin Nat
    /\ \A c \in Chunks : Stored[c] \in Nat \ {0} /\ Unpacked[c] \in Nat \ {0}
    /\ \A x \in Xorbs :
        /\ XorbChunks[x] \in Seq(Chunks) \ {<<>>}
        /\ Length(Stored, XorbChunks[x]) \in 0..U64 - 1
        /\ Length(Unpacked, XorbChunks[x]) \in 0..U64 - 1

\* Clients upload shards that describe their files correctly.
ASSUME ShardsAssumption ==
    \A s \in Shards : \A f \in DOMAIN Segments[s] :
        /\ f \in Files
        /\ Segments[s][f] \in Seq([xorb : Xorbs, first : Nat, last : Nat])
        /\ \A i \in DOMAIN Segments[s][f] :
              LET seg == Segments[s][f][i] IN
              seg.first < seg.last /\ seg.last <= Len(XorbChunks[seg.xorb])
        /\ Content(Segments[s][f]) = FileChunks[f]

\* Range headers, as ParseRange splits them.
ASSUME SpecsAssumption ==
    \A header \in Specs : \A i \in DOMAIN header :
        header[i] \in [form : {"full"}, s : Nat, e : Nat] \cup [form : {"open"}, s : Nat]
                     \cup [form : {"suffix"}, n : Nat]

VARIABLES
    pin,      \* pin[x]: pin_state of xorb x, "absent" without a row
    shards,   \* the shards with a row
    size,     \* size[f]: total_size in reconstruction_files, NULL without a row
    terms,    \* terms[f]: the rows of reconstruction_terms by term_index
    dl,       \* dl[c]: the download client c is in
    wire      \* the last answer of the gateway to a verified request

vars == <<pin, shards, size, terms, dl, wire>>

-----------------------------------------------------------------------------
(***************************************************************************)
(* Recording a shard.                                                      *)
(***************************************************************************)

\* walk_chunk_boundaries, chunk_boundary_offsets: end-exclusive offset of
\* chunk i (from 0) in the serialised xorb.
Boundary(x, i) == Offset(Stored, XorbChunks[x], i + 1)

\* XorbInfo: offset of chunk i in the unpacked xorb.
UnpackedStart(x, i) == Offset(Unpacked, XorbChunks[x], i)

\* parse_and_validate: the byte range of a segment, from the shard's XorbInfo;
\* <<0, 0>> for a xorb that only an earlier shard listed.
parse_and_validate(s, seg) ==
    IF seg.xorb \in Listed[s]
    THEN <<UnpackedStart(seg.xorb, seg.first), UnpackedStart(seg.xorb, seg.last)>>
    ELSE <<0, 0>>

\* Mutant of PhysicalRange: the first chunk's own boundary is its start.
PhysicalRangeOffByOne(s, seg) ==
    IF seg.xorb \in Unindexed THEN parse_and_validate(s, seg)
    ELSE <<IF seg.first = 0 THEN 0 ELSE Boundary(seg.xorb, seg.first),
           Boundary(seg.xorb, seg.last - 1)>>

\* upload_shard, step 6a: rewritten to the serialised offsets where the xorb's
\* boundaries are known.
PhysicalRange(s, seg) ==
    IF seg.xorb \in Unindexed THEN parse_and_validate(s, seg)
    ELSE <<IF seg.first = 0 THEN 0 ELSE Boundary(seg.xorb, seg.first - 1),
           Boundary(seg.xorb, seg.last - 1)>>

\* The term rows of file f in shard s.
ParsedTerms(s, f) ==
    [i \in DOMAIN Segments[s][f] |->
        LET seg == Segments[s][f][i] IN
        [xorb |-> seg.xorb, first |-> seg.first, last |-> seg.last,
         bytes |-> PhysicalRange(s, seg),
         unpacked |-> Length(Unpacked, Chosen(seg))]]

\* The unpacked_length column, added up.
UnpackedSize(row) == PrefixSum([i \in DOMAIN row |-> row[i].unpacked], Len(row))

\* ON CONFLICT (file_id, term_index) DO NOTHING.
Merged(old, new) ==
    [i \in 1 .. Max({Len(old), Len(new)}) |->
        IF i <= Len(old) THEN old[i] ELSE new[i]]

Referenced(s) ==
    UNION {{Segments[s][f][i].xorb : i \in DOMAIN Segments[s][f]} :
              f \in DOMAIN Segments[s]}

Revived(s) ==
    [x \in Xorbs |-> IF x \in Referenced(s) /\ pin[x] = "orphaned"
                     THEN "pinning" ELSE pin[x]]

\* upload_shard up to its commit.  The dedup path finds the row and writes
\* nothing but the revival.
UploadShard(s) ==
    /\ \A x \in Referenced(s) : pin[x] # "absent"
    /\ pin' = Revived(s)
    /\ shards' = shards \cup {s}
    /\ size' = [f \in Files |->
          IF s \notin shards /\ f \in DOMAIN Segments[s] /\ size[f] = NULL
          THEN UnpackedSize(ParsedTerms(s, f))
          ELSE size[f]]
    /\ terms' = [f \in Files |->
          IF s \notin shards /\ f \in DOMAIN Segments[s]
          THEN Merged(terms[f], ParsedTerms(s, f)) ELSE terms[f]]
    /\ UNCHANGED <<dl, wire>>

\* A referenced xorb is missing, or the rate limiter or a statement refuses:
\* the orphans are revived and nothing else is written.
RefuseShard(s) ==
    /\ pin' = Revived(s)
    /\ UNCHANGED <<shards, size, terms, dl, wire>>

\* What uploads and the reconciler may do to a xorb row (ObjectLife).
PinMoves(x) ==
    /\ \E st \in {"pinning", "pinned", "orphaned"} :
        /\ pin[x] = "absent" => st = "pinning"
        /\ pin' = [pin EXCEPT ![x] = st]
    /\ UNCHANGED <<shards, size, terms, dl, wire>>

-----------------------------------------------------------------------------
(***************************************************************************)
(* Answering a reconstruction query.                                       *)
(***************************************************************************)

\* get_reconstruction, get_reconstructions_batch: the terms whose xorb is
\* pinned, in term order.
get_reconstruction(f) ==
    LET kept[n \in 0..Len(terms[f])] ==
            IF n = 0 THEN <<>>
            ELSE IF pin[terms[f][n].xorb] = "pinned"
                 THEN Append(kept[n - 1], terms[f][n]) ELSE kept[n - 1]
    IN  kept[Len(terms[f])]

\* Mutant of MergeSpan: adjacent spans stay apart.
MergeSpanStrict(acc, s) ==
    IF acc # <<>> /\ s[1] < Last(acc)[2]
    THEN [acc EXCEPT ![Len(acc)] = <<@[1], Max({@[2], s[2]})>>]
    ELSE Append(acc, s)

MergeSpan(acc, s) ==
    IF acc # <<>> /\ s[1] <= Last(acc)[2]
    THEN [acc EXCEPT ![Len(acc)] = <<@[1], Max({@[2], s[2]})>>]
    ELSE Append(acc, s)

Spans(row, x) == {row[i].bytes : i \in {j \in DOMAIN row : row[j].xorb = x}}

Before(p, q) == p[1] < q[1] \/ (p[1] = q[1] /\ p[2] < q[2])

\* The sort by start; equal spans merge, so each is listed once.
Sorted(spans) ==
    CHOOSE q \in [1..Cardinality(spans) -> spans] :
        /\ \A sp \in spans : \E i \in DOMAIN q : q[i] = sp
        /\ \A i, j \in DOMAIN q : i < j => Before(q[i], q[j])

\* The merge loop.
Merge(sorted) ==
    LET acc[n \in 0..Len(sorted)] ==
            IF n = 0 THEN <<>> ELSE MergeSpan(acc[n - 1], sorted[n])
    IN  acc[Len(sorted)]

\* coalesce_terms_by_xorb, for one xorb: sorted by start, merged, and the end
\* made inclusive by an unsigned subtraction that wraps for an empty span.
coalesce_terms(row, x) ==
    LET merged == Merge(Sorted(Spans(row, x)))
    IN  [i \in DOMAIN merged |->
            [start |-> merged[i][1], last |-> (merged[i][2] - 1) % U64]]

\* Mutant of ChunkRange: the bound is compared without the + 1.
ChunkRangeInclusive(row, x, br) ==
    LET inside == {i \in DOMAIN row :
            /\ row[i].xorb = x
            /\ row[i].bytes[1] >= br.start
            /\ row[i].bytes[2] <= br.last}
    IN  IF inside = {} THEN <<0, 0>>
        ELSE <<Min({row[i].first : i \in inside}), Max({row[i].last : i \in inside})>>

\* The chunk range of a merged byte range: the union of the terms inside it.
ChunkRange(row, x, br) ==
    LET inside == {i \in DOMAIN row :
            /\ row[i].xorb = x
            /\ row[i].bytes[1] >= br.start
            /\ row[i].bytes[2] <= (br.last + 1) % U64}
    IN  IF inside = {} THEN <<0, 0>>
        ELSE <<Min({row[i].first : i \in inside}), Max({row[i].last : i \in inside})>>

Touched(row) == {row[i].xorb : i \in DOMAIN row}

\* build_response, build_v2_response: the fetch_info entries of xorb x.
FetchInfo(row, x) ==
    LET brs == coalesce_terms(row, x) IN
    [i \in DOMAIN brs |-> [bytes |-> brs[i], chunks |-> ChunkRange(row, x, brs[i])]]

\* The ranges each minted URL grants: mint_v1 signs one range per URL,
\* mint_v1_multi_range signs all of a xorb in one.
Urls(api, row, x) ==
    LET brs == coalesce_terms(row, x) IN
    IF api = "v1" THEN {<<brs[i]>> : i \in DOMAIN brs} ELSE {brs}

IdleClient ==
    [pc |-> "idle", api |-> NULL, file |-> NULL, start |-> NULL,
     row |-> <<>>, todo |-> {}, got |-> {}, data |-> <<>>]

Answered(c, api, f, start) ==
    LET row == get_reconstruction(f) IN
    dl' = [dl EXCEPT ![c] =
            [IdleClient EXCEPT !.pc = "fetch", !.api = api, !.file = f,
                               !.start = start, !.row = row,
                               !.todo = UNION {{x} \X Urls(api, row, x) :
                                                  x \in Touched(row)}]]

\* query_reconstruction_v1, query_reconstruction_v2 with an answer.  Only the
\* 416 test reads the start; the answer is the whole file.
QueryReconstruction(c, api, f, start) ==
    /\ dl[c].pc = "idle"
    /\ get_reconstruction(f) # <<>>
    /\ start # NULL => start < size[f]
    /\ Answered(c, api, f, start)
    /\ UNCHANGED <<pin, shards, size, terms, wire>>

\* 416: for the client's block loop, the end of the file.
QueryPastEnd(c, f, start) ==
    /\ dl[c].pc = "idle"
    /\ get_reconstruction(f) # <<>>
    /\ start >= size[f]
    /\ dl' = [dl EXCEPT ![c] = [IdleClient EXCEPT !.pc = "eof", !.file = f,
                                                  !.start = start]]
    /\ UNCHANGED <<pin, shards, size, terms, wire>>

\* query_reconstructions_batch_v1: files without pinned terms are left out of
\* the answer and no Range header is read; the client goes on with one file.
QueryBatch(c, fs) ==
    /\ dl[c].pc = "idle"
    /\ \E f \in fs : get_reconstruction(f) # <<>> /\ Answered(c, "v1", f, NULL)
    /\ UNCHANGED <<pin, shards, size, terms, wire>>

\* Mutant of xet_file_serve: without the size check.
xet_file_serve_unchecked(f) ==
    IF \/ size[f] = NULL \/ terms[f] = <<>>
       \/ \E i \in DOMAIN terms[f] : pin[terms[f][i].xorb] # "pinned"
    THEN NULL
    ELSE Content(terms[f])

\* xet_file_serve: decompresses the chunks of every term; NULL stands for an
\* error (404 for a xorb that is not pinned, 500 for a size mismatch).
xet_file_serve(f) ==
    LET out == Content(terms[f]) IN
    IF \/ size[f] = NULL \/ terms[f] = <<>>
       \/ \E i \in DOMAIN terms[f] : pin[terms[f][i].xorb] # "pinned"
       \/ Length(Unpacked, out) # size[f]
    THEN NULL
    ELSE out

ServeFile(c, f) ==
    /\ dl[c].pc = "idle"
    /\ xet_file_serve(f) # NULL
    /\ dl' = [dl EXCEPT ![c] = [IdleClient EXCEPT !.pc = "done", !.api = "bridge",
                                  !.file = f, !.data = xet_file_serve(f)]]
    /\ UNCHANGED <<pin, shards, size, terms, wire>>

-----------------------------------------------------------------------------
(***************************************************************************)
(* The gateway.                                                            *)
(***************************************************************************)

\* One range of ParseRange over an object of n bytes, end-inclusive; <<>> is
\* an error, 400 for a malformed range and 416 for an unsatisfiable one.
ParseSpec(spec, n) ==
    CASE spec.form = "suffix" ->
            IF spec.n = 0 \/ n = 0 THEN <<>> ELSE <<n - Min({spec.n, n}), n - 1>>
      [] spec.form = "open" ->
            IF spec.s >= n THEN <<>> ELSE <<spec.s, n - 1>>
      [] spec.form = "full" ->
            IF spec.s > spec.e \/ spec.e >= n THEN <<>> ELSE <<spec.s, spec.e>>

ParseRange(header, n) == [i \in DOMAIN header |-> ParseSpec(header[i], n)]

\* Mutant of allRangesWithinAny: one bound inside a grant is enough.
allRangesWithinAnyHalf(ranges, grants) ==
    \A i \in DOMAIN ranges : \E j \in DOMAIN grants :
        ranges[i][1] >= grants[j].start /\ ranges[i][1] <= grants[j].last

allRangesWithinAny(ranges, grants) ==
    \A i \in DOMAIN ranges : \E j \in DOMAIN grants :
        ranges[i][1] >= grants[j].start /\ ranges[i][2] <= grants[j].last

\* writeSingleRange, writeMultipartRanges: the body of one range, as the
\* first offset and the number of bytes; the section ends with the object.
Body(r, n) == <<r[1], Min({(r[2] - r[1] + 1) % U64, Max({n - r[1], 0})})>>

\* ServeXorb after Verify: the ranges to write, or an error.  Without a Range
\* header the grants themselves are served, and nothing compares them to n.
ServeXorb(x, grants, header) ==
    LET n == Length(Stored, XorbChunks[x])
        asked == ParseRange(header, n)
        ranges == IF header = <<>>
                  THEN [i \in DOMAIN grants |-> <<grants[i].start, grants[i].last>>]
                  ELSE asked
    IN  IF pin[x] # "pinned" THEN NULL                              \* 404
        ELSE IF \E i \in DOMAIN asked : asked[i] = <<>> THEN NULL       \* 400, 416
        ELSE IF header # <<>> /\ ~allRangesWithinAny(asked, grants)
             THEN NULL                                              \* 403
        ELSE [i \in DOMAIN ranges |-> Body(ranges[i], n)]           \* 206

NoWire == [xorb |-> NULL, grants |-> <<>>, parts |-> <<>>]

Fail(c) == dl' = [dl EXCEPT ![c] = [IdleClient EXCEPT !.pc = "failed"]]

\* Any request under a minted URL, whatever its Range header.
Request(c, header) ==
    /\ dl[c].pc = "fetch"
    /\ \E u \in dl[c].todo :
        /\ ServeXorb(u[1], u[2], header) # NULL
        /\ wire' = [xorb |-> u[1], grants |-> u[2],
                    parts |-> ServeXorb(u[1], u[2], header)]
    /\ UNCHANGED <<pin, shards, size, terms, dl>>

\* The Range header of a client that asks for exactly what the URL grants.
Exactly(grants) ==
    [i \in DOMAIN grants |-> [form |-> "full", s |-> grants[i].start,
                              e |-> grants[i].last]]

\* The client fetches a URL, naming its ranges or not, and keeps the bodies.
Fetch(c) ==
    /\ dl[c].pc = "fetch"
    /\ \E u \in dl[c].todo, named \in BOOLEAN :
        LET parts == ServeXorb(u[1], u[2], IF named THEN Exactly(u[2]) ELSE <<>>)
        IN  IF parts = NULL THEN Fail(c)
            ELSE dl' = [dl EXCEPT
                    ![c].todo = @ \ {u},
                    ![c].got = @ \cup {<<u[1], u[2][i], parts[i]>> :
                                         i \in DOMAIN u[2]}]
    /\ wire' = NoWire
    /\ UNCHANGED <<pin, shards, size, terms>>

\* The URL expired, or the gateway or Sia failed.
FetchFails(c) ==
    /\ dl[c].pc = "fetch"
    /\ Fail(c)
    /\ wire' = NoWire
    /\ UNCHANGED <<pin, shards, size, terms>>

-----------------------------------------------------------------------------
(***************************************************************************)
(* The client (xet-core): it finds for each term an entry that holds its   *)
(* chunks, and decodes an entry only if the body is exactly those chunks.  *)
(***************************************************************************)

Decodes(x, chunks, body) ==
    /\ chunks[1] < chunks[2] /\ chunks[2] <= Len(XorbChunks[x])
    /\ LET from == IF chunks[1] = 0 THEN 0 ELSE Boundary(x, chunks[1] - 1)
       IN  body = <<from, Boundary(x, chunks[2] - 1) - from>>

Holds(row, t, g) ==
    LET chunks == ChunkRange(row, t.xorb, g[2]) IN
    /\ g[1] = t.xorb
    /\ chunks[1] <= t.first /\ t.last <= chunks[2]
    /\ Decodes(t.xorb, chunks, g[3])

Assemble(c) ==
    /\ dl[c].pc = "fetch"
    /\ dl[c].todo = {}
    /\ IF \A i \in DOMAIN dl[c].row :
              \E g \in dl[c].got : Holds(dl[c].row, dl[c].row[i], g)
       THEN dl' = [dl EXCEPT ![c].pc = "done", ![c].got = {},
                     ![c].data = Content(dl[c].row)]
       ELSE Fail(c)
    /\ wire' = NoWire
    /\ UNCHANGED <<pin, shards, size, terms>>

Leave(c) ==
    /\ dl[c].pc \in {"done", "failed", "eof"}
    /\ dl' = [dl EXCEPT ![c] = IdleClient]
    /\ wire' = NoWire
    /\ UNCHANGED <<pin, shards, size, terms>>

-----------------------------------------------------------------------------
Init ==
    /\ pin = [x \in Xorbs |-> "absent"]
    /\ shards = {}
    /\ size = [f \in Files |-> NULL]
    /\ terms = [f \in Files |-> <<>>]
    /\ dl = [c \in Clients |-> IdleClient]
    /\ wire = NoWire

Next ==
    \/ \E x \in Xorbs : PinMoves(x)
    \/ \E s \in Shards : UploadShard(s) \/ RefuseShard(s)
    \/ \E c \in Clients :
        \/ \E f \in Files :
            \/ ServeFile(c, f)
            \/ \E start \in Starts : QueryPastEnd(c, f, start)
            \/ \E api \in {"v1", "v2"}, start \in Starts \cup {NULL} :
                  QueryReconstruction(c, api, f, start)
        \/ \E fs \in SUBSET Files : QueryBatch(c, fs)
        \/ \E header \in Specs : Request(c, header)
        \/ Fetch(c)
        \/ FetchFails(c)
        \/ Assemble(c)
        \/ Leave(c)

Spec == Init /\ [][Next]_vars

-----------------------------------------------------------------------------
(***************************************************************************)
(* Properties.                                                             *)
(***************************************************************************)

\* A signed URL names a xorb and unsigned ranges; the end of an empty one may
\* have wrapped to the largest number there is.
GrantsAreOrdered ==
    \A c \in Clients : \A u \in dl[c].todo :
        /\ u \in Xorbs \X Seq([start : Nat, last : 0..U64 - 1])
        /\ \A i \in DOMAIN u[2] : u[2][i].start <= u[2][i].last + 1

\* Every variable stays in its type; a term row keeps first < last and a
\* non-empty byte range unless nobody knew its xorb's chunks, whatever mix of
\* shards wrote it; and a signed range never ends before it begins.
TypeOK ==
    /\ pin \in [Xorbs -> {"absent", "pinning", "pinned", "orphaned"}]
    /\ shards \subseteq Shards
    /\ \A f \in Files :
        /\ size[f] = NULL => terms[f] = <<>>
        /\ \A i \in DOMAIN terms[f] :
            /\ terms[f][i].first < terms[f][i].last
            /\ \/ terms[f][i].bytes[1] < terms[f][i].bytes[2]
               \/ terms[f][i].bytes = <<0, 0>> /\ terms[f][i].xorb \in Unindexed
    /\ \A c \in Clients :
        /\ dl[c].pc \in {"idle", "fetch", "done", "failed", "eof"}
        /\ dl[c].pc = "fetch" => dl[c].row # <<>>
    /\ GrantsAreOrdered

\* coalesce_terms_by_xorb against its reference: the byte ranges it returns
\* are exactly the maximal runs of the bytes its terms cover, so they are
\* sorted, disjoint, never adjacent, and cover no byte that no term needs.
CoalescedIsMinimalCover ==
    \A f \in Files : LET row == get_reconstruction(f) IN
    \A x \in Touched(row) :
        LET spans   == Spans(row, x)
            bytes   == UNION {sp[1] .. sp[2] - 1 : sp \in spans}
            runs    == {run \in bytes \X bytes :
                          /\ run[1] <= run[2] /\ run[1] .. run[2] \subseteq bytes
                          /\ run[1] - 1 \notin bytes /\ run[2] + 1 \notin bytes}
            brs     == coalesce_terms(row, x)
        IN  (\A sp \in spans : sp[1] < sp[2]) =>
              /\ {<<brs[i].start, brs[i].last>> : i \in DOMAIN brs} = runs
              /\ \A i, j \in DOMAIN brs : i < j => brs[i].start < brs[j].start

\* For a xorb whose boundaries are stored, every fetch_info entry names a
\* byte range that holds exactly the chunks it announces, and every term of
\* the answer finds its chunks in exactly one entry: the chunk unions that
\* build_response recovers from merged bytes neither miss nor mix chunks.
EntriesFitTheirChunks ==
    \A f \in Files : LET row == get_reconstruction(f) IN
    \A x \in Touched(row) \ Unindexed :
        LET info == FetchInfo(row, x) IN
        /\ \A i \in DOMAIN info :
              Decodes(x, info[i].chunks,
                      <<info[i].bytes.start,
                        info[i].bytes.last - info[i].bytes.start + 1>>)
        /\ \A j \in DOMAIN row : row[j].xorb = x =>
              Cardinality({i \in DOMAIN info :
                  /\ info[i].chunks[1] <= row[j].first
                  /\ row[j].last <= info[i].chunks[2]}) = 1

\* A client that rebuilt a whole file has exactly the file: from the bridge
\* always; from an answer if its lengths add up to the file's size and no row
\* is missing between those it has, whatever happened to pin states and rows
\* since the query, and even if some of its xorbs have no stored boundaries or
\* only wrapped ranges.  The length alone is not enough: rows of a second
\* shard can make up for a row that the join with the pinned xorbs dropped.
DownloadIsExact ==
    \A c \in Clients :
        (dl[c].pc = "done" /\ dl[c].start \in {NULL, 0}) =>
            \/ dl[c].data = FileChunks[dl[c].file]
            \/ /\ dl[c].api # "bridge"
               /\ \/ UnpackedSize(dl[c].row) # size[dl[c].file]
                  \/ ~IsPrefix(dl[c].row, terms[dl[c].file])

\* Whatever Range header comes with a signed URL (full, open, suffix, several
\* ranges, none), no byte outside one signed range leaves the gateway, and
\* no body runs past the end of the xorb.
ServedInsideGrant ==
    \A i \in DOMAIN wire.parts :
        LET part == wire.parts[i] IN
        part[2] > 0 =>
            /\ \E j \in DOMAIN wire.grants :
                  /\ wire.grants[j].start <= part[1]
                  /\ part[1] + part[2] - 1 <= wire.grants[j].last
            /\ part[1] + part[2] <= Length(Stored, XorbChunks[wire.xorb])

(***************************************************************************)
(* What the comments say and the code does not do.                         *)
(***************************************************************************)

\* An answer is never part of a file: query_reconstruction_v2 says of the join
\* that it "excludes non-pinned xorbs -> 404 on any non-pinned reference", but
\* the join drops single terms and only a file without any left is a 404.
AnswerIsWhole ==
    \A c \in Clients :
        dl[c].pc = "fetch" => UnpackedSize(dl[c].row) >= size[dl[c].file]

\* queries/shards.rs: rows with the same (file_id, term_index) "would describe
\* identical reconstruction info"; two shards may cut a file differently.
TermsTileTheFile ==
    \A f \in Files : size[f] # NULL => UnpackedSize(terms[f]) = size[f]

\* reconstruction_range_start: "we always serve from `start` to the end of
\* the file"; the answer starts at offset 0 and says so.
RangedAnswerStartsThere ==
    \A c \in Clients :
        (dl[c].pc = "fetch" /\ dl[c].start # NULL) =>
            UnpackedSize(dl[c].row) <= size[dl[c].file] - dl[c].start

=============================================================================
