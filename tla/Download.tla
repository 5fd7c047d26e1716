------------------------------ MODULE Download ------------------------------
(***************************************************************************)
(* Block-wise downloads: the response side of the request handler          *)
(* (loft/src/handler.rs, json_response and firmware) between a device that *)
(* fetches a document block by block and dovecote, which holds the         *)
(* documents and may replace one at any time.  The handler keeps nothing   *)
(* between blocks: each is one request, and one upstream call of its own.  *)
(* Answers may be lost, and are then asked for again.                      *)
(*                                                                         *)
(* Byte i of version v of a document is <<v, i>>.  The device and dovecote *)
(* are not in this repository; they are modelled from what the handler     *)
(* sends and expects.                                                      *)
(***************************************************************************)
EXTENDS Blocks

CONSTANTS
    Version,      \* versions of the documents
    Length,       \* Version -> Nat, their sizes
    UdpMaxBlock,  \* LOFT_UDP_MAX_BLOCK_BYTES
    MaxChanges,   \* bound on the changes of the documents
    None

ASSUME DownloadAssumption ==
    /\ Length \in [Version -> Nat]
    \* 4 GiB, what the numbers of the smallest blocks reach
    /\ \A v \in Version : Length[v] <= NumSpace * BaseSize
    /\ None \notin Version
    /\ SzxForBytes(UdpMaxBlock) # {}    \* parse_udp_max_block refuses others
    /\ MaxChanges \in Nat

VARIABLES
    transport,  \* the transport of the device's connection
    doc,        \* dovecote: the version of each document
    changes,    \* how often dovecote changed one
    req,        \* the request under way, or None
    resp,       \* the answer under way, or None
    phase,      \* the device: "idle", "fetching" or "done"
    leaf,       \* the document it fetches
    got,        \* the bytes it has
    etag,       \* the ETag it first saw
    clean       \* history: the document has not changed since it began

device == <<phase, leaf, got, etag>>
vars == <<transport, doc, changes, req, resp, device, clean>>

Leaf == {"firmware", "shadow"}
Bytes(v) == [i \in 1 .. Length[v] |-> <<v, i>>]

(* max_szx: a datagram's ceiling is the deployment's, a frame has none. *)
max_szx == IF transport = "udp" THEN CHOOSE szx \in SzxForBytes(UdpMaxBlock) : TRUE
           ELSE MaxSzx

-----------------------------------------------------------------------------
(* dovecote *)

(* An UpstreamResponse; start and total are those of its Content-Range,    *)
(* size its X-Firmware-Size and sha its X-Firmware-Sha256.                 *)
Answer(status, body, start, total, size, sha) ==
    [status |-> status, body |-> body, start |-> start, total |-> total,
     size |-> size, sha |-> sha]
Plain(status) == Answer(status, <<>>, Absent, Absent, Absent, None)
Whole(v, size, sha) == Answer(200, Bytes(v), Absent, Absent, size, sha)
Partial(v, first, last) ==
    Answer(206, SubSeq(Bytes(v), first + 1, last + 1), first, Length[v], Length[v], v)

(* No answer within the client's timeout *)
Unreachable == Plain(0)
Faults == {Plain(500), Unreachable}

(* A ranged GET: the range is honoured, ignored, or past the end refused   *)
(* or clamped.                                                             *)
FirmwareAnswers(v, first, last) ==
    IF v = None THEN {Plain(404)}
    ELSE LET n == Length[v] IN
         Faults \cup {Whole(v, n, v), Whole(v, Absent, v)} \cup
         IF first < n THEN {Partial(v, first, IF last < n THEN last ELSE n - 1)}
         ELSE {Plain(416)} \cup (IF n > 0 THEN {Partial(v, 0, n - 1)} ELSE {})

ShadowAnswers(v, method) ==
    Faults \cup {[Whole(v, Absent, None) EXCEPT !.status = s] :
                    s \in IF method = "post" THEN {200, 201} ELSE {200}}

-----------------------------------------------------------------------------
(* The handler's answers *)

Response(code, block2, size2, tag, payload) ==
    [code |-> code, block2 |-> block2, size2 |-> size2, etag |-> tag, payload |-> payload]
Diagnostic(code) == Response(code, Absent, Absent, None, <<>>)
OutOfRange == Diagnostic(400)

Succeeds(a) == 0 < a.status /\ a.status < 300
Success == {201, 204, 205}

(* error_response: upstream's refusals by name, its failures as 5.02, its  *)
(* silence as 5.04, everything else as 4.00; the text is left out.         *)
ErrorResponse(a) ==
    Diagnostic(IF a.status = 0 THEN 504
               ELSE IF a.status \in {401, 403, 404, 405, 413} THEN a.status
               ELSE IF a.status \in 500 .. 599 THEN 502 ELSE 400)

BlockResponse(code, b, total, more, tag, payload) ==
    Response(code, Encode(Block(b.num, more, b.szx)),
             IF b.num = 0 THEN total ELSE Absent, tag, payload)

\* Bug: the range's inclusive end is taken for an exclusive one.
SliceShort(body, first, last) ==
    SubSeq(body, first + 1, IF last < Len(body) THEN last ELSE Len(body))

Slice(body, first, last) ==
    SubSeq(body, first + 1, IF last < Len(body) THEN last + 1 ELSE Len(body))

(* The block asked for, at no more than the transport's size; the first    *)
(* when the request does not say.                                          *)
Asked(r) == IF r.block2 = Absent THEN Block(0, FALSE, max_szx)
            ELSE Capped(Decode(r.block2), max_szx)

(* A body too large for a datagram is cut whether or not that was asked. *)
json_response(r, a) ==
    LET total == Len(a.body)
        code == IF a.status = 201 THEN 201 ELSE IF r.method = "get" THEN 205 ELSE 204
        whole == r.block2 = Absent /\ ~(transport = "udp" /\ total > size_for(max_szx))
        b == Asked(r)
    IN  IF ~Succeeds(a) THEN ErrorResponse(a)
        ELSE IF whole THEN Response(code, Absent, Absent, None, a.body)
        ELSE IF Offset(b) >= total /\ b.num > 0 THEN OutOfRange
        ELSE BlockResponse(code, b, total, MoreAfter(b, total), None,
                           Slice(a.body, Offset(b), RangeEnd(b)))

\* Bug: only the first block says which image it belongs to.
TagFirst(b, a) == IF b.num = 0 THEN a.sha ELSE None

(* Every block carries the image's ETag. *)
TagOf(b, a) == a.sha

\* Bug: a whole image is passed on as if it were the block.
PassOn(b, a) == a.body

(* The block's bytes, cut out here when the range was ignored. *)
BodyOf(b, a) ==
    IF a.status = 200 /\ Len(a.body) > size_for(b.szx)
    THEN Slice(a.body, Offset(b), RangeEnd(b)) ELSE a.body

(* dovecote clamped the range, or the block lies past the end. *)
Misses(b, a, total) ==
    \/ a.start # Absent /\ a.start # Offset(b)
    \/ Offset(b) >= total /\ total > 0

firmware(r, a) ==
    LET b == Asked(r)
        total == IF a.start # Absent THEN a.total
                 ELSE IF a.size # Absent THEN a.size ELSE Len(a.body)
    IN  IF ~Succeeds(a) THEN ErrorResponse(a)
        ELSE IF Misses(b, a, total) THEN OutOfRange
        ELSE BlockResponse(205, b, total, MoreAfter(b, total), TagOf(b, a), BodyOf(b, a))

(* The upstream call: the bytes of the block, or the whole document. *)
device_request(r) ==
    LET b == Asked(r) IN
    IF r.leaf = "firmware"
    THEN FirmwareAnswers(doc["firmware"], Offset(b), RangeEnd(b))
    ELSE ShadowAnswers(doc["shadow"], r.method)

(* One request, handled; the answer says which version it was made from. *)
Handle ==
    /\ req # None /\ resp = None
    /\ \E a \in device_request(req) :
          resp' = [msg |-> IF req.leaf = "firmware" THEN firmware(req, a)
                           ELSE json_response(req, a),
                   of |-> doc[req.leaf]]
    /\ UNCHANGED <<transport, doc, changes, req, device, clean>>

-----------------------------------------------------------------------------
(* The network, dovecote and the device *)

(* The answer is lost, or comes after the device gave up waiting for it. *)
LoseAnswer ==
    /\ resp # None
    /\ resp' = None
    /\ UNCHANGED <<transport, doc, changes, req, device, clean>>

Change(l, v) ==
    /\ changes < MaxChanges
    /\ v # doc[l]
    /\ l = "shadow" => v # None
    /\ doc' = [doc EXCEPT ![l] = v]
    /\ changes' = changes + 1
    /\ clean' = (clean /\ (phase = "idle" \/ l # leaf))
    /\ UNCHANGED <<transport, req, resp, device>>

Request(l, method, value) == [leaf |-> l, method |-> method, block2 |-> value]

(* A request on its own, with any option value. *)
Probe(l, method, value) ==
    /\ phase = "idle" /\ req = None
    /\ l = "firmware" => method = "get"
    /\ req' = Request(l, method, value)
    /\ UNCHANGED <<transport, doc, changes, resp, device, clean>>

Begin(l) ==
    /\ phase = "idle" /\ req = None
    /\ phase' = "fetching" /\ leaf' = l
    /\ UNCHANGED <<transport, doc, changes, req, resp, got, etag, clean>>

(* The block at the offset reached, in whatever size that is a multiple of. *)
Continuations ==
    {value \in Word : LET b == Decode(value) IN ~b.more /\ Offset(b) = Len(got)}

Ask ==
    /\ phase = "fetching" /\ req = None
    /\ \E value \in Continuations \cup (IF got = <<>> THEN {Absent} ELSE {}) :
          req' = Request(leaf, "get", value)
    /\ UNCHANGED <<transport, doc, changes, resp, device, clean>>

(* The device takes a block that follows what it has and does not belong   *)
(* to another version; anything else ends its transfer.                    *)
Follows(m) ==
    /\ m.code \in Success
    /\ m.block2 # Absent => Offset(Decode(m.block2)) = Len(got)
    /\ etag # None /\ m.etag # None => m.etag = etag

Forget == phase' = "idle" /\ leaf' = None /\ got' = <<>> /\ etag' = None /\ clean' = TRUE

Take ==
    /\ resp # None
    /\ req' = None /\ resp' = None
    /\ LET m == resp.msg IN
         IF phase = "fetching" /\ Follows(m)
         THEN /\ got' = got \o m.payload
              /\ etag' = IF etag = None THEN m.etag ELSE etag
              /\ phase' = IF m.block2 # Absent /\ Decode(m.block2).more
                          THEN "fetching" ELSE "done"
              /\ UNCHANGED <<leaf, clean>>
         ELSE Forget
    /\ UNCHANGED <<transport, doc, changes>>

Finish ==
    /\ phase = "done"
    /\ Forget
    /\ UNCHANGED <<transport, doc, changes, req, resp>>

-----------------------------------------------------------------------------
Init ==
    /\ transport \in {"udp", "tcp"}
    /\ doc \in [Leaf -> Version]
    /\ changes = 0
    /\ req = None /\ resp = None
    /\ phase = "idle" /\ leaf = None /\ got = <<>> /\ etag = None /\ clean = TRUE

Next ==
    \/ Handle \/ LoseAnswer \/ Ask \/ Take \/ Finish
    \/ \E l \in Leaf : Begin(l) \/ \E v \in Version \cup {None} : Change(l, v)
    \/ \E l \in Leaf, method \in {"get", "post"}, value \in Word \cup {Absent} :
          Probe(l, method, value)

Spec == Init /\ [][Next]_vars

(* Devices ask and take answers, threads run, and dovecote answers again   *)
(* and again until one answer is taken.                                    *)
Fairness == WF_vars(Handle) /\ WF_vars(Ask) /\ SF_vars(Take)
LiveSpec == Spec /\ Fairness

-----------------------------------------------------------------------------
Answered == resp # None /\ resp.msg.code \in Success

(* Whatever block number and size a request asks for, an answer with data  *)
(* has the bytes at exactly the offset asked for and says so; rescaling to *)
(* the transport's size, its saturation, and dovecote ignoring or clamping *)
(* the range never put other bytes, or another number, in their place, and *)
(* an answer without data is for a document without data only.             *)
AnswersTheOffset ==
    Answered /\ req.block2 # Absent =>
        LET m == resp.msg
            wanted == Decode(req.block2)
            served == Decode(m.block2)
            start == Offset(wanted)
        IN  IF m.payload = <<>> THEN Length[resp.of] = 0
            ELSE /\ Offset(served) = start
                 /\ Len(m.payload) <= size_for(wanted.szx)
                 /\ start + Len(m.payload) <= Length[resp.of]
                 /\ m.payload = SubSeq(Bytes(resp.of), start + 1, start + Len(m.payload))

(* A datagram never carries more of a document than the deployment's       *)
(* ceiling, asked for or not, and whatever dovecote made of the range.     *)
DatagramsFit == Answered /\ transport = "udp" => Len(resp.msg.payload) <= UdpMaxBlock

(* What a device that compares ETags holds of a firmware image is from one *)
(* image, however often dovecote replaces it between two blocks.           *)
ImagesNeverMixed ==
    leaf = "firmware" /\ got # <<>> =>
        /\ etag # None /\ Len(got) <= Length[etag]
        /\ got = SubSeq(Bytes(etag), 1, Len(got))

(* A finished download is complete: all of the image its ETag names, and   *)
(* all of a JSON document that was not replaced meanwhile.                 *)
DownloadsWhole ==
    phase = "done" =>
        /\ leaf = "firmware" => got = Bytes(etag)
        /\ leaf = "shadow" /\ clean => got = Bytes(doc["shadow"])

(* The more bit never sends a device past the end: while its document      *)
(* stays, the next block is never refused (of an empty image dovecote      *)
(* refuses even the first).                                                *)
NeverStranded ==
    phase = "fetching" /\ clean /\ resp # None =>
        (resp.msg.code = 400 => resp.of # None /\ Length[resp.of] = 0)

(* A download that began ends, completed or given up, in spite of lost     *)
(* answers and of changed documents.                                       *)
DownloadsEnd == phase = "fetching" ~> phase # "fetching"
=============================================================================
