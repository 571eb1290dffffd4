----------------------------- MODULE FrameParser -----------------------------
(***************************************************************************)
(* _read_loop and _extract_item of GatewaySerialClient: the bytes of the   *)
(* serial line come in chunks of any size and are cut into JSON lines and  *)
(* binary stream frames.  A frame is the magic A5 5A, a version, a size, a *)
(* body of that size (sensor id, timestamp and payload) and a checksum;    *)
(* the bytes are told apart only as far as the parser tells them apart.    *)
(* The state predicates and actions that other modules have too carry an F *)
(* here, so that one module can state theorems about all of them.          *)
(***************************************************************************)
EXTENDS Naturals, Sequences, SequencesExt, FiniteSets

CONSTANTS Bodies,    \* the bodies of frames, of one or two bytes
          MaxItems,  \* bound: items on the line
          MaxChunk   \* the most bytes that one read returns (256)

ASSUME ParserBounds == MaxItems \in Nat /\ MaxChunk \in Nat \ {0}

\* What a byte can be to the parser; "brace" is the one that opens an object.
Alphabet == {"brace", "o", "x", "nl", "A5", "5A", "v", "n1", "n2", "k"}

ASSUME BodiesOfFrames == \A b \in Bodies : b \in Seq(Alphabet) /\ Len(b) \in {1, 2}

\* A line of JSON may have been damaged or have lost its newline, a frame have the
\* wrong checksum.
Json(ok, ended) == [kind |-> "json", ok |-> ok, ended |-> ended]
Frame(body, sum) == [kind |-> "frame", body |-> body, sum |-> sum]
JsonLine == Json(TRUE, TRUE)
Items == {Json(ok, ended) : ok \in BOOLEAN, ended \in BOOLEAN} \cup
         {Frame(body, sum) : body \in Bodies, sum \in {"k", "x"}}

\* The bytes of an item: a brace and "o" are an object, a brace and anything else is
\* none, "nl" ends a line, "k" is the checksum of the frame it ends and "x" is not.
SizeByte(n) == IF n = 1 THEN "n1" ELSE "n2"
Encode(item) ==
    IF item.kind = "json"
    THEN <<"brace", IF item.ok THEN "o" ELSE "x">> \o (IF item.ended THEN <<"nl">> ELSE << >>)
    ELSE <<"A5", "5A", "v", SizeByte(Len(item.body))>> \o item.body \o <<item.sum>>

VARIABLES
    sent,     \* the items the gateway sends
    unread,   \* the bytes that are still on the line
    buf,      \* the buffer of the client
    parsing,  \* whether the inner loop of _read_loop is running
    items,    \* what it has extracted
    split     \* history: the items whose magic came in two chunks

fvars == <<sent, unread, buf, parsing, items, split>>

Bytes(s) == FlattenSeq([i \in DOMAIN s |-> Encode(s[i])])

FInit ==
    /\ sent \in BoundedSeq(Items, MaxItems)
    /\ unread = Bytes(sent)
    /\ buf = << >>
    /\ parsing = FALSE
    /\ items = << >>
    /\ split = {}

\* The frames of which, when "left" bytes are unread, just A5 has been read.
SplitAt(left) ==
    {i \in DOMAIN sent : /\ sent[i].kind = "frame"
                         /\ left = Len(Bytes(SubSeq(sent, i, Len(sent)))) - 1}

Read(n) ==
    /\ ~parsing
    /\ n \in 1..Len(unread)
    /\ buf' = buf \o SubSeq(unread, 1, n)
    /\ unread' = SubSeq(unread, n + 1, Len(unread))
    /\ parsing' = TRUE
    /\ split' = split \cup SplitAt(Len(unread'))
    /\ UNCHANGED <<sent, items>>

-----------------------------------------------------------------------------
(* One turn of the loop of _extract_item.                                   *)

Dropping(n) == buf' = SubSeq(buf, n + 1, Len(buf))

AtJson == buf # << >> /\ buf[1] = "brace"
AtFrame == Len(buf) >= 2 /\ buf[1] = "A5" /\ buf[2] = "5A"

Incomplete ==
    \/ buf = << >>
    \/ AtJson /\ ~Contains(buf, "nl")
    \/ AtFrame /\ Len(buf) < 6
    \/ /\ AtFrame
       /\ Len(buf) >= 6
       /\ buf[3] = "v"
       /\ Len(buf) < 5 + (IF buf[4] = "n2" THEN 2 ELSE 1)

\* Extraction returns None: more bytes are needed.
NeedMore ==
    /\ parsing
    /\ Incomplete
    /\ parsing' = FALSE
    /\ UNCHANGED <<sent, unread, buf, items, split>>

\* Mutant of TakeJson: what follows the line in the buffer goes with it.
TakeJsonAndClear ==
    /\ parsing
    /\ AtJson
    /\ Contains(buf, "nl")
    /\ buf' = << >>
    /\ items' = Append(items, JsonLine)
    /\ UNCHANGED <<sent, unread, parsing, split>>

\* json_objects_from_line: some brace of the line that ends there begins an object.
HasObject(end) == \E i \in 1..(end - 1) : buf[i] = "brace" /\ buf[i + 1] = "o"

\* A line: the first object that decodes, from any brace of the line on.  A second
\* object of the line is dropped with the rest of it.
TakeJson ==
    /\ parsing
    /\ AtJson
    /\ \E end \in DOMAIN buf :
          /\ buf[end] = "nl"
          /\ \A i \in 1..(end - 1) : buf[i] # "nl"
          /\ Dropping(end)
          /\ items' = IF HasObject(end) THEN Append(items, JsonLine) ELSE items
    /\ UNCHANGED <<sent, unread, parsing, split>>

\* Mutant of TakeFrame: nothing is dropped if the version is wrong.
TakeFrameOrStay ==
    /\ parsing
    /\ AtFrame
    /\ Len(buf) >= 6
    /\ LET size == IF buf[4] = "n2" THEN 2 ELSE 1 IN
       IF buf[3] # "v" THEN UNCHANGED <<buf, items>>
       ELSE /\ Len(buf) >= 5 + size
            /\ Dropping(5 + size)
            /\ items' = Append(items, Frame(SubSeq(buf, 5, 4 + size), "k"))
    /\ UNCHANGED <<sent, unread, parsing, split>>

\* A frame, if its version and its checksum are right, and otherwise one byte
\* is dropped.
TakeFrame ==
    /\ parsing
    /\ AtFrame
    /\ Len(buf) >= 6
    /\ LET size == IF buf[4] = "n2" THEN 2 ELSE 1 IN
       IF buf[3] # "v" THEN Dropping(1) /\ UNCHANGED items
       ELSE /\ Len(buf) >= 5 + size
            /\ IF buf[5 + size] = "k"
               THEN /\ Dropping(5 + size)
                    /\ items' = Append(items, Frame(SubSeq(buf, 5, 4 + size), "k"))
               ELSE Dropping(1) /\ UNCHANGED items
    /\ UNCHANGED <<sent, unread, parsing, split>>

\* Mutant of Resync: the whole buffer is cleared, whatever it holds.
ResyncByClearing ==
    /\ parsing
    /\ buf # << >>
    /\ ~AtJson
    /\ ~AtFrame
    /\ buf' = << >>
    /\ parsing' = FALSE
    /\ UNCHANGED <<sent, unread, items, split>>

\* Neither: drop what comes before the next brace or magic, or everything.
Resync ==
    /\ parsing
    /\ buf # << >>
    /\ ~AtJson
    /\ ~AtFrame
    /\ LET starts == {i \in DOMAIN buf :
                         \/ buf[i] = "brace"
                         \/ i < Len(buf) /\ buf[i] = "A5" /\ buf[i + 1] = "5A"}
       IN  IF starts = {} THEN buf' = << >> /\ parsing' = FALSE
           ELSE /\ \E i \in starts : (\A j \in starts : i <= j) /\ Dropping(i - 1)
                /\ UNCHANGED parsing
    /\ UNCHANGED <<sent, unread, items, split>>

Extract == NeedMore \/ TakeJson \/ TakeFrame \/ Resync

FNext == (\E n \in 1..MaxChunk : Read(n)) \/ Extract

FSpec == FInit /\ [][FNext]_fvars

\* The reader thread runs as long as it has bytes to work on.
FFairSpec == FSpec /\ WF_fvars(Extract)

-----------------------------------------------------------------------------
(* Properties.                                                              *)

\* Type invariant: the buffer and what is unread are the end of what was sent.
FTypeOK ==
    /\ sent \in Seq(Items)
    /\ IsSuffix(buf \o unread, Bytes(sent))
    /\ parsing \in BOOLEAN
    /\ \A i \in DOMAIN items : items[i].kind \in {"json", "frame"}
    /\ split \subseteq DOMAIN sent

Drained == unread = << >> /\ ~parsing

\* The items that were damaged on the line or had their magic split.
Damaged ==
    split \cup {i \in DOMAIN sent : IF sent[i].kind = "frame" THEN sent[i].sum # "k"
                                    ELSE sent[i] # JsonLine}

\* However the line is cut into chunks, the items come out as they were sent,
\* unless one was damaged or a chunk ended between the two bytes of a magic.
ParsesWhatWasSent ==
    Damaged = {} => IsPrefix(items, sent) /\ (Drained => items = sent)

\* No byte of the body looks like the start of an item or the end of a line.
Plain(item) ==
    item.kind = "frame" => \A i \in DOMAIN item.body : item.body[i] \notin {"brace", "A5", "nl"}

\* What was sent since a line lost its newline runs into that line, up to the end
\* of the next line that has one.
IsLine(i) == sent[i].kind = "json"
EndsLine(i) == IsLine(i) /\ sent[i].ended
Swallowed(i) == \E j \in 1..(i - 1) : /\ IsLine(j)
                                      /\ \A k \in j..(i - 1) : ~EndsLine(k)
LineYields(i) ==
    \E end \in i..Len(sent) :
        /\ EndsLine(end)
        /\ \A k \in i..(end - 1) : ~EndsLine(k)
        /\ \E k \in i..end : IsLine(k) /\ sent[k].ok

Survives(i) ==
    /\ ~Swallowed(i)
    /\ IF IsLine(i) THEN LineYields(i) ELSE i \notin Damaged

\* What was extracted comes from the items of the set, each once and in their order.
ComesFrom(set) ==
    \E from \in [DOMAIN items -> DOMAIN sent] :
        /\ {from[k] : k \in DOMAIN items} = set
        /\ \A k, l \in DOMAIN items : k < l => from[k] < from[l]
        /\ \A k \in DOMAIN items :
              items[k] = IF IsLine(from[k]) THEN JsonLine ELSE sent[from[k]]

\* What damage costs, as long as no body holds a brace, an A5 or a newline.  A wrong
\* checksum, or a chunk that ends inside the magic (the lone A5 is cleared with the
\* rest of the buffer), costs that frame alone; a line that does not decode, that
\* line.  A lost newline holds up all that follows, frames too, until another line
\* ends: of all that only one object comes out, the first that decodes.
DamageIsContained ==
    Drained /\ (\A i \in DOMAIN sent : Plain(sent[i])) =>
        ComesFrom({i \in DOMAIN sent : Survives(i)})

\* The reader thread never spins on a buffer it cannot parse: whatever the
\* bytes, it comes back to read.
ReaderComesBack == []<>(~parsing)
=============================================================================
