---------------------------- MODULE StreamUsage -----------------------------
(***************************************************************************)
(* How the proxy reads the usage of an answer while it relays it           *)
(* (src/src/usage.rs; the relay is handle_openai_stream in proxy.rs): the  *)
(* bytes come in chunks cut anywhere, are decoded, cut into server-sent    *)
(* events, and each event may report tokens.                               *)
(*                                                                         *)
(* A byte is one of the symbols below, so that everything the reader looks *)
(* at can be cut in the middle: "data" is the prefix of a data line, "cr"  *)
(* and "lf" end lines, "lead" and "cont" are the bytes of one character    *)
(* outside ASCII, "[DONE]" is the end mark, "end" closes a JSON value and  *)
(* the name of an event of Events opens one.  An event is a record:        *)
(*   type  the "type" of the value;                                        *)
(*   id    the response ids it holds, none or one;                         *)
(*   usage the usage object of the value, a function from the names of its *)
(*         fields to numbers; without fields when there is none;           *)
(*   inner the one in its "message" or "response", or deeper: at depth.    *)
(***************************************************************************)
EXTENDS Integers, SequencesExt

CONSTANTS Events,    \* the events that occur, by name
          Streams,   \* the answers tried: [protocol, pieces, bytes]
          MaxChunk   \* most bytes of one chunk

Bytes == {"data", "cr", "lf", "lead", "cont", "[DONE]", "end"} \cup DOMAIN Events

Protocols == {"OpenAi", "Anthropic", "Codex", "Gemini"}

ASSUME StreamAssumption ==
    /\ MaxChunk \in Nat \ {0}
    /\ \A s \in Streams : s.bytes \in Seq(Bytes) /\ s.protocol \in Protocols

\* The fields of a usage object that are read hold numbers (u64).
ASSUME EventAssumption ==
    \A e \in DOMAIN Events : \A object \in {Events[e].usage, Events[e].inner} :
        \A name \in DOMAIN object : object[name] \in Nat

VARIABLES stream,    \* the answer being relayed
          pos,       \* how many of its bytes have come
          parser,    \* the SseUsageParser
          relay      \* "open", "cut" (interrupted) or "ended"

streamVars == <<stream, pos, parser, relay>>

UsageProtocol(appType, responsesPath) ==
    IF responsesPath \/ appType = "codex" THEN "Codex"
    ELSE IF appType \in {"anthropic", "claude"} THEN "Anthropic"
    ELSE IF appType = "gemini" THEN "Gemini"
    ELSE "OpenAi"

-----------------------------------------------------------------------------
(* Reading the tokens of a value.  What may be missing is a set of at most *)
(* one element.                                                            *)

\* The first of the named fields that the object has.
Field(object, names) ==
    LET Has(i) == names[i] \in DOMAIN object
    IN  {object[names[i]] :
            i \in {i \in DOMAIN names : Has(i) /\ \A j \in 1..i - 1 : ~Has(j)}}

OrZero(found) == IF found = {} THEN 0 ELSE CHOOSE n \in found : TRUE

UsageParts(input, output, cacheRead, cacheWrite) ==
    [input |-> input, output |-> output,
     cacheRead |-> cacheRead, cacheWrite |-> cacheWrite]

OpenAiUsage(usage) ==
    {UsageParts(input, output,
        OrZero(Field(usage, <<"cached_tokens", "cache_read_input_tokens",
                              "prompt_cache_hit_tokens">>)),
        OrZero(Field(usage, <<"cache_creation_input_tokens",
                              "prompt_cache_miss_tokens">>))) :
        input  \in Field(usage, <<"prompt_tokens", "input_tokens">>),
        output \in Field(usage, <<"completion_tokens", "output_tokens">>)}

AnthropicUsage(usage) ==
    LET parts == UsageParts(
            OrZero(Field(usage, <<"input_tokens">>)),
            OrZero(Field(usage, <<"output_tokens">>)),
            OrZero(Field(usage, <<"cache_read_input_tokens">>)),
            OrZero(Field(usage, <<"cache_creation_input_tokens">>)))
    IN  {p \in {parts} : \E f \in DOMAIN p : p[f] > 0}

CodexUsage(usage) ==
    {UsageParts(input, output,
        OrZero(Field(usage, <<"cache_read_input_tokens", "cached_tokens">>)),
        OrZero(Field(usage, <<"cache_creation_input_tokens">>))) :
        input  \in Field(usage, <<"input_tokens">>),
        output \in Field(usage, <<"output_tokens">>)}

CodexUsageAuto(usage) ==
    IF "prompt_tokens" \in DOMAIN usage THEN OpenAiUsage(usage)
    ELSE CodexUsage(usage)

GeminiUsage(usage) ==
    LET Total(input) ==
            LET counted == Field(usage, <<"totalTokenCount">>)
            IN  IF counted # {} THEN counted
                ELSE {input + n + OrZero(Field(usage, <<"thoughtsTokenCount">>)) :
                        n \in Field(usage, <<"candidatesTokenCount">>)}
    IN  UNION {{UsageParts(input, IF total >= input THEN total - input ELSE 0,
                    OrZero(Field(usage, <<"cachedContentTokenCount">>)), 0) :
                    total \in Total(input)} :
                input \in Field(usage, <<"promptTokenCount">>)}

\* Gemini's usage may be wrapped in up to four objects or lists.
FindGeminiUsage(event) ==
    IF DOMAIN event.usage # {} \/ event.depth > 4 THEN event.usage ELSE event.inner

\* A response.completed event always holds its response.
EventUsage(protocol, event) ==
    CASE protocol = "OpenAi" -> OpenAiUsage(event.usage)
      [] protocol = "Anthropic" ->
            IF event.type = "message_start" THEN AnthropicUsage(event.inner)
            ELSE IF event.type = "message_delta" THEN AnthropicUsage(event.usage)
            ELSE {}
      [] protocol = "Codex" ->
            CodexUsageAuto(IF event.type = "response.completed"
                           THEN event.inner ELSE event.usage)
      [] protocol = "Gemini" -> GeminiUsage(FindGeminiUsage(event))

HasOutput(event) ==
    event.type = "message_delta" /\ "output_tokens" \in DOMAIN event.usage

\* Anthropic counts up from event to event; the others report totals.
Larger(m, n) == IF m >= n THEN m ELSE n
MergeUsage(protocol, known, incoming) ==
    IF protocol = "Anthropic" /\ known # {}
    THEN {[f \in DOMAIN new |-> Larger(new[f], old[f])] :
            new \in incoming, old \in known}
    ELSE incoming

-----------------------------------------------------------------------------
(* Decoding and cutting.                                                   *)

NewParser ==
    [buffer |-> <<>>, remainder |-> <<>>, usage |-> {}, responseId |-> {},
     complete |-> FALSE, sawDone |-> FALSE, parseErrors |-> 0]

\* One byte of UTF-8: a character, a replacement, or the start of a character.
DecodeByte(decoded, byte) ==
    LET waiting == decoded.pending # <<>>
        start   == IF waiting THEN Append(decoded.text, "bad") ELSE decoded.text
    IN  IF byte = "lead" THEN [text |-> start, pending |-> <<"lead">>]
        ELSE [text |-> IF byte # "cont" THEN Append(start, byte)
                       ELSE Append(decoded.text, IF waiting THEN "char" ELSE "bad"),
              pending |-> <<>>]

\* Seeded fault: each chunk is decoded on its own.
AppendUtf8Safe_ChunkByChunk(p, chunk) ==
    LET decoded == FoldLeft(DecodeByte, [text |-> p.buffer, pending |-> <<>>], chunk)
    IN  [p EXCEPT !.buffer = IF decoded.pending = <<>> THEN decoded.text
                             ELSE Append(decoded.text, "bad")]

AppendUtf8Safe(p, chunk) ==
    LET bytes == p.remainder \o chunk
        decoded[n \in 0..Len(bytes)] ==
            IF n = 0 THEN [text |-> p.buffer, pending |-> <<>>]
            ELSE DecodeByte(decoded[n - 1], bytes[n])
    IN  [p EXCEPT !.buffer = decoded[Len(bytes)].text,
                  !.remainder = decoded[Len(bytes)].pending]

\* Where a delimiter stands in the buffer, and which one.
Delimiters == {<<"cr", "lf", "cr", "lf">>, <<"lf", "lf">>}
Cuts(buffer) ==
    {cut \in (1..Len(buffer)) \X {2, 4} :
        /\ cut[1] + cut[2] - 1 <= Len(buffer)
        /\ SubSeq(buffer, cut[1], cut[1] + cut[2] - 1) \in Delimiters}
FirstCut(buffer) ==
    CHOOSE cut \in Cuts(buffer) : \A other \in Cuts(buffer) : cut[1] <= other[1]

\* Where a data line begins in a block.
DataLines(block) ==
    {i \in 1..Len(block) : block[i] = "data" /\ (i = 1 \/ block[i - 1] = "lf")}

\* The contents of the data lines of a block, joined.
DataOf(block) ==
    LET Ends(i) == {j \in i..Len(block) : block[j] = "lf"} \cup {Len(block) + 1}
        Line(i) == SelectSeq(SubSeq(block, i + 1, Min(Ends(i)) - 1),
                             LAMBDA s : s # "cr")
    IN  FoldLeft(LAMBDA text, i : text \o Line(i), <<>>,
                 SetToSortSeq(DataLines(block), <))

\* The event a text spells: its opening, any characters, its end.
EventIn(text) ==
    IF /\ Len(text) >= 2
       /\ text[1] \in DOMAIN Events
       /\ text[Len(text)] = "end"
       /\ \A i \in 2..Len(text) - 1 : text[i] \in {"char", "bad"}
    THEN {Events[text[1]]}
    ELSE {}

Report(protocol, p, event) ==
    LET incoming == EventUsage(protocol, event)
        named    == IF protocol = "Codex" /\ event.id # {}
                    THEN [p EXCEPT !.responseId = event.id] ELSE p
    IN  IF incoming = {} THEN named
        ELSE [named EXCEPT
                !.complete = @ \/ protocol # "Anthropic" \/ HasOutput(event),
                !.usage = MergeUsage(protocol, @, incoming)]

FeedBlock(protocol, p, block) ==
    LET text == DataOf(block)
    IN  IF DataLines(block) = {} THEN p
        ELSE IF text = <<"[DONE]">> THEN [p EXCEPT !.sawDone = TRUE]
        ELSE IF EventIn(text) = {} THEN [p EXCEPT !.parseErrors = @ + 1]
        ELSE Report(protocol, p, CHOOSE event \in EventIn(text) : TRUE)

\* The first block of the buffer is fed; nothing is done without a delimiter.
TakeBlock(protocol, p) ==
    IF Cuts(p.buffer) = {} THEN p
    ELSE LET cut  == FirstCut(p.buffer)
             rest == SubSeq(p.buffer, cut[1] + cut[2], Len(p.buffer))
         IN  FeedBlock(protocol, [p EXCEPT !.buffer = rest],
                       SubSeq(p.buffer, 1, cut[1] - 1))

\* As long as there is one: each block takes a delimiter out of the buffer.
FeedBlocks(protocol, p) ==
    LET most == Cardinality(Cuts(p.buffer))
        fed[n \in 0..most] == IF n = 0 THEN p ELSE TakeBlock(protocol, fed[n - 1])
    IN  fed[most]

Feed(protocol, p, chunk) == FeedBlocks(protocol, AppendUtf8Safe(p, chunk))

\* The end of the body: what is left in the buffer is a block.
LastBlock(p) == IF p.remainder = <<>> THEN p.buffer ELSE Append(p.buffer, "bad")
Finish(protocol, p) ==
    FeedBlock(protocol, [p EXCEPT !.buffer = <<>>, !.remainder = <<>>], LastBlock(p))

\* Seeded fault: the first count of a message is taken for the final one.
UsageOf_AnyCount(protocol, p) == p.usage

\* What the relay settles with: nothing before Anthropic's final count.
UsageOf(protocol, p) ==
    IF protocol = "Anthropic" /\ ~p.complete THEN {} ELSE p.usage

-----------------------------------------------------------------------------
(* What an answer says.  It is a series of server-sent events, its pieces: *)
(* [event, text, to] is the event that the piece spells, or "none", the    *)
(* byte that completes it, and the last byte of its delimiter.             *)

EventOf(piece) ==
    IF piece.event \in DOMAIN Events THEN {Events[piece.event]} ELSE {}

\* The event that a block spells.
Spells(block) == IF DataLines(block) = {} THEN {} ELSE EventIn(DataOf(block))

\* Where the i-th piece begins: behind the piece before it.
From(s, i) == IF i = 1 THEN 0 ELSE s.pieces[i - 1].to

\* The i-th piece as it reads when k bytes of the answer have come.
Read(s, i, k) == AppendUtf8Safe(NewParser, SubSeq(s.bytes, From(s, i) + 1, k))

\* The pieces cover the answer.  A piece ends with its only delimiter, and what
\* there is of it spells its event from the byte on that completes it.
ASSUME PieceAssumption ==
    \A s \in Streams :
        /\ s.pieces \in Seq([event : STRING, text : Nat, to : Nat])
        /\ From(s, Len(s.pieces) + 1) = Len(s.bytes)
        /\ \A i \in DOMAIN s.pieces :
            LET piece == s.pieces[i]
                block == Read(s, i, piece.to)
                cut   == FirstCut(block.buffer)
            IN  /\ piece.text \in From(s, i)..piece.to
                /\ \A k \in From(s, i)..piece.to - 1 :
                    /\ Cuts(Read(s, i, k).buffer) = {}
                    /\ Spells(LastBlock(Read(s, i, k))) =
                        IF k >= piece.text THEN EventOf(piece) ELSE {}
                /\ Cuts(block.buffer) # {}
                /\ Spells(SubSeq(block.buffer, 1, cut[1] - 1)) = EventOf(piece)
                /\ cut[1] + cut[2] - 1 = Len(block.buffer)
                /\ block.remainder = <<>>

-----------------------------------------------------------------------------
(* The relay.                                                              *)

StreamInit ==
    /\ stream \in Streams
    /\ pos = 0
    /\ parser = NewParser
    /\ relay = "open"

Chunk ==
    /\ relay = "open"
    /\ \E n \in 1..MaxChunk :
        /\ pos + n <= Len(stream.bytes)
        /\ pos' = pos + n
        /\ parser' = Feed(stream.protocol, parser,
                          SubSeq(stream.bytes, pos + 1, pos + n))
    /\ UNCHANGED <<stream, relay>>

\* The client leaves or the upstream breaks off: the parser is not finished.
Interrupt ==
    /\ relay = "open"
    /\ relay' = "cut"
    /\ UNCHANGED <<stream, pos, parser>>

\* The upstream's body ends, where it should or before.
EndOfBody ==
    /\ relay = "open"
    /\ relay' = "ended"
    /\ parser' = Finish(stream.protocol, parser)
    /\ UNCHANGED <<stream, pos>>

StreamNext == Chunk \/ Interrupt \/ EndOfBody

StreamSpec == StreamInit /\ [][StreamNext]_streamVars

-----------------------------------------------------------------------------
(***************************************************************************)
(* However the network cuts the bytes, inside a character, a delimiter or  *)
(* a line, the reader is where it would be had they come at once           *)
(* (SseUsageParser::feed, append_utf8_safe, take_sse_block).               *)
(***************************************************************************)
AtOnce == Feed(stream.protocol, NewParser, SubSeq(stream.bytes, 1, pos))
ChunksDoNotMatter ==
    parser = IF relay = "ended" THEN Finish(stream.protocol, AtOnce) ELSE AtOnce

(***************************************************************************)
(* The tokens a stream is charged for are those its events reported: of    *)
(* the events that came in whole the last report, and for Anthropic the    *)
(* greatest of each count and nothing without the final one.               *)
(***************************************************************************)
Arrived ==
    LET Whole(piece) ==
            \/ pos >= piece.to
            \/ relay = "ended" /\ pos >= piece.text
        Came(piece) == piece.event \in DOMAIN Events /\ Whole(piece)
    IN  {i \in DOMAIN stream.pieces : Came(stream.pieces[i])}
Reported ==
    {i \in Arrived :
        EventUsage(stream.protocol, Events[stream.pieces[i].event]) # {}}
ReportAt(i) ==
    CHOOSE u \in EventUsage(stream.protocol, Events[stream.pieces[i].event]) : TRUE
ReportedUsageIsCharged ==
    UsageOf(stream.protocol, parser) =
        IF Reported = {} THEN {}
        ELSE IF stream.protocol # "Anthropic" THEN {ReportAt(Max(Reported))}
        ELSE IF ~\E i \in Reported : HasOutput(Events[stream.pieces[i].event])
        THEN {}
        ELSE {[f \in {"input", "output", "cacheRead", "cacheWrite"} |->
                Max({ReportAt(i)[f] : i \in Reported})]}
=============================================================================
