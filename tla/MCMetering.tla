----------------------------- MODULE MCMetering -----------------------------
(***************************************************************************)
(* The three steps from an answer to the money it moves, each checked on   *)
(* its own: the catalogue that prices it, the usage read from its bytes,   *)
(* and the split of what is collected.  focus says which one a behaviour   *)
(* exercises; the others keep their first state.                           *)
(***************************************************************************)
EXTENDS Commission, StreamUsage, Catalog

CONSTANTS RateSteps,   \* commission rates tried, in basis points
          MaxTotalBps, \* greatest market rate + router rate tried
          MaxAmount    \* greatest amount tried, in grains

\* At more than a half in total the rounding of amounts with more than 8 decimals
\* may take more than was collected.
ASSUME RateAssumption ==
    /\ RateSteps \subseteq Nat
    /\ MaxTotalBps \in 0..FullBps
    /\ Grain = 1 \/ 2 * MaxTotalBps <= FullBps

CONSTANTS m1, m2, m3, p1, p2, p3

VARIABLES focus, collected, marketBps, routerBps

splitVars == <<collected, marketBps, routerBps>>
vars == <<focus, splitVars, streamVars, catalogVars>>

-----------------------------------------------------------------------------
(* The catalogue: a catch-all, a prefix and a name under it, all three     *)
(* matching some requests, and a name that every start withdraws.          *)

KeyOf(pattern) == [app |-> "codex", pattern |-> pattern]
MCKeys      == {KeyOf(p) : p \in {<<"*">>, <<"a", "*">>, <<"a", "b">>, <<"b">>}}
MCDefaults  == <<KeyOf(<<"*">>), KeyOf(<<"a", "*">>)>>
MCWithdrawn == {KeyOf(<<"b">>)}
MCNames     == {<<"a">>, <<"b">>, <<"a", "b">>, <<"a", "c", "b">>}
Symmetry    == Permutations({m1, m2, m3}) \cup Permutations({p1, p2, p3})

-----------------------------------------------------------------------------
(* The answers: three events of one protocol, two of them spelled in two   *)
(* ways or replaced by the end mark, apart by both delimiters.             *)

None == <<>>
Event(type, id, usage, inner, depth) ==
    [type |-> type, id |-> id, usage |-> usage, inner |-> inner, depth |-> depth]
MCEvents ==
    [text    |-> Event("chunk", {}, None, None, 0),
     prompt  |-> Event("chunk", {}, [prompt_tokens |-> 4, completion_tokens |-> 1,
                                     cached_tokens |-> 2], None, 0),
     input   |-> Event("chunk", {}, [input_tokens |-> 5, output_tokens |-> 3], None, 0),
     start   |-> Event("message_start", {}, None,
                    [input_tokens |-> 5, output_tokens |-> 1,
                     cache_read_input_tokens |-> 2], 1),
     grow    |-> Event("message_delta", {}, [output_tokens |-> 3], None, 0),
     last    |-> Event("message_delta", {}, [input_tokens |-> 2, output_tokens |-> 4],
                    None, 0),
     created |-> Event("response.created", {"r1"}, None, None, 1),
     done    |-> Event("response.completed", {"r2"}, None,
                    [input_tokens |-> 4, output_tokens |-> 2], 1),
     flat    |-> Event("response.output", {},
                    [prompt_tokens |-> 3, completion_tokens |-> 2], None, 0),
     first   |-> Event("", {}, [promptTokenCount |-> 4, candidatesTokenCount |-> 1,
                                thoughtsTokenCount |-> 2], None, 0),
     wrapped |-> Event("", {}, None, [promptTokenCount |-> 5, totalTokenCount |-> 4], 4),
     buried  |-> Event("", {}, None, [promptTokenCount |-> 7, totalTokenCount |-> 9], 5)]
EventsOf ==
    [OpenAi    |-> {"text", "prompt", "input"},
     Anthropic |-> {"start", "grow", "last"},
     Codex     |-> {"created", "done", "flat"},
     Gemini    |-> {"first", "wrapped", "buried"}]
AppOf == [OpenAi |-> "cursor", Anthropic |-> "claude", Codex |-> "codex",
          Gemini |-> "gemini"]

Piece(event, bytes) == [event |-> event, bytes |-> bytes]
OneLine(e)  == Piece(e, <<"data", e, "lead", "cont", "end">>)
TwoLines(e) == Piece(e, <<"data", e, "cont", "cr", "lf", "data", "end">>)
DoneMark    == Piece("none", <<"data", "[DONE]">>)
Lf   == <<"lf", "lf">>
CrLf == <<"cr", "lf", "cr", "lf">>

Answer(protocol, a, b, c, d1, d2) ==
    LET At(piece, from, delimiter) ==
            [event |-> piece.event, text |-> from + Len(piece.bytes),
             to |-> from + Len(piece.bytes) + Len(delimiter)]
        first  == At(a, 0, d1)
        second == At(b, first.to, d2)
    IN  [protocol |-> UsageProtocol(AppOf[protocol], FALSE),
         pieces |-> <<first, second, At(c, second.to, Lf)>>,
         bytes  |-> a.bytes \o d1 \o b.bytes \o d2 \o c.bytes \o Lf]

AnswersOf(protocol) ==
    LET ends   == {OneLine(e) : e \in EventsOf[protocol]}
        pieces == ends \cup {TwoLines(e) : e \in EventsOf[protocol]} \cup {DoneMark}
    IN  {Answer(protocol, a, b, c, d[1], d[2]) :
            a \in pieces, b \in pieces, c \in ends, d \in {<<Lf, CrLf>>, <<CrLf, Lf>>}}
MCStreams == UNION {AnswersOf(protocol) : protocol \in DOMAIN EventsOf}

-----------------------------------------------------------------------------
SomeStream == CHOOSE s \in Streams : TRUE

NoStream ==
    /\ stream = SomeStream
    /\ pos = 0
    /\ parser = NewParser
    /\ relay = "open"

NoCatalog ==
    /\ models = [m \in {} |-> NoHandler]
    /\ prices = [p \in {} |-> NoHandler]
    /\ discounts = [a \in {} |-> DefaultDiscount]
    /\ migrated = TRUE
    /\ server = 0
    /\ admin = NoHandler

Init ==
    \/ /\ focus = "split"
       /\ NoStream /\ NoCatalog
       /\ collected = 0
       /\ marketBps \in RateSteps
       /\ routerBps \in RateSteps
       /\ marketBps + routerBps <= MaxTotalBps
    \/ /\ focus = "stream"
       /\ StreamInit /\ NoCatalog
       /\ collected = 0 /\ marketBps = 0 /\ routerBps = 0
    \/ /\ focus = "catalog"
       /\ NoStream /\ CatalogInit
       /\ collected = 0 /\ marketBps = 0 /\ routerBps = 0

NextAmount ==
    /\ collected < MaxAmount
    /\ collected' = collected + 1
    /\ UNCHANGED <<marketBps, routerBps>>

Next ==
    /\ UNCHANGED focus
    /\ \/ focus = "split" /\ NextAmount /\ UNCHANGED <<streamVars, catalogVars>>
       \/ focus = "stream" /\ StreamNext /\ UNCHANGED <<splitVars, catalogVars>>
       \/ focus = "catalog" /\ CatalogNext /\ HandlersEnd
            /\ UNCHANGED <<splitVars, streamVars>>

Spec == Init /\ [][Next]_vars

-----------------------------------------------------------------------------
\* transfer_collected_usage_amount splits every amount exactly, at every rate
\* (ExactSplit of Commission).
SplitIsExact == ExactSplit(collected, marketBps, routerBps)
=============================================================================
