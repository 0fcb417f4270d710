-------------------------------- MODULE Framing --------------------------------
(***************************************************************************)
(* pkg/gateway/framing.go: what the gateway makes of an agent's output,    *)
(* one JSON-RPC response per line over exec, a single one over HTTP.       *)
(*                                                                         *)
(* An output is a sequence of bytes, of which only braces (open and        *)
(* close), quotes, backslashes and line ends are told apart ("x" is any    *)
(* other byte).  A response is of one of a few kinds, each written with    *)
(* the bytes that are awkward for a parser that counts braces.             *)
(***************************************************************************)
EXTENDS Sequences, SequencesExt, Integers

(* init: no content.  data: a text that is JSON, with escaped quotes and
   braces.  text: one that is not, here a lone brace.  toolError: isError,
   the message ends in an escaped backslash.  rpcError: an error object. *)
Bytes ==
  [init |-> <<"open", "x", "open", "close", "close">>,
   data |-> <<"open", "quote", "open", "back", "quote", "close", "quote", "close">>,
   text |-> <<"open", "quote", "open", "quote", "close">>,
   toolError |-> <<"open", "quote", "back", "back", "quote", "close">>,
   rpcError |-> <<"open", "x", "close">>]

Kinds == DOMAIN Bytes

(* What the agent wrote. *)
Output(lines) == FoldLeft(LAMBDA bytes, kind : bytes \o Append(Bytes[kind], "end"), <<>>, lines)

(* bytes.TrimSpace, of line ends. *)
TrimSpace(bytes) ==
  LET kept == {i \in DOMAIN bytes : bytes[i] # "end"}
  IN IF kept = {} THEN <<>> ELSE SubSeq(bytes, Min(kept), Max(kept))

-------------------------------------------------------------------------------
(* SplitJSONObjects: a fold of its loop body over the bytes.               *)

ScanStart == [objects |-> <<>>, current |-> <<>>, depth |-> 0,
              inString |-> FALSE, escaped |-> FALSE]

(* Mutant of ScanByte: braces in strings count. *)
CountEveryBrace(s, b) ==
  LET t == [s EXCEPT !.current = Append(@, b)]
  IN CASE s.escaped -> [t EXCEPT !.escaped = FALSE]
       [] b = "back" /\ s.inString -> [t EXCEPT !.escaped = TRUE]
       [] b = "quote" /\ ~ s.escaped -> [t EXCEPT !.inString = ~ @]
       [] b = "open" -> [t EXCEPT !.depth = @ + 1]
       [] b = "close" /\ s.depth = 1 ->
            [t EXCEPT !.depth = 0, !.current = <<>>,
                      !.objects = Append(@, TrimSpace(t.current))]
       [] b = "close" /\ s.depth # 1 -> [t EXCEPT !.depth = @ - 1]
       [] OTHER -> t

ScanByte(s, b) ==
  LET t == [s EXCEPT !.current = Append(@, b)]
      bare == ~ s.escaped /\ ~ s.inString
  IN CASE s.escaped -> [t EXCEPT !.escaped = FALSE]
       [] ~ s.escaped /\ b = "back" /\ s.inString -> [t EXCEPT !.escaped = TRUE]
       [] ~ s.escaped /\ b = "quote" -> [t EXCEPT !.inString = ~ @]
       [] bare /\ b = "open" -> [t EXCEPT !.depth = @ + 1]
       [] bare /\ b = "close" /\ s.depth = 1 ->
            [t EXCEPT !.depth = 0, !.current = <<>>,
                      !.objects = Append(@, TrimSpace(t.current))]
       [] bare /\ b = "close" /\ s.depth # 1 -> [t EXCEPT !.depth = @ - 1]
       [] OTHER -> t

SplitJSONObjects(bytes) == FoldLeft(ScanByte, ScanStart, bytes).objects

-------------------------------------------------------------------------------
(* Parsing: an answer is "data", "text", "nil" or "error".                 *)

(* json.Unmarshal of a response, its result and its content. *)
Meaning(kind) ==
  CASE kind \in {"data", "text"} -> kind
    [] kind = "init" -> "nil"
    [] OTHER -> "error"

Decode(object) ==
  IF \E kind \in Kinds : Bytes[kind] = object
  THEN Meaning(CHOOSE kind \in Kinds : Bytes[kind] = object)
  ELSE "error"

ParseHTTPResponse(bytes) == Decode(TrimSpace(bytes))

(* The last object is taken for the answer of the tool. *)
ParseStdioResponse(bytes) ==
  LET objects == SplitJSONObjects(bytes)
  IN IF objects = <<>> THEN "error" ELSE Decode(objects[Len(objects)])

(* parseToolResponse of proxy.go: HTTP first, then stdio. *)
ParseToolResponse(bytes) ==
  LET single == ParseHTTPResponse(bytes)
  IN IF single # "error" THEN single ELSE ParseStdioResponse(bytes)

===============================================================================
