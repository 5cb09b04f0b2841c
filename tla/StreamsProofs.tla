---------------------------- MODULE StreamsProofs ----------------------------
(***************************************************************************)
(* Proofs about the messages bridge and the translations around it.        *)
(*                                                                         *)
(* Streams, for any mix of providers and frontends and any number of       *)
(* fragments, calls and fresh attempts: types and a well-formed bridge,    *)
(* then how a stream ends for client, row and ledger, then that the answer *)
(* reassembled is the one the upstream gave.                               *)
(*                                                                         *)
(* Conversation, for any prompt and any number of turns and calls: the     *)
(* shape and order of the client's history, what a translation makes of    *)
(* it, then that results find their calls and that nothing is lost, that   *)
(* cache markers stay within their limit, and one session and each token   *)
(* counted once.                                                           *)
(***************************************************************************)
EXTENDS Streams, Conversation, FiniteSetTheorems, TLAPS

Providers == {"anthropic", "chatgpt", "gemini", "openai"}

LEMMA PathCases ==
    ASSUME path \in Paths
    PROVE  /\ Provider \in Providers
           /\ Bridged => Provider = "chatgpt" /\ Frontend = "messages" /\ ~Verbatim
           /\ Verbatim => Provider = "anthropic" /\ Frontend = "messages"
           /\ ~Bridged /\ ~Verbatim => Frontend \in {"chat", "complete"}
           /\ Frontend = "complete" => Provider = "chatgpt"
BY StreamsAssumption DEF AllPaths, Provider, Frontend, Bridged, Verbatim, Providers

Words == {"", "end_turn", "tool_use", "max_tokens", "completed", "STOP", "MAX_TOKENS",
          "stop", "tool_calls", "length", "text", "tool", "echo"}

Up == [text : 0..MaxText, args : Seq(0..MaxArgs), last : Nat, interleaved : BOOLEAN,
       usage : BOOLEAN, error : BOOLEAN, failed : BOOLEAN, completed : BOOLEAN,
       stopped : BOOLEAN, whole : BOOLEAN, flowing : BOOLEAN, garbled : BOOLEAN]
Parser == [tools : Seq(Nat), finish : Words, emitted : BOOLEAN, attempt : 0..StreamRetries,
           prev : BOOLEAN]
Answer == [text : Nat, calls : Seq([key : Int, args : Nat])]
Client == [open : Int, next : Int, broken : BOOLEAN, finish : Words,
           end : {"", "ok", "error"}, gone : BOOLEAN]
Kinds == {"text", "tool", "args", "orphan", "reason", "usage", "error", "odd", "strange",
          "blocked", "stop", "close", "drop"}

LEMMA EventCases ==
    ASSUME NEW e \in Events, path \in Paths, up \in Up
    PROVE  /\ e.kind \in Kinds /\ e.n \in Nat /\ e.reason \in Words
           /\ e.kind = "text" => e.n = 0 /\ up.text < MaxText
           /\ e.kind = "tool" => e.n = Len(up.args) + 1 /\ e.n \in 1..MaxTools
           /\ e.kind = "args" => /\ e.n \in 1..Len(up.args) /\ up.args[e.n] < MaxArgs
                                 /\ Provider # "gemini"
           /\ e.kind = "usage" => Provider \in {"gemini", "openai"}
           /\ e.kind = "orphan" => Provider \in {"anthropic", "chatgpt"}
           /\ e.kind = "blocked" => Provider = "gemini"
           /\ e.kind = "stop" => Provider = "anthropic"
<1>0. up.args \in Seq(0..MaxArgs) /\ Len(up.args) \in Nat
  BY DEF Up
<1>1. Provider \in Providers
  BY PathCases
<1>2. \A r \in Reasons : r \in Words
  <2>1. CASE Provider = "anthropic"
    BY <2>1 DEF Reasons, Words
  <2>2. CASE Provider = "chatgpt"
    BY <2>2 DEF Reasons, Words
  <2>3. CASE Provider = "gemini"
    BY <2>3 DEF Reasons, Words
  <2>4. CASE Provider = "openai"
    BY <2>4 DEF Reasons, Words
  <2> QED BY <1>1, <2>1, <2>2, <2>3, <2>4 DEF Providers
<1>3. \A n \in Fragments : n \in 1..Len(up.args) /\ up.args[n] < MaxArgs
  BY <1>0 DEF Fragments
<1> HIDE DEF Fragments
<1>4. \/ \E k \in {"error", "odd", "strange", "close", "drop"} : e = Ev(k, 0, "")
      \/ \E r \in Reasons : e = Ev("reason", 0, r)
      \/ up.text < MaxText /\ (e = Ev("text", 0, "") \/ e = Ev("text", 0, "echo"))
      \/ \E n \in {Len(up.args) + 1} \cap 1..MaxTools : e = Ev("tool", n, "")
      \/ Provider # "gemini" /\ \E n \in Fragments : e = Ev("args", n, "")
      \/ Provider \in {"gemini", "openai"} /\ e = Ev("usage", 0, "")
      \/ Provider \notin {"gemini", "openai"} /\ e = Ev("orphan", 0, "")
      \/ Provider = "gemini" /\ e = Ev("blocked", 0, "")
      \/ Provider = "anthropic" /\ e = Ev("stop", 0, "")
  <2> HIDE DEF Reasons, Ev, Provider
  <2> QED BY DEF Events
<1> HIDE DEF Reasons, Provider
<1>6. CASE \E k \in {"error", "odd", "strange", "close", "drop"} : e = Ev(k, 0, "")
  <2>1. PICK k \in {"error", "odd", "strange", "close", "drop"} : e = Ev(k, 0, "")
    BY <1>6
  <2>2. e.kind = k /\ e.n = 0 /\ e.reason = ""
    BY <2>1 DEF Ev
  <2>3. e.kind \in {"error", "odd", "strange", "close", "drop"}
    BY <2>2
  <2>4. e.kind \in Kinds \ {"text", "tool", "args", "usage", "orphan", "blocked", "stop"}
    BY <2>3 DEF Kinds
  <2>5. e.n \in Nat
    <3>1. e.n = 0
      BY <2>2
    <3> QED BY ONLY <3>1
  <2>6. e.reason \in Words
    BY <2>2 DEF Words
  <2> QED BY <2>4, <2>5, <2>6
<1>7. CASE \E r \in Reasons : e = Ev("reason", 0, r)
  <2>1. PICK r \in Reasons : e = Ev("reason", 0, r)
    BY <1>7
  <2>2. e.kind = "reason" /\ e.n = 0 /\ e.reason = r
    BY <2>1 DEF Ev
  <2> QED BY <1>2, <2>2 DEF Kinds
<1>8. CASE up.text < MaxText /\ (e = Ev("text", 0, "") \/ e = Ev("text", 0, "echo"))
  <2>1. CASE e = Ev("text", 0, "")
    BY <1>8, <2>1 DEF Ev, Kinds, Words
  <2>2. CASE e = Ev("text", 0, "echo")
    BY <1>8, <2>2 DEF Ev, Kinds, Words
  <2> QED BY <1>8, <2>1, <2>2
<1>9. CASE \E n \in {Len(up.args) + 1} \cap 1..MaxTools : e = Ev("tool", n, "")
  <2>1. PICK n \in {Len(up.args) + 1} \cap 1..MaxTools : e = Ev("tool", n, "")
    BY <1>9
  <2>2. e.kind = "tool" /\ e.n = n /\ e.reason = ""
    BY <2>1 DEF Ev
  <2>3. e.n = Len(up.args) + 1 /\ e.n \in 1..MaxTools /\ e.n \in Nat
    <3>1. Len(up.args) + 1 \in Nat
      BY ONLY <1>0
    <3>2. n = Len(up.args) + 1 /\ n \in 1..MaxTools
      OBVIOUS
    <3>3. e.n = n
      BY <2>2
    <3> HIDE DEF Events
    <3> QED BY <3>1, <3>2, <3>3
  <2>4. e.kind \in Kinds /\ e.reason \in Words
    BY <2>2 DEF Kinds, Words
  <2> QED BY <2>2, <2>3, <2>4
<1>10. CASE Provider # "gemini" /\ \E n \in Fragments : e = Ev("args", n, "")
  <2>1. PICK n \in Fragments : e = Ev("args", n, "")
    BY <1>10
  <2>2. e.kind = "args" /\ e.n = n /\ e.reason = ""
    BY <2>1 DEF Ev
  <2>3. n \in 1..Len(up.args) /\ up.args[n] < MaxArgs
    BY <1>3
  <2>4. e.kind \in Kinds /\ e.reason \in Words
    BY <2>2 DEF Kinds, Words
  <2>5. e.n \in Nat /\ e.n \in 1..Len(up.args) /\ up.args[e.n] < MaxArgs
    <3>1. n \in Nat
      BY <1>0, <2>3
    <3>3. e.n = n
      BY <2>2
    <3> QED BY <2>3, <3>1, <3>3
  <2> QED BY <1>10, <2>2, <2>4, <2>5
<1>11. CASE Provider \in {"gemini", "openai"} /\ e = Ev("usage", 0, "")
  BY <1>11 DEF Ev, Kinds, Words
<1>12. CASE Provider \notin {"gemini", "openai"} /\ e = Ev("orphan", 0, "")
  BY <1>1, <1>12 DEF Ev, Kinds, Providers, Words
<1>13. CASE Provider = "gemini" /\ e = Ev("blocked", 0, "")
  BY <1>13 DEF Ev, Kinds, Words
<1>14. CASE Provider = "anthropic" /\ e = Ev("stop", 0, "")
  BY <1>14 DEF Ev, Kinds, Words
<1> QED BY <1>4, <1>6, <1>7, <1>8, <1>9, <1>10, <1>11, <1>12, <1>13, <1>14

LEMMA UpAfter ==
    ASSUME NEW e \in Events, path \in Paths, up \in Up, Len(up.args) <= MaxTools
    PROVE  /\ Said(e) \in Up
           /\ Len(Said(e).args) <= MaxTools
           /\ e.kind = "text" => Said(e).text = up.text + 1 /\ Said(e).args = up.args
           /\ e.kind = "tool" =>
                 /\ Said(e).text = up.text /\ Len(Said(e).args) = Len(up.args) + 1
                 /\ Said(e).args = Append(up.args, IF Provider = "gemini" THEN 1 ELSE 0)
           /\ e.kind = "args" =>
                 /\ Said(e).text = up.text
                 /\ Said(e).args = [up.args EXCEPT ![e.n] = @ + 1]
                 /\ Len(Said(e).args) = Len(up.args)
           /\ e.kind \notin {"text", "tool", "args"} =>
                 /\ Said(e).text = up.text
                 /\ Said(e).args = up.args
                 /\ Said(e).last = up.last
                 /\ Said(e).interleaved = up.interleaved
<1> DEFINE s == Said(e)
           args == IF e.kind = "args" THEN [up.args EXCEPT ![e.n] = @ + 1]
                   ELSE up.args \o Opened(e)
<1>1. /\ up.text \in 0..MaxText /\ up.args \in Seq(0..MaxArgs) /\ up.last \in Nat
      /\ up.interleaved \in BOOLEAN /\ up.usage \in BOOLEAN /\ up.whole \in BOOLEAN
  BY DEF Up
<1>2. MaxText \in Nat /\ MaxTools \in Nat /\ MaxArgs \in Nat \ {0}
  BY StreamsAssumption
<1>3. /\ args \in Seq(0..MaxArgs) /\ Len(args) <= MaxTools
      /\ e.kind = "tool" => /\ args = Append(up.args, IF Provider = "gemini" THEN 1 ELSE 0)
                            /\ Len(args) = Len(up.args) + 1
      /\ e.kind = "args" => Len(args) = Len(up.args)
      /\ e.kind \notin {"tool", "args"} => args = up.args
  <2>1. CASE e.kind = "tool"
    <3>1. \A n \in 0..MaxArgs : up.args \o <<n>> = Append(up.args, n)
      BY <1>1
    <3>2. args = Append(up.args, IF Provider = "gemini" THEN 1 ELSE 0)
      BY <2>1, <1>2, <3>1 DEF Opened
    <3>3. (IF Provider = "gemini" THEN 1 ELSE 0) \in 0..MaxArgs
      BY <1>2
    <3>4. e.n = Len(up.args) + 1 /\ e.n <= MaxTools
      BY <2>1, <1>2, EventCases
    <3> HIDE DEF args
    <3> QED BY <2>1, <1>1, <3>2, <3>3, <3>4
  <2>2. CASE e.kind = "args"
    <3>1. e.n \in 1..Len(up.args) /\ up.args[e.n] < MaxArgs
      BY <2>2, EventCases
    <3> QED BY <2>2, <3>1, <1>1, <1>2, SMTT(30)
  <2>3. CASE e.kind \notin {"tool", "args"}
    <3>1. args = up.args \o <<>>
      BY <2>3 DEF Opened
    <3>2. up.args \o <<>> = up.args
      BY <1>1
    <3> QED BY <2>3, <3>1, <3>2, <1>1
  <2> QED BY <2>1, <2>2, <2>3
<1>4. /\ s.text = IF e.kind = "text" THEN up.text + 1 ELSE up.text
      /\ s.args = args
      /\ s.last = IF e.kind \in {"text", "tool", "args"} THEN e.n ELSE up.last
      /\ s.interleaved = (up.interleaved \/ (e.kind = "args" /\ up.last # e.n))
      /\ s.whole = up.whole
  BY <1>1 DEF Said
<1>9. /\ s.usage \in BOOLEAN /\ s.error \in BOOLEAN /\ s.failed \in BOOLEAN
      /\ s.completed \in BOOLEAN /\ s.stopped \in BOOLEAN /\ s.flowing \in BOOLEAN
      /\ s.garbled \in BOOLEAN
  BY DEF Said
<1>5. s.text \in 0..MaxText /\ s.last \in Nat /\ s.interleaved \in BOOLEAN
  BY <1>1, <1>2, <1>4, EventCases
<1>6. s \in Up
  <2> HIDE DEF args
  <2>1. s = [text |-> s.text, args |-> s.args, last |-> s.last, interleaved |-> s.interleaved,
             usage |-> s.usage, error |-> s.error, failed |-> s.failed,
             completed |-> s.completed, stopped |-> s.stopped, whole |-> s.whole,
             flowing |-> s.flowing, garbled |-> s.garbled]
    BY DEF Said
  <2> HIDE DEF s
  <2> QED BY <2>1, <1>1, <1>3, <1>4, <1>5, <1>9 DEF Up
<1>7. e.kind = "args" => args = [up.args EXCEPT ![e.n] = @ + 1]
  OBVIOUS
<1>8. e.kind \notin {"text", "tool", "args"} => s.interleaved = up.interleaved
  BY <1>1, <1>4
<1> HIDE DEF args
<1> QED BY <1>3, <1>4, <1>6, <1>7, <1>8

-----------------------------------------------------------------------------
Fates == {"quiet", "goes on", "ended", "failed", "retry"}
Part == [idx : Int, named : BOOLEAN, args : 0..1]
Chunks == [text : Nat, call : Part, finish : Words, usage : BOOLEAN]
Outcomes == [ps : Parser, chunk : Chunks, fate : Fates]

LEMMA ChunkTypes ==
    /\ NoCall \in Part
    /\ NoChunk \in Chunks /\ Text \in Chunks /\ Counts \in Chunks
    /\ \A i \in Int, b \in BOOLEAN, a \in 0..1 :
          Fragment(i, b, a) \in Part /\ Calls(Fragment(i, b, a)) \in Chunks
    /\ \A r \in Words : Finish(r) \in Chunks /\ Stops(r) \in Chunks
    /\ \A t \in Nat : Chunk(t, NoCall, "", FALSE) \in Chunks
<1>1. NoCall \in Part
  BY DEF Part, NoCall, Fragment
<1>2. "" \in Words
  BY DEF Words
<1>3. \A i \in Int, b \in BOOLEAN, a \in 0..1 : Fragment(i, b, a) \in Part
  BY DEF Part, Fragment
<1> HIDE DEF Part, Words
<1>4. \A t \in Nat, c \in Part, f \in Words, u \in BOOLEAN : Chunk(t, c, f, u) \in Chunks
  BY DEF Chunks, Chunk
<1>5. 0 \in Nat /\ 1 \in Nat
  OBVIOUS
<1> QED BY <1>1, <1>2, <1>3, <1>4, <1>5 DEF NoChunk, Text, Counts, Calls, Finish, Stops

(* What every parser promises of an event: the events that say something go on  *)
(* to the frontend as the one chunk they stand for, a failure is never taken     *)
(* for an end, a retry only comes before the first chunk, and the chunk that     *)
(* ends a stream, or reports usage, counts it.                                  *)
Speaks(e) == e.kind \in {"text", "tool", "args"}
ToolPart(e) == CASE Provider = "gemini" -> Fragment(-1, TRUE, 1)
                 [] Provider = "openai" -> Fragment(e.n - 1, TRUE, 0)
                 [] OTHER -> Fragment(Len(ps.tools), TRUE, 0)
TextPart(e) == IF Provider = "gemini" THEN Chunk(Trimmed(e), NoCall, "", FALSE) ELSE Text
Broken(e) == e.kind \in {"odd", "drop", "blocked"} \/ (e.kind = "error" /\ Provider # "gemini")
\* The parser and the chunk an event that says something leaves.
Spoke(e) == IF e.kind = "tool" /\ Provider \in {"anthropic", "chatgpt"} THEN WithTool(e)
            ELSE IF Provider = "gemini" THEN After(e.kind = "text") ELSE ps
Spoken(e) == CASE e.kind = "text" -> TextPart(e)
               [] e.kind = "tool" -> Calls(ToolPart(e))
               [] e.kind = "args" -> Calls(Fragment(e.n - 1, FALSE, 1))
Fits(e, o) ==
    /\ o \in Outcomes
    /\ Speaks(e) => o.fate = "goes on"
    /\ Broken(e) => o.fate \in {"failed", "retry"}
    /\ o.fate = "retry" => Provider = "chatgpt" /\ ~ps.emitted /\ ps.attempt < StreamRetries
    /\ o.fate = "ended" => e.kind = IF Provider = "chatgpt" THEN "reason" ELSE "close"
    /\ o.fate \notin {"goes on", "ended"} => o.chunk = NoChunk
    /\ o.ps.attempt = ps.attempt
    /\ o.ps.emitted = (ps.emitted \/ o.fate = "goes on")
    /\ Provider \in {"anthropic", "chatgpt"} =>
          Len(o.ps.tools) = IF e.kind = "tool" THEN Len(ps.tools) + 1 ELSE Len(ps.tools)
    /\ e.kind = "text" => o.chunk = TextPart(e)
    /\ e.kind = "tool" => o.chunk = Calls(ToolPart(e))
    /\ e.kind = "args" => o.chunk = Calls(Fragment(e.n - 1, FALSE, 1))
    /\ ~Speaks(e) => o.chunk.text = 0 /\ o.chunk.call = NoCall
    /\ (o.fate = "ended" /\ Provider \in {"anthropic", "chatgpt"}) => o.chunk.usage
    /\ (Provider = "gemini" /\ e.kind = "reason") => o.chunk.usage
    /\ (Provider = "openai" /\ e.kind = "usage") => o.chunk.usage

LEMMA ParserSteps ==
    ASSUME ps \in Parser, NEW n \in Nat, NEW r \in Words
    PROVE  /\ [ps EXCEPT !.tools = Append(@, n)] \in Parser
           /\ [ps EXCEPT !.tools = Append(@, n)].attempt = ps.attempt
           /\ [ps EXCEPT !.tools = Append(@, n)].emitted = ps.emitted
           /\ Len([ps EXCEPT !.tools = Append(@, n)].tools) = Len(ps.tools) + 1
           /\ [ps EXCEPT !.finish = r] \in Parser
           /\ [ps EXCEPT !.finish = r].attempt = ps.attempt
           /\ [ps EXCEPT !.finish = r].emitted = ps.emitted
           /\ [ps EXCEPT !.finish = r].tools = ps.tools
<1>1. Append(ps.tools, n) \in Seq(Nat) /\ Len(Append(ps.tools, n)) = Len(ps.tools) + 1
  BY DEF Parser
<1> HIDE DEF Words
<1> QED BY <1>1 DEF Parser

LEMMA AfterForms ==
    ASSUME ps \in Parser, NEW b \in BOOLEAN
    PROVE  /\ After(b) \in Parser /\ After(b).attempt = ps.attempt
           /\ After(b).emitted = ps.emitted /\ After(b).tools = ps.tools /\ After(b).prev = b
<1> HIDE DEF Words
<1> QED BY DEF After, Parser

\* The text a chunk of Gemini adds.
LEMMA TrimmedType ==
    ASSUME up \in Up, NEW e
    PROVE  Trimmed(e) \in Nat
<1>1. up.text \in Nat
  BY StreamsAssumption DEF Up
<1> QED BY <1>1 DEF Trimmed

LEMMA OutcomeForms ==
    ASSUME NEW p \in Parser, NEW c \in Chunks, NEW f \in Fates
    PROVE  /\ Out(p, c, f) \in Outcomes
           /\ Out(p, c, f).ps = p
           /\ Out(p, c, f).chunk = c
           /\ Out(p, c, f).fate = f
<1> HIDE DEF Parser, Chunks, Fates
<1> QED BY DEF Out, Outcomes

LEMMA YieldForms ==
    ASSUME NEW p \in Parser, NEW c \in Chunks
    PROVE  /\ Yields(p, c) \in Outcomes
           /\ Yields(p, c).chunk = c
           /\ Yields(p, c).fate = "goes on"
           /\ Yields(p, c).ps.emitted
           /\ Yields(p, c).ps.attempt = p.attempt
           /\ Yields(p, c).ps.tools = p.tools
           /\ Yields(p, c).ps.prev = p.prev
<1> DEFINE q == [p EXCEPT !.emitted = TRUE]
<1>1. q \in Parser
  BY DEF Parser
<1>2. q.emitted /\ q.attempt = p.attempt /\ q.tools = p.tools /\ q.prev = p.prev
  BY DEF Parser
<1>3. "goes on" \in Fates
  BY DEF Fates
<1>4. Yields(p, c) = Out(q, c, "goes on")
  BY DEF Yields
<1> HIDE DEF q
<1>5. Out(q, c, "goes on") \in Outcomes
  BY ONLY <1>1, <1>3, c \in Chunks, OutcomeForms
<1>6. Out(q, c, "goes on").ps = q
  BY DEF Out
<1>7. Out(q, c, "goes on").chunk = c /\ Out(q, c, "goes on").fate = "goes on"
  BY DEF Out
<1> QED BY <1>2, <1>4, <1>5, <1>6, <1>7

LEMMA SpeechFits ==
    ASSUME NEW e \in Events, path \in Paths, up \in Up, ps \in Parser, Speaks(e)
    PROVE  Fits(e, Yields(Spoke(e), Spoken(e)))
<1> DEFINE p == Spoke(e)
           c == Spoken(e)
<1>1. e.n \in Nat
  BY EventCases
<1>2. /\ p \in Parser /\ p.attempt = ps.attempt /\ p.emitted = ps.emitted
      /\ Provider \in {"anthropic", "chatgpt"} =>
            Len(p.tools) = IF e.kind = "tool" THEN Len(ps.tools) + 1 ELSE Len(ps.tools)
  <2>0. "" \in Words
    BY DEF Words
  <2> HIDE DEF Parser, Words, Events
  <2>1. /\ WithTool(e) \in Parser /\ WithTool(e).attempt = ps.attempt
        /\ WithTool(e).emitted = ps.emitted /\ Len(WithTool(e).tools) = Len(ps.tools) + 1
    BY <1>1, <2>0, ParserSteps DEF WithTool
  <2>2. CASE e.kind = "tool" /\ Provider \in {"anthropic", "chatgpt"}
    BY <2>1, <2>2 DEF Spoke
  <2>3. CASE ~(e.kind = "tool" /\ Provider \in {"anthropic", "chatgpt"}) /\ Provider = "gemini"
    <3>1. (e.kind = "text") \in BOOLEAN
      OBVIOUS
    <3>2. p = After(e.kind = "text")
      BY <2>3 DEF Spoke
    <3>3. p \in Parser /\ p.attempt = ps.attempt /\ p.emitted = ps.emitted
      BY <3>1, <3>2, AfterForms
    <3> QED BY <2>3, <3>3
  <2>4. CASE ~(e.kind = "tool" /\ Provider \in {"anthropic", "chatgpt"}) /\ Provider # "gemini"
    <3>1. p = ps
      BY <2>4 DEF Spoke
    <3> QED BY <2>4, <3>1
  <2> QED BY <2>2, <2>3, <2>4
<1>3. /\ c \in Chunks
      /\ e.kind = "text" => c = TextPart(e)
      /\ e.kind = "tool" => c = Calls(ToolPart(e))
      /\ e.kind = "args" => c = Calls(Fragment(e.n - 1, FALSE, 1))
  <2>1. CASE e.kind = "text"
    <3>1. c = TextPart(e)
      BY <2>1 DEF Spoken
    <3>2. Trimmed(e) \in Nat
      BY TrimmedType
    <3> QED BY <2>1, <3>1, <3>2, ChunkTypes DEF TextPart
  <2>2. CASE e.kind = "tool"
    <3>1. c = Calls(ToolPart(e))
      BY <2>2 DEF Spoken
    <3>2. Len(ps.tools) \in Int /\ e.n - 1 \in Int /\ -1 \in Int
      BY <1>1 DEF Parser
    <3>3. CASE Provider = "gemini"
      <4>1. ToolPart(e) = Fragment(-1, TRUE, 1) /\ 1 \in 0..1
        BY <3>3 DEF ToolPart
      <4> QED BY <2>2, <3>1, <3>2, <4>1, ChunkTypes
    <3>4. CASE Provider = "openai"
      <4>1. ToolPart(e) = Fragment(e.n - 1, TRUE, 0) /\ 0 \in 0..1
        BY <3>4 DEF ToolPart
      <4> QED BY <2>2, <3>1, <3>2, <4>1, ChunkTypes
    <3>5. CASE Provider \notin {"gemini", "openai"}
      <4>0. Provider # "gemini" /\ Provider # "openai"
        BY <3>5
      <4>1. ToolPart(e) = Fragment(Len(ps.tools), TRUE, 0)
        BY <4>0 DEF ToolPart
      <4>2. 0 \in 0..1
        OBVIOUS
      <4> QED BY <2>2, <3>1, <3>2, <4>1, <4>2, ChunkTypes
    <3> QED BY <3>3, <3>4, <3>5
  <2>3. CASE e.kind = "args"
    <3>1. c = Calls(Fragment(e.n - 1, FALSE, 1)) /\ e.n - 1 \in Int /\ 1 \in 0..1
      BY <1>1, <2>3 DEF Spoken
    <3> QED BY <2>3, <3>1, ChunkTypes
  <2> QED BY <2>1, <2>2, <2>3 DEF Speaks
<1> HIDE DEF Chunks, Parser, Words, Events, Up, p, c
<1>4. /\ Yields(p, c) \in Outcomes
      /\ Yields(p, c).chunk = c /\ Yields(p, c).fate = "goes on"
      /\ Yields(p, c).ps.emitted
      /\ Yields(p, c).ps.attempt = p.attempt
      /\ Yields(p, c).ps.tools = p.tools
  <2>1. "goes on" \in Fates
    BY DEF Fates
  <2>2. p \in Parser /\ c \in Chunks
    BY <1>2, <1>3
  <2> QED BY ONLY <2>2, YieldForms
<1> HIDE DEF Yields
<1>5. e.kind \notin {"reason", "usage"} /\ ~Broken(e)
  BY DEF Speaks, Broken
<1>6. Yields(p, c).ps.emitted = (ps.emitted \/ Yields(p, c).fate = "goes on")
  BY <1>4
<1>7. Provider \in {"anthropic", "chatgpt"} =>
         Len(Yields(p, c).ps.tools) = IF e.kind = "tool" THEN Len(ps.tools) + 1 ELSE Len(ps.tools)
  BY <1>2, <1>4
<1>8. Yields(p, c).ps.attempt = ps.attempt
  BY <1>2, <1>4
<1>9. /\ e.kind = "text" => Yields(p, c).chunk = TextPart(e)
      /\ e.kind = "tool" => Yields(p, c).chunk = Calls(ToolPart(e))
      /\ e.kind = "args" => Yields(p, c).chunk = Calls(Fragment(e.n - 1, FALSE, 1))
  BY <1>3, <1>4
<1> HIDE DEF ToolPart
<1>10. Fits(e, Yields(p, c))
  BY <1>4, <1>5, <1>6, <1>7, <1>8, <1>9 DEF Fits
<1> QED BY <1>10 DEF p, c

LEMMA SilenceFits ==
    ASSUME NEW e, ps \in Parser, ~Speaks(e), NEW p \in Parser, NEW c \in Chunks, NEW f \in Fates,
           p.attempt = ps.attempt, p.tools = ps.tools, p.emitted = (ps.emitted \/ f = "goes on"),
           c.text = 0, c.call = NoCall,
           Broken(e) => f \in {"failed", "retry"},
           f = "retry" => Provider = "chatgpt" /\ ~ps.emitted /\ ps.attempt < StreamRetries,
           f = "ended" => e.kind = IF Provider = "chatgpt" THEN "reason" ELSE "close",
           f \notin {"goes on", "ended"} => c = NoChunk,
           (f = "ended" /\ Provider \in {"anthropic", "chatgpt"}) => c.usage,
           (Provider = "gemini" /\ e.kind = "reason") => c.usage,
           (Provider = "openai" /\ e.kind = "usage") => c.usage
    PROVE  Fits(e, Out(p, c, f))
<1>1. /\ Out(p, c, f) \in Outcomes
      /\ Out(p, c, f).ps = p /\ Out(p, c, f).chunk = c /\ Out(p, c, f).fate = f
  BY ONLY p \in Parser, c \in Chunks, f \in Fates, OutcomeForms
<1>2. Provider \in {"anthropic", "chatgpt"} =>
         Len(p.tools) = IF e.kind = "tool" THEN Len(ps.tools) + 1 ELSE Len(ps.tools)
  BY DEF Speaks
<1>3. e.kind \notin {"text", "tool", "args"}
  BY DEF Speaks
<1> HIDE DEF Outcomes, Parser, Chunks, Fates
<1> QED BY <1>1, <1>2, <1>3 DEF Fits

LEMMA FailsFits ==
    ASSUME NEW e, ps \in Parser, e.kind \in {"error", "odd", "drop", "blocked", "close", "orphan"}
    PROVE  Fits(e, Fails)
<1>1. NoChunk \in Chunks /\ NoChunk.text = 0 /\ NoChunk.call = NoCall
  BY ChunkTypes DEF NoChunk, Chunk
<1>2. "failed" \in Fates /\ ~Speaks(e) /\ e.kind \notin {"reason", "usage"}
  BY DEF Fates, Speaks
<1>3. ps.emitted = (ps.emitted \/ "failed" = "goes on")
  BY DEF Parser
<1> HIDE DEF NoChunk, NoCall, Parser, Chunks, Fates
<1> QED BY <1>1, <1>2, <1>3, SilenceFits DEF Fails

LEMMA EmptyChunk ==
    /\ NoChunk \in Chunks /\ NoChunk.text = 0 /\ NoChunk.call = NoCall
    /\ Counts \in Chunks /\ Counts.text = 0 /\ Counts.call = NoCall /\ Counts.usage
<1>1. NoChunk \in Chunks /\ Counts \in Chunks
  BY ChunkTypes
<1>2. NoChunk.text = 0 /\ NoChunk.call = NoCall
  BY DEF NoChunk, Chunk
<1>3. Counts.text = 0 /\ Counts.call = NoCall /\ Counts.usage
  BY DEF Counts, Chunk
<1> QED BY <1>1, <1>2, <1>3

LEMMA Stopping ==
    ASSUME NEW r \in Words
    PROVE  /\ Finish(r) \in Chunks /\ Finish(r).text = 0 /\ Finish(r).call = NoCall /\ Finish(r).usage
           /\ Stops(r) \in Chunks /\ Stops(r).text = 0 /\ Stops(r).call = NoCall
<1>1. Finish(r) \in Chunks /\ Stops(r) \in Chunks
  BY ChunkTypes
<1>2. Finish(r).text = 0 /\ Finish(r).call = NoCall /\ Finish(r).usage
  BY DEF Finish, Chunk
<1>3. Stops(r).text = 0 /\ Stops(r).call = NoCall
  BY DEF Stops, Chunk
<1> QED BY <1>1, <1>2, <1>3

\* What a parser has nothing to say to.
Ignored(e) == e.kind \in {"orphan", "strange", "stop"} \/ (e.kind = "error" /\ Provider = "gemini")

LEMMA QuietFits ==
    ASSUME NEW e, ps \in Parser, NEW r \in Words,
           Ignored(e) \/ (e.kind = "reason" /\ Provider = "anthropic")
    PROVE  /\ Ignored(e) => Fits(e, Silent(ps))
           /\ Provider = "anthropic" => Fits(e, Silent([ps EXCEPT !.finish = r]))
<1> DEFINE q == [ps EXCEPT !.finish = r]
<1>1. q \in Parser /\ q.attempt = ps.attempt /\ q.tools = ps.tools /\ q.emitted = ps.emitted
  BY ONLY ps \in Parser, r \in Words, 0 \in Nat, ParserSteps
<1>2. "quiet" \in Fates /\ "quiet" # "goes on"
  BY DEF Fates
<1>3. ps.emitted \in BOOLEAN
  BY DEF Parser
<1>4. ~Speaks(e) /\ ~Broken(e) /\ e.kind # "usage" /\ (Ignored(e) => e.kind # "reason")
  BY DEF Speaks, Broken, Ignored
<1> HIDE DEF q, Parser, Chunks, Fates, NoChunk, NoCall
<1>5. Ignored(e) => Fits(e, Out(ps, NoChunk, "quiet"))
  BY <1>2, <1>3, <1>4, EmptyChunk, SilenceFits
<1>6. Provider = "anthropic" => Fits(e, Out(q, NoChunk, "quiet"))
  BY <1>1, <1>2, <1>3, <1>4, EmptyChunk, SilenceFits
<1> QED BY <1>5, <1>6 DEF Silent, q

LEMMA RetryFits ==
    ASSUME NEW e, ps \in Parser, e.kind \in {"close", "drop"}, Provider = "chatgpt", Retryable
    PROVE  Fits(e, Out(ps, NoChunk, "retry"))
<1>1. "retry" \in Fates /\ "retry" # "goes on"
  BY DEF Fates
<1>2. ps.emitted = FALSE /\ ps.attempt < StreamRetries
  BY DEF Parser, Retryable
<1>3. ~Speaks(e)
  BY DEF Speaks
<1> HIDE DEF Parser, Chunks, Fates, NoChunk, NoCall
<1> QED BY <1>1, <1>2, <1>3, EmptyChunk, SilenceFits

LEMMA EndsFits ==
    ASSUME NEW e, ps \in Parser, NEW c \in Chunks, c.text = 0, c.call = NoCall,
           e.kind = IF Provider = "chatgpt" THEN "reason" ELSE "close",
           Provider \in {"anthropic", "chatgpt"} => c.usage
    PROVE  Fits(e, Ends(c))
<1>1. "ended" \in Fates /\ "ended" # "goes on"
  BY DEF Fates
<1>2. ps.emitted \in BOOLEAN
  BY DEF Parser
<1>3. ~Speaks(e) /\ ~Broken(e) /\ e.kind # "usage"
  BY DEF Speaks, Broken
<1>4. Provider = "gemini" => e.kind # "reason"
  OBVIOUS
<1> HIDE DEF Parser, Chunks, Fates, NoChunk, NoCall
<1> QED BY <1>1, <1>2, <1>3, <1>4, SilenceFits DEF Ends

LEMMA AsideFits ==
    ASSUME NEW e, ps \in Parser, NEW c \in Chunks, c.text = 0, c.call = NoCall,
           NEW p \in Parser, p.attempt = ps.attempt, p.tools = ps.tools, p.emitted = ps.emitted,
           e.kind \in {"reason", "usage", "strange"},
           (Provider = "gemini" /\ e.kind = "reason") => c.usage,
           (Provider = "openai" /\ e.kind = "usage") => c.usage
    PROVE  Fits(e, Yields(p, c))
<1> DEFINE q == [p EXCEPT !.emitted = TRUE]
<1>1. q \in Parser /\ q.attempt = ps.attempt /\ q.tools = ps.tools /\ q.emitted = TRUE
  BY DEF Parser
<1>2. "goes on" \in Fates
  BY DEF Fates
<1>3. ~Speaks(e) /\ ~Broken(e)
  BY DEF Speaks, Broken
<1>4. q.emitted = (ps.emitted \/ "goes on" = "goes on")
  BY <1>1
<1> HIDE DEF q, Parser, Chunks, Fates, NoChunk, NoCall
<1>5. Fits(e, Out(q, c, "goes on"))
  BY <1>1, <1>2, <1>3, <1>4, SilenceFits
<1> QED BY <1>5 DEF Yields, q

LEMMA AnthropicFits ==
    ASSUME NEW e \in Events, path \in Paths, up \in Up, ps \in Parser, Provider = "anthropic"
    PROVE  Fits(e, Parsed(e))
<1>0. Speaks(e) => Fits(e, Yields(Spoke(e), Spoken(e)))
  BY SpeechFits
<1>1. /\ e.kind \in Kinds /\ e.reason \in Words
      /\ e.kind = "args" => Provider # "gemini"
      /\ e.kind = "usage" => Provider \in {"gemini", "openai"}
      /\ e.kind = "orphan" => Provider \in {"anthropic", "chatgpt"}
      /\ e.kind = "blocked" => Provider = "gemini"
      /\ e.kind = "stop" => Provider = "anthropic"
  BY EventCases
<1>2. CASE e.kind = "text"
  <2>1. Parsed(e) = Yields(ps, Text)
    BY <1>2 DEF Parsed, StreamSSE, HandleSSE
  <2>2. Spoke(e) = ps /\ Spoken(e) = Text
    BY <1>2 DEF Spoke, Spoken, TextPart
  <2> QED BY <1>0, <1>2, <2>1, <2>2 DEF Speaks
<1>3. CASE e.kind = "tool"
  <2>1. Parsed(e) = Yields(WithTool(e), Calls(Fragment(Len(ps.tools), TRUE, 0)))
    BY <1>3 DEF Parsed, StreamSSE, HandleSSE
  <2>2. ToolPart(e) = Fragment(Len(ps.tools), TRUE, 0)
    BY DEF ToolPart
  <2>3. Spoke(e) = WithTool(e) /\ Spoken(e) = Calls(ToolPart(e))
    BY <1>3 DEF Spoke, Spoken
  <2> QED BY <1>0, <1>3, <2>1, <2>2, <2>3 DEF Speaks
<1>4. CASE e.kind = "args"
  <2>1. Parsed(e) = Yields(ps, Calls(Fragment(e.n - 1, FALSE, 1)))
    BY <1>4 DEF Parsed, StreamSSE, HandleSSE
  <2>2. Spoke(e) = ps /\ Spoken(e) = Calls(Fragment(e.n - 1, FALSE, 1))
    BY <1>4 DEF Spoke, Spoken
  <2> QED BY <1>0, <1>4, <2>1, <2>2 DEF Speaks
<1>5. CASE e.kind \in {"orphan", "strange", "stop"}
  <2>1. Parsed(e) = Silent(ps)
    BY <1>5 DEF Parsed, StreamSSE, HandleSSE
  <2>2. "" \in Words
    BY DEF Words
  <2> QED BY <1>1, <1>5, <2>1, <2>2, QuietFits DEF Ignored
<1>6. CASE e.kind = "reason"
  <2>1. Parsed(e) = Silent([ps EXCEPT !.finish = AnthropicReason(e.reason)])
    BY <1>6 DEF Parsed, StreamSSE, HandleSSE
  <2>2. AnthropicReason(e.reason) \in Words
    BY DEF AnthropicReason, Words
  <2> QED BY <1>6, <2>1, <2>2, QuietFits DEF Ignored
<1>7. CASE e.kind = "close"
  <2>1. Parsed(e) = Ends(Finish(ps.finish))
    BY <1>7 DEF Parsed, StreamSSE, HandleSSE
  <2>2. ps.finish \in Words
    BY DEF Parser
  <2> QED BY <1>7, <2>1, <2>2, Stopping, EndsFits
<1>8. CASE e.kind \in {"error", "odd", "drop"}
  <2>1. Parsed(e) = Fails
    BY <1>8 DEF Parsed, StreamSSE, HandleSSE
  <2> QED BY <1>8, <2>1, FailsFits
<1> QED BY <1>1, <1>2, <1>3, <1>4, <1>5, <1>6, <1>7, <1>8 DEF Kinds

LEMMA ChatGPTFits ==
    ASSUME NEW e \in Events, path \in Paths, up \in Up, ps \in Parser, Provider = "chatgpt"
    PROVE  Fits(e, Parsed(e))
<1>0. Speaks(e) => Fits(e, Yields(Spoke(e), Spoken(e)))
  BY SpeechFits
<1>1. /\ e.kind \in Kinds /\ e.reason \in Words
      /\ e.kind = "args" => Provider # "gemini"
      /\ e.kind = "usage" => Provider \in {"gemini", "openai"}
      /\ e.kind = "orphan" => Provider \in {"anthropic", "chatgpt"}
      /\ e.kind = "blocked" => Provider = "gemini"
      /\ e.kind = "stop" => Provider = "anthropic"
  BY EventCases
<1>2. CASE e.kind = "text"
  <2>1. Parsed(e) = Yields(ps, Text)
    BY <1>2 DEF Parsed, ConsumeStream, ResponseEvent
  <2>2. Spoke(e) = ps /\ Spoken(e) = Text
    BY <1>2 DEF Spoke, Spoken, TextPart
  <2> QED BY <1>0, <1>2, <2>1, <2>2 DEF Speaks
<1>3. CASE e.kind = "tool"
  <2>1. Parsed(e) = Yields(WithTool(e), Calls(Fragment(Len(ps.tools), TRUE, 0)))
    BY <1>3 DEF Parsed, ConsumeStream, ResponseEvent
  <2>2. ToolPart(e) = Fragment(Len(ps.tools), TRUE, 0)
    BY DEF ToolPart
  <2>3. Spoke(e) = WithTool(e) /\ Spoken(e) = Calls(ToolPart(e))
    BY <1>3 DEF Spoke, Spoken
  <2> QED BY <1>0, <1>3, <2>1, <2>2, <2>3 DEF Speaks
<1>4. CASE e.kind = "args"
  <2>1. Parsed(e) = Yields(ps, Calls(Fragment(e.n - 1, FALSE, 1)))
    BY <1>4 DEF Parsed, ConsumeStream, ResponseEvent
  <2>2. Spoke(e) = ps /\ Spoken(e) = Calls(Fragment(e.n - 1, FALSE, 1))
    BY <1>4 DEF Spoke, Spoken
  <2> QED BY <1>0, <1>4, <2>1, <2>2 DEF Speaks
<1>5. CASE e.kind = "reason"
  <2>1. Parsed(e) = Completed
    BY <1>5 DEF Parsed, ConsumeStream, ResponseEvent
  <2>2. (IF ps.tools # <<>> THEN "tool_calls" ELSE "stop") \in Words
    BY DEF Words
  <2> QED BY <1>5, <2>1, <2>2, Stopping, EndsFits DEF Completed
<1>6. CASE e.kind \in {"close", "drop"} /\ Retryable
  <2>1. Parsed(e) = Out(ps, NoChunk, "retry")
    BY <1>6 DEF Parsed, ConsumeStream, ResponseEvent
  <2> QED BY <1>6, <2>1, RetryFits
<1>7. CASE e.kind \in {"error", "odd", "orphan"} \/ (e.kind \in {"close", "drop"} /\ ~Retryable)
  <2>1. Parsed(e) = Fails
    BY <1>7 DEF Parsed, ConsumeStream, ResponseEvent
  <2> QED BY <1>7, <2>1, FailsFits
<1>8. CASE e.kind = "strange"
  <2>1. Parsed(e) = Silent(ps)
    BY <1>8 DEF Parsed, ConsumeStream, ResponseEvent
  <2>2. "" \in Words
    BY DEF Words
  <2> QED BY <1>8, <2>1, <2>2, QuietFits DEF Ignored
<1> QED BY <1>1, <1>2, <1>3, <1>4, <1>5, <1>6, <1>7, <1>8 DEF Kinds

LEMMA GeminiFits ==
    ASSUME NEW e \in Events, path \in Paths, up \in Up, ps \in Parser, Provider = "gemini"
    PROVE  Fits(e, Parsed(e))
<1>0. Speaks(e) => Fits(e, Yields(Spoke(e), Spoken(e)))
  BY SpeechFits
<1>1. /\ e.kind \in Kinds /\ e.reason \in Words
      /\ e.kind = "args" => Provider # "gemini"
      /\ e.kind = "usage" => Provider \in {"gemini", "openai"}
      /\ e.kind = "orphan" => Provider \in {"anthropic", "chatgpt"}
      /\ e.kind = "blocked" => Provider = "gemini"
      /\ e.kind = "stop" => Provider = "anthropic"
  BY EventCases
<1>2. CASE e.kind = "text"
  <2>1. Parsed(e) = Yields(After(TRUE), Chunk(Trimmed(e), NoCall, "", FALSE))
    BY <1>2 DEF Parsed, GeminiStream
  <2>2. Spoke(e) = After(TRUE) /\ Spoken(e) = Chunk(Trimmed(e), NoCall, "", FALSE)
    BY <1>2 DEF Spoke, Spoken, TextPart
  <2> QED BY <1>0, <1>2, <2>1, <2>2 DEF Speaks
<1>3. CASE e.kind = "tool"
  <2>1. Parsed(e) = Yields(After(FALSE), Calls(Fragment(-1, TRUE, 1)))
    BY <1>3 DEF Parsed, GeminiStream
  <2>2. ToolPart(e) = Fragment(-1, TRUE, 1)
    BY DEF ToolPart
  <2>3. Spoke(e) = After(FALSE) /\ Spoken(e) = Calls(ToolPart(e))
    BY <1>3 DEF Spoke, Spoken
  <2> QED BY <1>0, <1>3, <2>1, <2>2, <2>3 DEF Speaks
<1>5. CASE e.kind = "reason"
  <2>1. Parsed(e) = Yields(After(FALSE), Finish(GeminiReason(e.reason)))
    BY <1>5 DEF Parsed, GeminiStream
  <2>2. GeminiReason(e.reason) \in Words
    BY DEF GeminiReason, Words
  <2>3. /\ After(FALSE) \in Parser /\ After(FALSE).attempt = ps.attempt
        /\ After(FALSE).tools = ps.tools /\ After(FALSE).emitted = ps.emitted
    BY AfterForms
  <2> QED BY <1>5, <2>1, <2>2, <2>3, Stopping, AsideFits
<1>6. CASE e.kind = "usage"
  <2>1. Parsed(e) = Yields(ps, Counts)
    BY <1>6 DEF Parsed, GeminiStream
  <2> QED BY <1>6, <2>1, EmptyChunk, AsideFits
<1>7. CASE e.kind = "close"
  <2>1. Parsed(e) = Ends(NoChunk)
    BY <1>7 DEF Parsed, GeminiStream
  <2> QED BY <1>7, <2>1, EmptyChunk, EndsFits
<1>8. CASE e.kind \in {"odd", "drop", "blocked"}
  <2>1. Parsed(e) = Fails
    BY <1>8 DEF Parsed, GeminiStream
  <2> QED BY <1>8, <2>1, FailsFits
<1>9. CASE e.kind \in {"error", "strange"}
  <2>1. Parsed(e) = Silent(ps)
    BY <1>9 DEF Parsed, GeminiStream
  <2>2. "" \in Words
    BY DEF Words
  <2> QED BY <1>9, <2>1, <2>2, QuietFits DEF Ignored
<1> QED BY <1>1, <1>2, <1>3, <1>5, <1>6, <1>7, <1>8, <1>9 DEF Kinds

LEMMA OpenAIFits ==
    ASSUME NEW e \in Events, path \in Paths, up \in Up, ps \in Parser, Provider = "openai"
    PROVE  Fits(e, Parsed(e))
<1>0. Speaks(e) => Fits(e, Yields(Spoke(e), Spoken(e)))
  BY SpeechFits
<1>1. /\ e.kind \in Kinds /\ e.reason \in Words
      /\ e.kind = "args" => Provider # "gemini"
      /\ e.kind = "usage" => Provider \in {"gemini", "openai"}
      /\ e.kind = "orphan" => Provider \in {"anthropic", "chatgpt"}
      /\ e.kind = "blocked" => Provider = "gemini"
      /\ e.kind = "stop" => Provider = "anthropic"
  BY EventCases
<1>2. CASE e.kind = "text"
  <2>1. Parsed(e) = Yields(ps, Text)
    BY <1>2 DEF Parsed, OpenAIStream
  <2>2. Spoke(e) = ps /\ Spoken(e) = Text
    BY <1>2 DEF Spoke, Spoken, TextPart
  <2> QED BY <1>0, <1>2, <2>1, <2>2 DEF Speaks
<1>3. CASE e.kind = "tool"
  <2>1. Parsed(e) = Yields(ps, Calls(Fragment(e.n - 1, TRUE, 0)))
    BY <1>3 DEF Parsed, OpenAIStream
  <2>2. ToolPart(e) = Fragment(e.n - 1, TRUE, 0)
    BY DEF ToolPart
  <2>3. Spoke(e) = ps /\ Spoken(e) = Calls(ToolPart(e))
    BY <1>3 DEF Spoke, Spoken
  <2> QED BY <1>0, <1>3, <2>1, <2>2, <2>3 DEF Speaks
<1>4. CASE e.kind = "args"
  <2>1. Parsed(e) = Yields(ps, Calls(Fragment(e.n - 1, FALSE, 1)))
    BY <1>4 DEF Parsed, OpenAIStream
  <2>2. Spoke(e) = ps /\ Spoken(e) = Calls(Fragment(e.n - 1, FALSE, 1))
    BY <1>4 DEF Spoke, Spoken
  <2> QED BY <1>0, <1>4, <2>1, <2>2 DEF Speaks
<1>5. CASE e.kind = "reason"
  <2>1. Parsed(e) = Yields(ps, Stops(e.reason))
    BY <1>5 DEF Parsed, OpenAIStream
  <2> QED BY <1>1, <1>5, <2>1, Stopping, AsideFits
<1>6. CASE e.kind = "usage"
  <2>1. Parsed(e) = Yields(ps, Counts)
    BY <1>6 DEF Parsed, OpenAIStream
  <2> QED BY <1>6, <2>1, EmptyChunk, AsideFits
<1>7. CASE e.kind = "close"
  <2>1. Parsed(e) = Ends(NoChunk)
    BY <1>7 DEF Parsed, OpenAIStream
  <2> QED BY <1>7, <2>1, EmptyChunk, EndsFits
<1>8. CASE e.kind \in {"error", "odd", "drop"}
  <2>1. Parsed(e) = Fails
    BY <1>8 DEF Parsed, OpenAIStream
  <2> QED BY <1>8, <2>1, FailsFits
<1>9. CASE e.kind = "strange"
  <2>1. Parsed(e) = Yields(ps, NoChunk)
    BY <1>9 DEF Parsed, OpenAIStream
  <2> QED BY <1>9, <2>1, EmptyChunk, AsideFits
<1> QED BY <1>1, <1>2, <1>3, <1>4, <1>5, <1>6, <1>7, <1>8, <1>9 DEF Kinds

\* Gemini's prevText is empty but after a chunk with text.
LEMMA GeminiFlows ==
    ASSUME NEW e \in Events, path \in Paths, up \in Up, ps \in Parser, Provider = "gemini",
           ps.prev = up.flowing
    PROVE  Parsed(e).ps.prev = Said(e).flowing
<1>1. Said(e).flowing = (e.kind \notin {"tool", "reason"} /\ (up.flowing \/ e.kind = "text"))
  BY DEF Said
<1>2. e.kind \in Kinds /\ e.kind # "args" /\ up.flowing \in BOOLEAN
  BY EventCases DEF Up
<1>3. /\ After(TRUE) \in Parser /\ After(TRUE).prev = TRUE
      /\ After(FALSE) \in Parser /\ After(FALSE).prev = FALSE
  BY AfterForms
<1>4. \A p \in Parser, c \in Chunks : Yields(p, c).ps.prev = p.prev
  BY YieldForms
<1> HIDE DEF Parser, Up, Chunks
<1>5. CASE e.kind = "text"
  <2>1. Parsed(e) = Yields(After(TRUE), Chunk(Trimmed(e), NoCall, "", FALSE))
    BY <1>5 DEF Parsed, GeminiStream
  <2>2. Chunk(Trimmed(e), NoCall, "", FALSE) \in Chunks
    BY TrimmedType, ChunkTypes
  <2>3. Parsed(e).ps.prev = TRUE
    BY <1>3, <1>4, <2>1, <2>2
  <2>4. Said(e).flowing = TRUE
    BY <1>1, <1>5
  <2> QED BY <2>3, <2>4
<1>6. CASE e.kind = "tool"
  <2>1. Parsed(e) = Yields(After(FALSE), Calls(Fragment(-1, TRUE, 1)))
    BY <1>6 DEF Parsed, GeminiStream
  <2>2. Calls(Fragment(-1, TRUE, 1)) \in Chunks
    <3>1. -1 \in Int /\ 1 \in 0..1 /\ TRUE \in BOOLEAN
      OBVIOUS
    <3> QED BY <3>1, ChunkTypes
  <2>3. Parsed(e).ps.prev = FALSE
    BY <1>3, <1>4, <2>1, <2>2
  <2> QED BY <1>1, <1>6, <2>3
<1>7. CASE e.kind = "reason"
  <2>1. Parsed(e) = Yields(After(FALSE), Finish(GeminiReason(e.reason)))
    BY <1>7 DEF Parsed, GeminiStream
  <2>2. GeminiReason(e.reason) \in Words
    BY DEF GeminiReason, Words
  <2>3. Finish(GeminiReason(e.reason)) \in Chunks
    BY <2>2, Stopping
  <2>4. Parsed(e).ps.prev = FALSE
    BY <1>3, <1>4, <2>1, <2>3
  <2> QED BY <1>1, <1>7, <2>4
<1>8. CASE e.kind \notin {"text", "tool", "reason"}
  <2>1. CASE e.kind = "usage"
    <3>1. Parsed(e) = Yields(ps, Counts)
      BY <2>1 DEF Parsed, GeminiStream
    <3>2. Parsed(e).ps.prev = ps.prev
      BY <1>4, <3>1, EmptyChunk
    <3> QED BY <1>1, <1>2, <1>8, <3>2
  <2>2. CASE e.kind # "usage"
    <3>1. Parsed(e).ps = ps
      BY <1>2, <1>8, <2>2 DEF Parsed, GeminiStream, Silent, Ends, Fails, Out, Kinds
    <3> QED BY <1>1, <1>2, <1>8, <3>1
  <2> QED BY <2>1, <2>2
<1> QED BY <1>5, <1>6, <1>7, <1>8

LEMMA ParsedFits ==
    ASSUME NEW e \in Events, path \in Paths, up \in Up, ps \in Parser
    PROVE  Fits(e, Parsed(e))
BY PathCases, AnthropicFits, ChatGPTFits, GeminiFits, OpenAIFits DEF Providers

-----------------------------------------------------------------------------
(* The writer: what each of its operations makes of the block that is open, of  *)
(* the answer reassembled on the side and of what the client has seen.          *)

Call == [key : Int, args : Nat]
Bridger == [kind : {"", "text", "tool"}, tool : Int, index : Nat, next : Nat,
            stop : Words, usage : BOOLEAN]
EventTypes == {"start", "delta", "stop", "message_delta", "message_stop", "error"}
BlockEvents == [type : EventTypes, index : Int, what : Words]
Writers == [w : Bridger, a : Answer, v : Client, told : SUBSET EventTypes, late : BOOLEAN]

LEMMA Spelled ==
    /\ EventTypes = {"start", "delta", "stop", "message_delta", "message_stop", "error"}
    /\ "" \in Words /\ "text" \in Words /\ "tool" \in Words /\ "stop" \in Words
    /\ "start" \in EventTypes /\ "delta" \in EventTypes /\ "stop" \in EventTypes
    /\ "message_delta" \in EventTypes /\ "message_stop" \in EventTypes /\ "error" \in EventTypes
BY DEF EventTypes, Words

LEMMA MergedHit ==
    ASSUME NEW calls \in Seq(Call), NEW key \in Int, NEW args \in Nat,
           \E i \in DOMAIN calls : calls[i].key = key
    PROVE  /\ Merged(calls, key, args) \in Seq(Call)
           /\ Len(Merged(calls, key, args)) = Len(calls)
           /\ \A i \in 1..Len(calls) :
                 Merged(calls, key, args)[i] =
                    [key |-> calls[i].key,
                     args |-> IF calls[i].key = key THEN calls[i].args + args ELSE calls[i].args]
<1> DEFINE m == [i \in 1..Len(calls) |->
                   [key |-> calls[i].key,
                    args |-> IF calls[i].key = key THEN calls[i].args + args ELSE calls[i].args]]
<1>1. DOMAIN calls = 1..Len(calls) /\ Len(calls) \in Nat
  OBVIOUS
<1>2. \A i \in 1..Len(calls) : calls[i] \in Call
  OBVIOUS
<1>3. \A i \in 1..Len(calls) : m[i] \in Call
  BY <1>2 DEF Call
<1>4. m \in Seq(Call) /\ Len(m) = Len(calls)
  <2> HIDE DEF Call
  <2>1. m \in [1..Len(calls) -> Call]
    <3>1. \A i \in 1..Len(calls) :
             [key |-> calls[i].key,
              args |-> IF calls[i].key = key THEN calls[i].args + args ELSE calls[i].args] \in Call
      BY <1>3
    <3> QED BY <3>1
  <2> HIDE DEF m
  <2> QED BY <1>1, <2>1
<1>5. Merged(calls, key, args) = m
  <2>1. \A i \in 1..Len(calls) :
           (IF calls[i].key = key THEN [calls[i] EXCEPT !.args = @ + args] ELSE calls[i]) = m[i]
    <3> TAKE i \in 1..Len(calls)
    <3>1. calls[i] = [key |-> calls[i].key, args |-> calls[i].args]
      BY <1>2 DEF Call
    <3> QED BY <1>2, <3>1 DEF Call
  <2>2. Merged(calls, key, args) =
           [i \in DOMAIN calls |-> IF calls[i].key = key
                                   THEN [calls[i] EXCEPT !.args = @ + args] ELSE calls[i]]
    BY DEF Merged
  <2> QED BY <1>1, <2>1, <2>2
<1> HIDE DEF m
<1>6. \A i \in 1..Len(calls) :
         m[i] = [key |-> calls[i].key,
                 args |-> IF calls[i].key = key THEN calls[i].args + args ELSE calls[i].args]
  BY DEF m
<1> QED BY <1>4, <1>5, <1>6

LEMMA MergedMiss ==
    ASSUME NEW calls \in Seq(Call), NEW key \in Int, NEW args \in Nat,
           ~ \E i \in DOMAIN calls : calls[i].key = key
    PROVE  /\ Merged(calls, key, args) = Append(calls, [key |-> key, args |-> args])
           /\ Merged(calls, key, args) \in Seq(Call)
<1>1. [key |-> key, args |-> args] \in Call
  BY DEF Call
<1>2. Merged(calls, key, args) = Append(calls, [key |-> key, args |-> args])
  BY DEF Merged
<1> HIDE DEF Call
<1> QED BY <1>1, <1>2

LEMMA FedType ==
    ASSUME NEW a \in Answer, NEW ev \in BlockEvents
    PROVE  Fed(a, ev) \in Answer
<1>1. a.text \in Nat /\ a.calls \in Seq(Call) /\ a = [text |-> a.text, calls |-> a.calls]
  BY DEF Answer, Call
<1>2. ev.index \in Int
  BY DEF BlockEvents
<1>3. \A t \in Nat, c \in Seq(Call) : [text |-> t, calls |-> c] \in Answer
  BY DEF Answer, Call
<1>4. CASE ev.type = "start" /\ ev.what = "tool"
  <2>1. Fed(a, ev) = [text |-> a.text, calls |-> Append(a.calls, [key |-> ev.index, args |-> 0])]
    BY <1>1, <1>4 DEF Fed
  <2>2. [key |-> ev.index, args |-> 0] \in Call
    BY <1>2 DEF Call
  <2> HIDE DEF Call
  <2>3. Append(a.calls, [key |-> ev.index, args |-> 0]) \in Seq(Call)
    BY <1>1, <2>2
  <2> QED BY <1>1, <1>3, <2>1, <2>3
<1>5. CASE ev.type = "delta" /\ ev.what = "text"
  <2>1. Fed(a, ev) = [text |-> a.text + 1, calls |-> a.calls]
    BY <1>1, <1>5 DEF Fed
  <2> QED BY <1>1, <1>3, <2>1, SMTT(30)
<1>6. CASE ev.type = "delta" /\ ev.what = "tool" /\ (\E i \in DOMAIN a.calls : a.calls[i].key = ev.index)
  <2>1. Fed(a, ev) = [text |-> a.text, calls |-> Merged(a.calls, ev.index, 1)]
    BY <1>1, <1>6 DEF Fed
  <2>2. Merged(a.calls, ev.index, 1) \in Seq(Call)
    BY <1>1, <1>2, <1>6, MergedHit
  <2> QED BY <1>1, <1>3, <2>1, <2>2
<1>7. CASE ~(ev.type = "start" /\ ev.what = "tool") /\ ~(ev.type = "delta" /\ ev.what = "text")
           /\ ~(ev.type = "delta" /\ ev.what = "tool" /\ (\E i \in DOMAIN a.calls : a.calls[i].key = ev.index))
  <2>1. Fed(a, ev) = a
    BY <1>7 DEF Fed
  <2> QED BY <2>1
<1> QED BY <1>4, <1>5, <1>6, <1>7

Sight(open, next, broken, finish, end, gone) ==
    [open |-> open, next |-> next, broken |-> broken, finish |-> finish, end |-> end, gone |-> gone]

LEMMA SeenForms ==
    ASSUME NEW v \in Client, NEW ev
    PROVE  /\ ev.type = "start" =>
                 Seen(v, ev) = Sight(ev.index, ev.index + 1, v.broken \/ v.open # -1 \/ ev.index # v.next,
                                     v.finish, v.end, v.gone)
           /\ ev.type = "delta" =>
                 Seen(v, ev) = Sight(v.open, v.next, v.broken \/ v.open # ev.index,
                                     v.finish, v.end, v.gone)
           /\ ev.type = "stop" =>
                 Seen(v, ev) = Sight(-1, v.next, v.broken \/ v.open # ev.index,
                                     v.finish, v.end, v.gone)
           /\ ev.type = "message_delta" =>
                 Seen(v, ev) = Sight(v.open, v.next, v.broken, ev.what, v.end, v.gone)
           /\ ev.type = "message_stop" =>
                 Seen(v, ev) = Sight(v.open, v.next, v.broken \/ v.open # -1 \/ v.next = 0,
                                     v.finish, IF v.end = "" THEN "ok" ELSE v.end, v.gone)
           /\ ev.type = "error" =>
                 Seen(v, ev) = Sight(v.open, v.next, v.broken \/ v.open # -1,
                                     v.finish, "error", v.gone)
<1> HIDE DEF Words
<1>0. v = [open |-> v.open, next |-> v.next, broken |-> v.broken, finish |-> v.finish,
           end |-> v.end, gone |-> v.gone]
  BY DEF Client
<1>1. ASSUME ev.type = "start"
      PROVE  Seen(v, ev) = Sight(ev.index, ev.index + 1, v.broken \/ v.open # -1 \/ ev.index # v.next,
                                 v.finish, v.end, v.gone)
  BY <1>0, <1>1 DEF Seen, Sight
<1>2. ASSUME ev.type = "delta"
      PROVE  Seen(v, ev) = Sight(v.open, v.next, v.broken \/ v.open # ev.index,
                                 v.finish, v.end, v.gone)
  BY <1>0, <1>2 DEF Seen, Sight
<1>3. ASSUME ev.type = "stop"
      PROVE  Seen(v, ev) = Sight(-1, v.next, v.broken \/ v.open # ev.index, v.finish, v.end, v.gone)
  BY <1>0, <1>3 DEF Seen, Sight
<1>4. ASSUME ev.type = "message_delta"
      PROVE  Seen(v, ev) = Sight(v.open, v.next, v.broken, ev.what, v.end, v.gone)
  BY <1>0, <1>4 DEF Seen, Sight
<1>5. ASSUME ev.type = "message_stop"
      PROVE  Seen(v, ev) = Sight(v.open, v.next, v.broken \/ v.open # -1 \/ v.next = 0,
                                 v.finish, IF v.end = "" THEN "ok" ELSE v.end, v.gone)
  BY <1>0, <1>5 DEF Seen, Sight
<1>6. ASSUME ev.type = "error"
      PROVE  Seen(v, ev) = Sight(v.open, v.next, v.broken \/ v.open # -1, v.finish, "error", v.gone)
  BY <1>0, <1>6 DEF Seen, Sight
<1> QED BY <1>1, <1>2, <1>3, <1>4, <1>5, <1>6

LEMMA SightType ==
    ASSUME NEW o \in Int, NEW n \in Int, NEW b \in BOOLEAN, NEW f \in Words,
           NEW d \in {"", "ok", "error"}, NEW g \in BOOLEAN
    PROVE  /\ Sight(o, n, b, f, d, g) \in Client
           /\ Sight(o, n, b, f, d, g).open = o
           /\ Sight(o, n, b, f, d, g).next = n
           /\ Sight(o, n, b, f, d, g).broken = b
           /\ Sight(o, n, b, f, d, g).end = d
           /\ Sight(o, n, b, f, d, g).gone = g
<1> HIDE DEF Words
<1> QED BY DEF Sight, Client

LEMMA SeenType ==
    ASSUME NEW v \in Client, NEW ev \in BlockEvents
    PROVE  Seen(v, ev) \in Client /\ Seen(v, ev).gone = v.gone
<1>1. ev.index \in Int /\ ev.what \in Words /\ ev.type \in EventTypes
  BY DEF BlockEvents
<1>2. /\ v.open \in Int /\ v.next \in Int /\ v.finish \in Words
      /\ v.end \in {"", "ok", "error"} /\ v.gone \in BOOLEAN /\ v.broken \in BOOLEAN
  BY DEF Client
<1> HIDE DEF Words, Client
<1>3. CASE ev.type = "start"
  <2>1. Seen(v, ev) = Sight(ev.index, ev.index + 1, v.broken \/ v.open # -1 \/ ev.index # v.next, v.finish, v.end, v.gone)
    BY <1>3, SeenForms
  <2>2. Sight(ev.index, ev.index + 1, v.broken \/ v.open # -1 \/ ev.index # v.next, v.finish, v.end, v.gone) \in Client
    <3> DEFINE b == v.broken \/ v.open # -1 \/ ev.index # v.next
               o == ev.index
               n == ev.index + 1
    <3>1. b \in BOOLEAN
      OBVIOUS
    <3>2. o \in Int /\ n \in Int
      <4>1. ev.index \in Int /\ v.next \in Int
        BY <1>1, <1>2
      <4> QED BY ONLY <4>1
    <3> HIDE DEF b, o, n
    <3>3. Sight(o, n, b, v.finish, v.end, v.gone) \in Client
      BY <1>2, <3>1, <3>2 DEF Sight, Client
    <3> QED BY <3>3 DEF b, o, n
  <2>3. Sight(ev.index, ev.index + 1, v.broken \/ v.open # -1 \/ ev.index # v.next, v.finish, v.end, v.gone).gone = v.gone
    BY DEF Sight
  <2> QED BY <2>1, <2>2, <2>3
<1>4. CASE ev.type = "delta"
  <2>1. Seen(v, ev) = Sight(v.open, v.next, v.broken \/ v.open # ev.index, v.finish, v.end, v.gone)
    BY <1>4, SeenForms
  <2>2. Sight(v.open, v.next, v.broken \/ v.open # ev.index, v.finish, v.end, v.gone) \in Client
    BY <1>1, <1>2 DEF Sight, Client
  <2>3. Sight(v.open, v.next, v.broken \/ v.open # ev.index, v.finish, v.end, v.gone).gone = v.gone
    BY DEF Sight
  <2> QED BY <2>1, <2>2, <2>3
<1>5. CASE ev.type = "stop"
  <2>1. Seen(v, ev) = Sight(-1, v.next, v.broken \/ v.open # ev.index, v.finish, v.end, v.gone)
    BY <1>5, SeenForms
  <2>2. Sight(-1, v.next, v.broken \/ v.open # ev.index, v.finish, v.end, v.gone) \in Client
    <3> DEFINE b == v.broken \/ v.open # ev.index
               o == -1
               n == v.next
    <3>1. b \in BOOLEAN
      OBVIOUS
    <3>2. o \in Int /\ n \in Int
      <4>1. ev.index \in Int /\ v.next \in Int
        BY <1>1, <1>2
      <4> QED BY ONLY <4>1
    <3> HIDE DEF b, o, n
    <3>3. Sight(o, n, b, v.finish, v.end, v.gone) \in Client
      BY <1>2, <3>1, <3>2 DEF Sight, Client
    <3> QED BY <3>3 DEF b, o, n
  <2>3. Sight(-1, v.next, v.broken \/ v.open # ev.index, v.finish, v.end, v.gone).gone = v.gone
    BY DEF Sight
  <2> QED BY <2>1, <2>2, <2>3
<1>6. CASE ev.type = "message_delta"
  <2>1. Seen(v, ev) = Sight(v.open, v.next, v.broken, ev.what, v.end, v.gone)
    BY <1>6, SeenForms
  <2>2. Sight(v.open, v.next, v.broken, ev.what, v.end, v.gone) \in Client
    BY <1>1, <1>2 DEF Sight, Client
  <2>3. Sight(v.open, v.next, v.broken, ev.what, v.end, v.gone).gone = v.gone
    BY DEF Sight
  <2> QED BY <2>1, <2>2, <2>3
<1>7. CASE ev.type = "message_stop"
  <2>1. Seen(v, ev) = Sight(v.open, v.next, v.broken \/ v.open # -1 \/ v.next = 0, v.finish, IF v.end = "" THEN "ok" ELSE v.end, v.gone)
    BY <1>7, SeenForms
  <2>2. Sight(v.open, v.next, v.broken \/ v.open # -1 \/ v.next = 0, v.finish, IF v.end = "" THEN "ok" ELSE v.end, v.gone) \in Client
    BY <1>1, <1>2 DEF Sight, Client
  <2>3. Sight(v.open, v.next, v.broken \/ v.open # -1 \/ v.next = 0, v.finish, IF v.end = "" THEN "ok" ELSE v.end, v.gone).gone = v.gone
    BY DEF Sight
  <2> QED BY <2>1, <2>2, <2>3
<1>8. CASE ev.type = "error"
  <2>1. Seen(v, ev) = Sight(v.open, v.next, v.broken \/ v.open # -1, v.finish, "error", v.gone)
    BY <1>8, SeenForms
  <2>2. Sight(v.open, v.next, v.broken \/ v.open # -1, v.finish, "error", v.gone) \in Client
    BY <1>1, <1>2 DEF Sight, Client
  <2>3. Sight(v.open, v.next, v.broken \/ v.open # -1, v.finish, "error", v.gone).gone = v.gone
    BY DEF Sight
  <2> QED BY <2>1, <2>2, <2>3
<1> QED BY <1>1, <1>3, <1>4, <1>5, <1>6, <1>7, <1>8 DEF EventTypes

LEMMA WriterFields ==
    ASSUME NEW wr \in Writers
    PROVE  /\ wr.w \in Bridger /\ wr.a \in Answer /\ wr.v \in Client
           /\ wr.told \subseteq EventTypes
           /\ wr.late \in BOOLEAN /\ wr.v.gone \in BOOLEAN
           /\ wr.w.kind \in {"", "text", "tool"} /\ wr.w.index \in Nat /\ wr.w.next \in Nat
<1>1. wr.w \in Bridger /\ wr.a \in Answer /\ wr.v \in Client /\ wr.late \in BOOLEAN
  BY DEF Writers
<1>2. wr.told \subseteq EventTypes
  BY DEF Writers
<1>3. wr.v.gone \in BOOLEAN
  BY <1>1 DEF Client
<1>4. wr.w.kind \in {"", "text", "tool"} /\ wr.w.index \in Nat /\ wr.w.next \in Nat
  BY <1>1 DEF Bridger
<1> QED BY <1>1, <1>2, <1>3, <1>4

LEMMA WriterForm ==
    ASSUME NEW w \in Bridger, NEW a \in Answer, NEW v \in Client,
           NEW t \in SUBSET EventTypes, NEW l \in BOOLEAN
    PROVE  [w |-> w, a |-> a, v |-> v, told |-> t, late |-> l] \in Writers
<1> HIDE DEF Bridger, Answer, Client, EventTypes
<1> QED BY DEF Writers

LEMMA WritesForm ==
    ASSUME NEW wr \in Writers, NEW ev \in BlockEvents
    PROVE  /\ Writes(wr, ev) \in Writers
           /\ Writes(wr, ev).w = wr.w
           /\ Writes(wr, ev).late = wr.late
           /\ Writes(wr, ev).v.gone = wr.v.gone
           /\ wr.told \subseteq Writes(wr, ev).told
           /\ Writes(wr, ev).told \subseteq wr.told \cup {ev.type}
           /\ ~wr.late => Writes(wr, ev).a = Fed(wr.a, ev) /\ ev.type \in Writes(wr, ev).told
           /\ wr.v.gone => Writes(wr, ev).v = wr.v
           /\ (~wr.v.gone /\ ~wr.late) => Writes(wr, ev).v = Seen(wr.v, ev)
<1>1. ev.type \in EventTypes
  BY DEF BlockEvents
<1> HIDE DEF Writers, BlockEvents, EventTypes
<1>2. CASE wr.late /\ wr.told # {}
  <2>1. Writes(wr, ev) = wr
    BY <1>2 DEF Writes
  <2> QED BY <1>2, <2>1
<1>3. CASE ~(wr.late /\ wr.told # {})
  <2> DEFINE v == IF wr.v.gone THEN wr.v ELSE Seen(wr.v, ev)
             t == wr.told \cup {ev.type}
  <2>1. Writes(wr, ev) = [w |-> wr.w, a |-> Fed(wr.a, ev), v |-> v, told |-> t, late |-> wr.late]
    BY <1>3 DEF Writes
  <2>2. v \in Client /\ v.gone = wr.v.gone
    BY WriterFields, SeenType
  <2>3. t \in SUBSET EventTypes
    BY <1>1, WriterFields
  <2>4. Fed(wr.a, ev) \in Answer
    BY WriterFields, FedType
  <2>5. wr.v.gone => v = wr.v
    OBVIOUS
  <2>6. ~wr.v.gone => v = Seen(wr.v, ev)
    OBVIOUS
  <2>7. wr.told \subseteq t /\ t \subseteq wr.told \cup {ev.type} /\ ev.type \in t
    OBVIOUS
  <2> HIDE DEF v, t
  <2>8. Writes(wr, ev) \in Writers
    <3>1. wr.w \in Bridger /\ wr.late \in BOOLEAN
      BY WriterFields
    <3> HIDE DEF Bridger, Answer, Client
    <3> QED BY ONLY <2>1, <2>2, <2>3, <2>4, <3>1 DEF Writers
  <2>9. /\ Writes(wr, ev).w = wr.w /\ Writes(wr, ev).late = wr.late
        /\ Writes(wr, ev).v = v /\ Writes(wr, ev).told = t /\ Writes(wr, ev).a = Fed(wr.a, ev)
    BY <2>1
  <2> QED BY <2>2, <2>5, <2>6, <2>7, <2>8, <2>9
<1> QED BY <1>2, <1>3

\* The client follows the writer: the block it sees open is the writer's.
Follows(w, v) ==
    /\ ~v.broken
    /\ v.gone \/ (v.open = (IF w.kind = "" THEN -1 ELSE w.index) /\ v.next = w.next)
Numbered(w) == w.index <= w.next /\ (w.kind # "" => w.index < w.next)
Sound(wr) == wr \in Writers /\ Numbered(wr.w) /\ (wr.late => wr.v.gone) /\ Follows(wr.w, wr.v)

\* What every operation of the writer leaves of the one before it.
Carried(wr, o) ==
    /\ o.late = wr.late /\ o.v.gone = wr.v.gone
    /\ wr.told \subseteq o.told

LEMMA BecomesForm ==
    ASSUME NEW wr \in Writers, NEW w \in Bridger
    PROVE  /\ Becomes(wr, w) \in Writers
           /\ Becomes(wr, w).w = w
           /\ Becomes(wr, w).a = wr.a
           /\ Becomes(wr, w).v = wr.v
           /\ Becomes(wr, w).told = wr.told
           /\ Becomes(wr, w).late = wr.late
<1>1. Becomes(wr, w) \in Writers
  BY WriterFields, WriterForm DEF Becomes
<1> HIDE DEF Writers, Bridger
<1> QED BY <1>1 DEF Becomes

LEMMA EventForms ==
    ASSUME NEW i \in Nat, NEW s \in Words
    PROVE  /\ BlockEvent("start", i, s) \in BlockEvents /\ BlockEvent("start", i, s).type = "start"
           /\ BlockEvent("delta", i, s) \in BlockEvents /\ BlockEvent("delta", i, s).type = "delta"
           /\ BlockEvent("stop", i, s) \in BlockEvents /\ BlockEvent("stop", i, s).type = "stop"
           /\ BlockEvent("message_delta", i, s) \in BlockEvents
           /\ BlockEvent("message_delta", i, s).type = "message_delta"
           /\ BlockEvent("message_stop", i, s) \in BlockEvents
           /\ BlockEvent("message_stop", i, s).type = "message_stop"
           /\ BlockEvent("error", i, s) \in BlockEvents /\ BlockEvent("error", i, s).type = "error"
<1>1. \A t \in EventTypes : BlockEvent(t, i, s) \in BlockEvents /\ BlockEvent(t, i, s).type = t
  <2> HIDE DEF EventTypes, Words
  <2> QED BY DEF BlockEvents, BlockEvent
<1> QED BY <1>1, Spelled

LEMMA BridgerFields ==
    ASSUME NEW w \in Bridger
    PROVE  /\ w.tool \in Int /\ w.index \in Nat /\ w.next \in Nat /\ w.stop \in Words
           /\ w.usage \in BOOLEAN /\ w.kind \in {"", "text", "tool"}
<1> HIDE DEF Words
<1> QED BY DEF Bridger

LEMMA BridgerForm ==
    ASSUME NEW w \in Bridger, NEW k
    PROVE  [w EXCEPT !.kind = k] =
              [kind |-> k, tool |-> w.tool, index |-> w.index, next |-> w.next,
               stop |-> w.stop, usage |-> w.usage]
<1>1. w = [kind |-> w.kind, tool |-> w.tool, index |-> w.index, next |-> w.next,
           stop |-> w.stop, usage |-> w.usage]
  <2> HIDE DEF Words
  <2> QED BY DEF Bridger
<1> QED BY ONLY <1>1

LEMMA BridgerType ==
    ASSUME NEW k \in {"", "text", "tool"}, NEW t \in Int, NEW i \in Nat, NEW n \in Nat,
           NEW s \in Words, NEW u \in BOOLEAN
    PROVE  [kind |-> k, tool |-> t, index |-> i, next |-> n, stop |-> s, usage |-> u] \in Bridger
<1> HIDE DEF Words
<1> QED BY DEF Bridger

\* What a client that follows the writer sees of its events.
LEMMA SeesStart ==
    ASSUME NEW v \in Client, NEW i \in Nat, NEW s, ~v.broken, v.open = -1, v.next = i
    PROVE  LET x == Seen(v, BlockEvent("start", i, s))
           IN ~x.broken /\ x.open = i /\ x.next = i + 1 /\ x.end = v.end
<1> DEFINE b == v.broken \/ v.open # -1 \/ i # v.next
<1>1. ~b
  OBVIOUS
<1>2. Seen(v, BlockEvent("start", i, s)) = Sight(i, i + 1, b, v.finish, v.end, v.gone)
  BY SeenForms DEF BlockEvent
<1> HIDE DEF b
<1> QED BY <1>1, <1>2 DEF Sight

LEMMA SeesDelta ==
    ASSUME NEW v \in Client, NEW i \in Nat, NEW s, ~v.broken, v.open = i
    PROVE  LET x == Seen(v, BlockEvent("delta", i, s))
           IN ~x.broken /\ x.open = i /\ x.next = v.next /\ x.end = v.end
<1> DEFINE b == v.broken \/ v.open # i
<1>1. ~b
  OBVIOUS
<1>2. Seen(v, BlockEvent("delta", i, s)) = Sight(v.open, v.next, b, v.finish, v.end, v.gone)
  BY SeenForms DEF BlockEvent
<1> HIDE DEF b
<1> QED BY <1>1, <1>2 DEF Sight

LEMMA SeesStop ==
    ASSUME NEW v \in Client, NEW i \in Nat, NEW s, ~v.broken, v.open = i
    PROVE  LET x == Seen(v, BlockEvent("stop", i, s))
           IN ~x.broken /\ x.open = -1 /\ x.next = v.next /\ x.end = v.end
<1> DEFINE b == v.broken \/ v.open # i
<1>1. ~b
  OBVIOUS
<1>2. Seen(v, BlockEvent("stop", i, s)) = Sight(-1, v.next, b, v.finish, v.end, v.gone)
  BY SeenForms DEF BlockEvent
<1> HIDE DEF b
<1> QED BY <1>1, <1>2 DEF Sight

LEMMA SeesEnd ==
    ASSUME NEW v \in Client, NEW s
    PROVE  /\ LET x == Seen(v, BlockEvent("message_delta", 0, s))
              IN x.broken = v.broken /\ x.open = v.open /\ x.next = v.next /\ x.end = v.end
           /\ LET x == Seen(v, BlockEvent("message_stop", 0, s))
              IN /\ x.broken = (v.broken \/ v.open # -1 \/ v.next = 0)
                 /\ x.open = v.open /\ x.next = v.next /\ x.end = IF v.end = "" THEN "ok" ELSE v.end
           /\ LET x == Seen(v, BlockEvent("error", 0, s))
              IN /\ x.broken = (v.broken \/ v.open # -1)
                 /\ x.open = v.open /\ x.next = v.next /\ x.end = "error"
<1> DEFINE b == v.broken \/ v.open # -1 \/ v.next = 0
           c == v.broken \/ v.open # -1
           d == IF v.end = "" THEN "ok" ELSE v.end
<1>1. Seen(v, BlockEvent("message_delta", 0, s)) = Sight(v.open, v.next, v.broken, s, v.end, v.gone)
  <2> DEFINE ev == BlockEvent("message_delta", 0, s)
  <2>1. ev.type = "message_delta" /\ ev.what = s
    BY DEF BlockEvent
  <2> HIDE DEF ev
  <2>2. Seen(v, ev) = Sight(v.open, v.next, v.broken, s, v.end, v.gone)
    BY <2>1, SeenForms
  <2> QED BY <2>2 DEF ev
<1>2. Seen(v, BlockEvent("message_stop", 0, s)) = Sight(v.open, v.next, b, v.finish, d, v.gone)
  BY SeenForms DEF BlockEvent
<1>3. Seen(v, BlockEvent("error", 0, s)) = Sight(v.open, v.next, c, v.finish, "error", v.gone)
  BY SeenForms DEF BlockEvent
<1> HIDE DEF b, c, d
<1>4. LET x == Seen(v, BlockEvent("message_delta", 0, s))
      IN x.broken = v.broken /\ x.open = v.open /\ x.next = v.next /\ x.end = v.end
  BY <1>1 DEF Sight
<1>5. LET x == Seen(v, BlockEvent("message_stop", 0, s))
      IN x.broken = b /\ x.open = v.open /\ x.next = v.next /\ x.end = d
  BY <1>2 DEF Sight
<1>6. LET x == Seen(v, BlockEvent("error", 0, s))
      IN x.broken = c /\ x.open = v.open /\ x.next = v.next /\ x.end = "error"
  BY <1>3 DEF Sight
<1> QED BY <1>4, <1>5, <1>6 DEF b, c, d

\* Stopping a block, reading it on the side adds nothing.
LEMMA FedOther ==
    ASSUME NEW a, NEW ev, ev.type \notin {"start", "delta"} \/ (ev.type = "start" /\ ev.what # "tool")
    PROVE  Fed(a, ev) = a
BY DEF Fed
LEMMA Closed ==
    ASSUME NEW w \in Bridger
    PROVE  /\ [w EXCEPT !.kind = ""] \in Bridger
           /\ [w EXCEPT !.kind = ""].kind = ""
           /\ [w EXCEPT !.kind = ""].index = w.index
           /\ [w EXCEPT !.kind = ""].next = w.next
           /\ [w EXCEPT !.kind = ""].usage = w.usage
           /\ [w EXCEPT !.kind = ""].stop = w.stop
<1>1. [w EXCEPT !.kind = ""] \in Bridger
  <2> HIDE DEF Words
  <2> QED BY DEF Bridger
<1>2. [w EXCEPT !.kind = ""] = [kind |-> "", tool |-> w.tool, index |-> w.index, next |-> w.next,
                                stop |-> w.stop, usage |-> w.usage]
  BY BridgerForm
<1> QED BY <1>1, <1>2

LEMMA SoundFields ==
    ASSUME NEW wr, Sound(wr)
    PROVE  /\ wr \in Writers /\ wr.w \in Bridger /\ wr.v \in Client /\ wr.a \in Answer
           /\ wr.v.gone \in BOOLEAN /\ wr.late \in BOOLEAN
           /\ wr.late => wr.v.gone
           /\ ~wr.v.broken
           /\ ~wr.v.gone => /\ wr.v.open = IF wr.w.kind = "" THEN -1 ELSE wr.w.index
                            /\ wr.v.next = wr.w.next
BY WriterFields DEF Sound, Follows

\* An operation that writes one event and turns the writer into w is sound when
\* the client follows.
LEMMA SoundStep ==
    ASSUME NEW wr, Sound(wr), NEW ev \in BlockEvents, NEW w \in Bridger, Numbered(w),
           ~wr.v.gone => Follows(w, Seen(wr.v, ev))
    PROVE  /\ Sound(Becomes(Writes(wr, ev), w))
           /\ Carried(wr, Becomes(Writes(wr, ev), w))
           /\ Becomes(Writes(wr, ev), w).w = w
           /\ Becomes(Writes(wr, ev), w).told \subseteq wr.told \cup {ev.type}
           /\ ~wr.late => /\ Becomes(Writes(wr, ev), w).a = Fed(wr.a, ev)
                          /\ ev.type \in Becomes(Writes(wr, ev), w).told
           /\ ~wr.v.gone => Becomes(Writes(wr, ev), w).v = Seen(wr.v, ev)
           /\ wr.v.gone => Becomes(Writes(wr, ev), w).v = wr.v
<1> DEFINE x == Writes(wr, ev)
           o == Becomes(x, w)
<1>1. /\ wr \in Writers /\ (wr.late => wr.v.gone) /\ ~wr.v.broken
  BY SoundFields
<1>2. /\ x \in Writers /\ x.late = wr.late /\ x.v.gone = wr.v.gone
      /\ wr.told \subseteq x.told /\ x.told \subseteq wr.told \cup {ev.type}
      /\ ~wr.late => x.a = Fed(wr.a, ev) /\ ev.type \in x.told
      /\ wr.v.gone => x.v = wr.v
      /\ (~wr.v.gone /\ ~wr.late) => x.v = Seen(wr.v, ev)
  BY <1>1, WritesForm
<1> HIDE DEF x
<1>3. /\ o \in Writers /\ o.w = w /\ o.a = x.a /\ o.v = x.v /\ o.told = x.told /\ o.late = x.late
  BY <1>2, BecomesForm
<1> HIDE DEF o
<1>4. ~wr.v.gone => o.v = Seen(wr.v, ev)
  BY <1>1, <1>2, <1>3
<1>5. Follows(w, o.v)
  <2>1. CASE wr.v.gone
    BY <2>1, <1>1, <1>2, <1>3 DEF Follows
  <2>2. CASE ~wr.v.gone
    BY <2>2, <1>4
  <2> QED BY <2>1, <2>2
<1>6. o.late => o.v.gone
  BY <1>1, <1>2, <1>3
<1>7. Sound(o)
  BY <1>3, <1>5, <1>6 DEF Sound
<1>8. Carried(wr, o)
  BY <1>2, <1>3 DEF Carried
<1>9. o.told \subseteq wr.told \cup {ev.type} /\ (~wr.late => o.a = Fed(wr.a, ev) /\ ev.type \in o.told)
  BY <1>2, <1>3
<1>10. wr.v.gone => o.v = wr.v
  BY <1>2, <1>3
<1> QED BY <1>3, <1>4, <1>7, <1>8, <1>9, <1>10 DEF o, x

LEMMA CloseOpenForm ==
    ASSUME NEW wr, Sound(wr)
    PROVE  /\ Sound(CloseOpen(wr)) /\ Carried(wr, CloseOpen(wr))
           /\ CloseOpen(wr).w = [wr.w EXCEPT !.kind = ""]
           /\ CloseOpen(wr).v.end = wr.v.end
           /\ CloseOpen(wr).told \subseteq wr.told \cup {"stop"}
           /\ ~wr.late => CloseOpen(wr).a = wr.a
<1>1. wr.w \in Bridger /\ wr.v \in Client
  BY SoundFields
<1> DEFINE w == [wr.w EXCEPT !.kind = ""]
           ev == BlockEvent("stop", wr.w.index, "")
<1>2. /\ w \in Bridger /\ w.kind = "" /\ w.index = wr.w.index /\ w.next = wr.w.next
  BY <1>1, Closed
<1>3. CASE wr.w.kind = ""
  <2>1. CloseOpen(wr) = wr
    BY <1>3 DEF CloseOpen
  <2>2. w = wr.w
    <3> HIDE DEF Words
    <3> QED BY <1>1, <1>3 DEF Bridger
  <2> QED BY <2>1, <2>2 DEF Carried
<1>4. CASE wr.w.kind # ""
  <2>1. CloseOpen(wr) = Becomes(Writes(wr, ev), w)
    BY <1>4 DEF CloseOpen
  <2>2. wr.w.index \in Nat
    BY <1>1, BridgerFields
  <2>4. ev \in BlockEvents /\ ev.type = "stop"
    <3>1. "" \in Words
      BY Spelled
    <3> QED BY ONLY <2>2, <3>1, EventForms
  <2>5. Numbered(w)
    BY <1>2, <1>4 DEF Sound, Numbered
  <2>6. ASSUME ~wr.v.gone
        PROVE  Follows(w, Seen(wr.v, ev)) /\ Seen(wr.v, ev).end = wr.v.end
    <3>1. ~wr.v.broken /\ wr.v.open = wr.w.index /\ wr.v.next = wr.w.next
      BY <1>4, <2>6, SoundFields
    <3>2. /\ ~Seen(wr.v, ev).broken /\ Seen(wr.v, ev).open = -1
          /\ Seen(wr.v, ev).next = wr.v.next /\ Seen(wr.v, ev).end = wr.v.end
      BY <1>1, <2>2, <3>1, SeesStop
    <3> HIDE DEF w, ev
    <3> QED BY <1>2, <3>1, <3>2 DEF Follows
  <2>7. Fed(wr.a, ev) = wr.a
    BY <2>4, FedOther
  <2> HIDE DEF w, ev
  <2> DEFINE o == Becomes(Writes(wr, ev), w)
  <2>8. /\ Sound(o) /\ Carried(wr, o) /\ o.w = w /\ o.told \subseteq wr.told \cup {"stop"}
        /\ ~wr.late => o.a = Fed(wr.a, ev)
        /\ ~wr.v.gone => o.v = Seen(wr.v, ev)
        /\ wr.v.gone => o.v = wr.v
    <3>1. ~wr.v.gone => Follows(w, Seen(wr.v, ev))
      BY <2>6
    <3>2. w \in Bridger
      BY <1>2
    <3>3. ev \in BlockEvents /\ ev.type = "stop"
      BY <2>4
    <3> QED BY ONLY Sound(wr), <3>1, <3>2, <3>3, <2>5, SoundStep
  <2> HIDE DEF o
  <2>9. o.v.end = wr.v.end
    BY <2>6, <2>8
  <2> QED BY <2>1, <2>7, <2>8, <2>9 DEF o, w
<1> QED BY <1>3, <1>4

LEMMA OpenBlockForm ==
    ASSUME NEW wr, Sound(wr), NEW k \in {"text", "tool"}, NEW t \in Int
    PROVE  /\ Sound(OpenBlock(wr, k, t)) /\ Carried(wr, OpenBlock(wr, k, t))
           /\ OpenBlock(wr, k, t).w =
                 [kind |-> k, tool |-> t, index |-> wr.w.next, next |-> wr.w.next + 1,
                  stop |-> wr.w.stop, usage |-> wr.w.usage]
           /\ OpenBlock(wr, k, t).v.end = wr.v.end
           /\ OpenBlock(wr, k, t).told \subseteq wr.told \cup {"stop", "start"}
           /\ ~wr.late => OpenBlock(wr, k, t).a = Fed(wr.a, BlockEvent("start", wr.w.next, k))
<1> DEFINE c == CloseOpen(wr)
           ev == BlockEvent("start", wr.w.next, k)
           w == [kind |-> k, tool |-> t, index |-> wr.w.next, next |-> wr.w.next + 1,
                 stop |-> wr.w.stop, usage |-> wr.w.usage]
           o == Becomes(Writes(c, ev), w)
<1>1. wr.w \in Bridger
  BY SoundFields
<1>2. /\ Sound(c) /\ Carried(wr, c) /\ c.w = [wr.w EXCEPT !.kind = ""] /\ c.v.end = wr.v.end
      /\ c.told \subseteq wr.told \cup {"stop"} /\ (~wr.late => c.a = wr.a)
  BY CloseOpenForm
<1>3. c.v \in Client /\ c.w.kind = "" /\ c.w.next = wr.w.next
  BY <1>1, <1>2, Closed, SoundFields, ZenonT(40)
<1>4. wr.w.next \in Nat /\ wr.w.stop \in Words /\ wr.w.usage \in BOOLEAN
  BY <1>1, BridgerFields
<1>5. wr.w.next + 1 \in Nat /\ wr.w.next \in Int /\ wr.w.next < wr.w.next + 1
  <2>1. wr.w.next \in Nat
    BY <1>4
  <2> QED BY ONLY <2>1
<1>6. /\ w \in Bridger /\ w.kind = k /\ w.index = wr.w.next /\ w.next = wr.w.next + 1
  <2>1. k \in {"", "text", "tool"}
    OBVIOUS
  <2>2. w \in Bridger
    BY <1>4, <1>5, <2>1, BridgerType
  <2> QED BY <2>2
<1>7. ev \in BlockEvents /\ ev.type = "start"
  <2>1. k \in Words
    BY Spelled
  <2>2. wr.w.next \in Nat
    BY <1>4
  <2> QED BY ONLY <2>1, <2>2, EventForms
<1>8. OpenBlock(wr, k, t) = o
  BY DEF OpenBlock
<1>9. Numbered(w)
  <2>1. w.index = wr.w.next /\ w.next = wr.w.next + 1
    BY <1>6
  <2>2. wr.w.next \in Nat
    BY <1>4
  <2> HIDE DEF w
  <2>3. w.index <= w.next /\ w.index < w.next
    BY ONLY <2>1, <2>2
  <2> QED BY ONLY <2>3 DEF Numbered
<1> HIDE DEF c
<1>10. ASSUME ~c.v.gone
       PROVE  Follows(w, Seen(c.v, ev)) /\ Seen(c.v, ev).end = c.v.end
  <2>1. ~c.v.broken /\ c.v.open = -1 /\ c.v.next = wr.w.next
    BY <1>2, <1>3, <1>10, SoundFields
  <2>2. /\ ~Seen(c.v, ev).broken /\ Seen(c.v, ev).open = wr.w.next
        /\ Seen(c.v, ev).next = wr.w.next + 1 /\ Seen(c.v, ev).end = c.v.end
    BY <1>3, <1>4, <2>1, SeesStart
  <2> HIDE DEF w, ev
  <2> QED BY <1>6, <2>1, <2>2 DEF Follows
<1> HIDE DEF w, ev
<1>11. /\ Sound(o) /\ Carried(c, o) /\ o.w = w /\ o.told \subseteq c.told \cup {"start"}
       /\ ~c.late => o.a = Fed(c.a, ev)
       /\ ~c.v.gone => o.v = Seen(c.v, ev)
       /\ c.v.gone => o.v = c.v
  <2>1. ~c.v.gone => Follows(w, Seen(c.v, ev))
    BY <1>10
  <2>2. w \in Bridger
    BY <1>6
  <2>3. Sound(c)
    BY <1>2
  <2> QED BY ONLY <1>7, <1>9, <2>1, <2>2, <2>3, SoundStep
<1> HIDE DEF o
<1>12. o.v.end = wr.v.end
  BY <1>2, <1>10, <1>11
<1>13. Carried(wr, o)
  BY <1>2, <1>11 DEF Carried
<1>14. o.told \subseteq wr.told \cup {"stop", "start"}
  BY <1>2, <1>11
<1>15. ~wr.late => o.a = Fed(wr.a, ev)
  BY <1>2, <1>11 DEF Carried
<1> QED BY <1>8, <1>11, <1>12, <1>13, <1>14, <1>15 DEF ev, w

LEMMA SoundWrites ==
    ASSUME NEW wr, Sound(wr), NEW ev \in BlockEvents,
           ~wr.v.gone => Follows(wr.w, Seen(wr.v, ev))
    PROVE  /\ Sound(Writes(wr, ev)) /\ Carried(wr, Writes(wr, ev))
           /\ Writes(wr, ev).w = wr.w
           /\ Writes(wr, ev).told \subseteq wr.told \cup {ev.type}
           /\ ~wr.late => Writes(wr, ev).a = Fed(wr.a, ev) /\ ev.type \in Writes(wr, ev).told
           /\ ~wr.v.gone => Writes(wr, ev).v = Seen(wr.v, ev)
           /\ wr.v.gone => Writes(wr, ev).v = wr.v
<1> DEFINE x == Writes(wr, ev)
<1>1. /\ wr \in Writers /\ (wr.late => wr.v.gone) /\ ~wr.v.broken
  BY SoundFields
<1>2. /\ x \in Writers /\ x.late = wr.late /\ x.v.gone = wr.v.gone /\ x.w = wr.w
      /\ wr.told \subseteq x.told /\ x.told \subseteq wr.told \cup {ev.type}
      /\ ~wr.late => x.a = Fed(wr.a, ev) /\ ev.type \in x.told
      /\ wr.v.gone => x.v = wr.v
      /\ (~wr.v.gone /\ ~wr.late) => x.v = Seen(wr.v, ev)
  BY <1>1, WritesForm
<1> HIDE DEF x
<1>3. ~wr.v.gone => x.v = Seen(wr.v, ev)
  BY <1>1, <1>2
<1>4. Follows(x.w, x.v)
  <2>1. CASE wr.v.gone
    BY <2>1, <1>1, <1>2 DEF Follows
  <2>2. CASE ~wr.v.gone
    BY <2>2, <1>2, <1>3
  <2> QED BY <2>1, <2>2
<1>5. Sound(x)
  BY <1>1, <1>2, <1>4 DEF Sound
<1>6. Carried(wr, x)
  BY <1>2 DEF Carried
<1> QED BY <1>2, <1>3, <1>5, <1>6 DEF x

\* What opening a block and writing into it leave alone.
Proper(wr, o) ==
    /\ Sound(o) /\ Carried(wr, o)
    /\ o.w.usage = wr.w.usage /\ o.v.end = wr.v.end
    /\ o.told \subseteq wr.told \cup {"start", "delta", "stop"}

LEMMA ProperStays == ASSUME NEW wr, Sound(wr) PROVE Proper(wr, wr)
BY DEF Proper, Carried

LEMMA ProperChains ==
    ASSUME NEW a, NEW b, NEW c, Proper(a, b), Proper(b, c)
    PROVE  Proper(a, c)
BY DEF Proper, Carried

LEMMA OpenBlockProper ==
    ASSUME NEW wr, Sound(wr), NEW k \in {"text", "tool"}, NEW t \in Int
    PROVE  /\ Proper(wr, OpenBlock(wr, k, t))
           /\ OpenBlock(wr, k, t).w.kind = k /\ OpenBlock(wr, k, t).w.tool = t
           /\ OpenBlock(wr, k, t).w.index = wr.w.next
           /\ OpenBlock(wr, k, t).w.next = wr.w.next + 1
           /\ ~wr.late => OpenBlock(wr, k, t).a = Fed(wr.a, BlockEvent("start", wr.w.next, k))
<1> DEFINE o == OpenBlock(wr, k, t)
<1>1. /\ Sound(o) /\ Carried(wr, o) /\ o.v.end = wr.v.end
      /\ o.told \subseteq wr.told \cup {"stop", "start"}
      /\ ~wr.late => o.a = Fed(wr.a, BlockEvent("start", wr.w.next, k))
  BY OpenBlockForm
<1>2. o.w = [kind |-> k, tool |-> t, index |-> wr.w.next, next |-> wr.w.next + 1,
             stop |-> wr.w.stop, usage |-> wr.w.usage]
  BY OpenBlockForm
<1> HIDE DEF o
<1>3. o.w.kind = k /\ o.w.tool = t /\ o.w.index = wr.w.next /\ o.w.next = wr.w.next + 1
      /\ o.w.usage = wr.w.usage
  BY ONLY <1>2
<1>4. Proper(wr, o)
  BY <1>1, <1>3 DEF Proper
<1> QED BY <1>1, <1>3, <1>4 DEF o

LEMMA OpenTextForm ==
    ASSUME NEW wr, Sound(wr)
    PROVE  /\ Proper(wr, OpenText(wr))
           /\ OpenText(wr).w.kind = "text"
           /\ wr.w.next <= OpenText(wr).w.next /\ OpenText(wr).w.next # 0
           /\ ~wr.late => OpenText(wr).a = wr.a
<1>1. wr.w.next \in Nat /\ wr.w.index \in Nat
  BY SoundFields, BridgerFields
<1>2. CASE wr.w.kind = "text"
  <2>1. OpenText(wr) = wr
    BY <1>2 DEF OpenText
  <2>2. wr.w.next # 0
    BY <1>1, <1>2 DEF Sound, Numbered
  <2>3. wr.w.next <= wr.w.next
    BY <1>1
  <2> QED BY <1>2, <2>1, <2>2, <2>3, ProperStays
<1>3. CASE wr.w.kind # "text"
  <2> DEFINE o == OpenBlock(wr, "text", -1)
  <2>1. OpenText(wr) = o
    BY <1>3 DEF OpenText
  <2>2. /\ Proper(wr, o) /\ o.w.kind = "text" /\ o.w.next = wr.w.next + 1
        /\ ~wr.late => o.a = Fed(wr.a, BlockEvent("start", wr.w.next, "text"))
    <3>1. "text" \in {"text", "tool"} /\ -1 \in Int
      OBVIOUS
    <3> QED BY ONLY Sound(wr), <3>1, OpenBlockProper
  <2>3. Fed(wr.a, BlockEvent("start", wr.w.next, "text")) = wr.a
    <3>1. /\ BlockEvent("start", wr.w.next, "text").type = "start"
          /\ BlockEvent("start", wr.w.next, "text").what # "tool"
      BY DEF BlockEvent
    <3> QED BY <3>1, FedOther
  <2>4. wr.w.next <= wr.w.next + 1 /\ wr.w.next + 1 # 0
    BY ONLY <1>1
  <2> HIDE DEF o
  <2> QED BY <2>1, <2>2, <2>3, <2>4
<1> QED BY <1>2, <1>3

LEMMA OpenToolForm ==
    ASSUME NEW wr, Sound(wr), NEW i \in Int
    PROVE  /\ Proper(wr, OpenTool(wr, i))
           /\ OpenTool(wr, i).w.kind = "tool" /\ OpenTool(wr, i).w.tool = i
           /\ (wr.w.kind = "tool" /\ wr.w.tool = i) => OpenTool(wr, i) = wr
           /\ ~(wr.w.kind = "tool" /\ wr.w.tool = i) =>
                 /\ OpenTool(wr, i).w.index = wr.w.next
                 /\ OpenTool(wr, i).w.next = wr.w.next + 1
                 /\ ~wr.late => OpenTool(wr, i).a = Fed(wr.a, BlockEvent("start", wr.w.next, "tool"))
<1>1. CASE wr.w.kind = "tool" /\ wr.w.tool = i
  <2>1. OpenTool(wr, i) = wr
    BY <1>1 DEF OpenTool
  <2> QED BY <1>1, <2>1, ProperStays
<1>2. CASE ~(wr.w.kind = "tool" /\ wr.w.tool = i)
  <2> DEFINE o == OpenBlock(wr, "tool", i)
  <2>1. OpenTool(wr, i) = o
    BY <1>2 DEF OpenTool
  <2>2. /\ Proper(wr, o) /\ o.w.kind = "tool" /\ o.w.tool = i
        /\ o.w.index = wr.w.next /\ o.w.next = wr.w.next + 1
        /\ ~wr.late => o.a = Fed(wr.a, BlockEvent("start", wr.w.next, "tool"))
    <3>1. "tool" \in {"text", "tool"}
      OBVIOUS
    <3> QED BY ONLY Sound(wr), i \in Int, <3>1, OpenBlockProper
  <2> HIDE DEF o
  <2> QED BY <1>2, <2>1, <2>2
<1> QED BY <1>1, <1>2

LEMMA DeltaForm ==
    ASSUME NEW wr, Sound(wr), wr.w.kind # "", NEW k \in {"text", "tool"}
    PROVE  /\ Proper(wr, Delta(wr, k))
           /\ Delta(wr, k).w = wr.w
           /\ ~wr.late => Delta(wr, k).a = Fed(wr.a, BlockEvent("delta", wr.w.index, k))
<1> DEFINE ev == BlockEvent("delta", wr.w.index, k)
           o == Writes(wr, ev)
<1>1. wr.w.index \in Nat /\ wr.v \in Client
  BY SoundFields, BridgerFields
<1>2. ev \in BlockEvents /\ ev.type = "delta"
  <2>1. k \in Words
    BY Spelled
  <2>2. wr.w.index \in Nat
    BY <1>1
  <2> QED BY ONLY <2>1, <2>2, EventForms
<1>3. ASSUME ~wr.v.gone
      PROVE  Follows(wr.w, Seen(wr.v, ev)) /\ Seen(wr.v, ev).end = wr.v.end
  <2>1. ~wr.v.broken /\ wr.v.open = wr.w.index /\ wr.v.next = wr.w.next
    BY <1>3, SoundFields
  <2>2. /\ ~Seen(wr.v, ev).broken /\ Seen(wr.v, ev).open = wr.w.index
        /\ Seen(wr.v, ev).next = wr.v.next /\ Seen(wr.v, ev).end = wr.v.end
    <3>1. ~wr.v.broken /\ wr.v.open = wr.w.index
      BY <2>1
    <3> QED BY ONLY <1>1, <3>1, SeesDelta DEF ev
  <2> HIDE DEF ev
  <2> QED BY <2>1, <2>2 DEF Follows
<1> HIDE DEF ev
<1>4. ~wr.v.gone => Follows(wr.w, Seen(wr.v, ev))
  BY <1>3
<1>5. /\ Sound(o) /\ Carried(wr, o) /\ o.w = wr.w /\ o.told \subseteq wr.told \cup {ev.type}
      /\ ~wr.late => o.a = Fed(wr.a, ev)
      /\ ~wr.v.gone => o.v = Seen(wr.v, ev)
      /\ wr.v.gone => o.v = wr.v
  BY <1>2, <1>4, SoundWrites
<1> HIDE DEF o
<1>6. o.v.end = wr.v.end
  BY <1>3, <1>5
<1>7. Proper(wr, o)
  BY <1>2, <1>5, <1>6 DEF Proper
<1> QED BY <1>5, <1>7 DEF o, ev, Delta

LEMMA NotedForm ==
    ASSUME NEW w \in Bridger, NEW c \in Chunks
    PROVE  /\ Noted(w, c) \in Bridger
           /\ Noted(w, c).kind = w.kind /\ Noted(w, c).tool = w.tool
           /\ Noted(w, c).index = w.index /\ Noted(w, c).next = w.next
           /\ Noted(w, c).usage = (w.usage \/ c.usage)
<1> DEFINE f == IF c.finish = "" THEN w.stop ELSE c.finish
           u == w.usage \/ c.usage
           y == [w EXCEPT !.stop = f]
<1>0. c.finish \in Words /\ w.stop \in Words
  <2> HIDE DEF Words, Part
  <2> QED BY DEF Chunks, Bridger
<1>1. f \in Words /\ u \in BOOLEAN
  BY <1>0
<1>2. Noted(w, c) = [y EXCEPT !.usage = u]
  BY DEF Noted, Bridger
<1> HIDE DEF f, u, Words
<1>3. /\ y \in Bridger /\ y.kind = w.kind /\ y.tool = w.tool /\ y.index = w.index /\ y.next = w.next
  BY <1>1 DEF Bridger
<1> HIDE DEF y
<1>4. /\ [y EXCEPT !.usage = u] \in Bridger /\ [y EXCEPT !.usage = u].kind = y.kind
      /\ [y EXCEPT !.usage = u].tool = y.tool
      /\ [y EXCEPT !.usage = u].index = y.index /\ [y EXCEPT !.usage = u].next = y.next
      /\ [y EXCEPT !.usage = u].usage = u
  BY <1>1, <1>3 DEF Bridger
<1> QED BY <1>2, <1>3, <1>4 DEF u

\* A call's part opens its block when it names the call, and is written into the
\* block that is open; a part of any other call is dropped.
LEMMA ToolDeltaForm ==
    ASSUME NEW wr, Sound(wr), NEW p \in Part
    PROVE  /\ Proper(wr, HandleToolDelta(wr, p))
           /\ p = NoCall => HandleToolDelta(wr, p) = wr
           /\ (p # NoCall /\ p.named /\ p.args = 0) => HandleToolDelta(wr, p) = OpenTool(wr, p.idx)
           /\ (p # NoCall /\ ~p.named /\ p.args = 1 /\ wr.w.kind = "tool" /\ wr.w.tool = p.idx) =>
                 HandleToolDelta(wr, p) = Delta(wr, "tool")
<1>1. p.idx \in Int /\ p.named \in BOOLEAN
  BY DEF Part
<1>2. CASE p = NoCall \/ Orphan(wr, p)
  <2>1. HandleToolDelta(wr, p) = wr
    BY <1>2 DEF HandleToolDelta
  <2>2. Orphan(wr, p) => ~p.named /\ (wr.w.kind # "tool" \/ wr.w.tool # p.idx)
    BY DEF Orphan
  <2> HIDE DEF NoCall, Part
  <2> QED BY <1>2, <2>1, <2>2, ProperStays
<1>3. CASE ~(p = NoCall \/ Orphan(wr, p))
  <2> DEFINE o == IF p.named THEN OpenTool(wr, p.idx) ELSE wr
  <2>1. HandleToolDelta(wr, p) = IF p.args = 0 THEN o ELSE Delta(o, "tool")
    BY <1>3 DEF HandleToolDelta
  <2>2. Proper(wr, o) /\ o.w.kind = "tool"
    <3>1. CASE p.named
      <4>1. p.idx \in Int
        BY <1>1
      <4>2. Proper(wr, OpenTool(wr, p.idx)) /\ OpenTool(wr, p.idx).w.kind = "tool"
        BY ONLY Sound(wr), <4>1, OpenToolForm
      <4> QED BY <3>1, <4>2
    <3>2. CASE ~p.named
      <4>1. wr.w.kind = "tool"
        BY <1>3, <3>2 DEF Orphan
      <4>2. o = wr
        BY <3>2
      <4> QED BY <4>1, <4>2, ProperStays
    <3> QED BY <3>1, <3>2
  <2>3. p.named => o = OpenTool(wr, p.idx)
    OBVIOUS
  <2>4. ~p.named => o = wr
    OBVIOUS
  <2> HIDE DEF o
  <2>5. Proper(o, Delta(o, "tool"))
    <3>1. Sound(o) /\ o.w.kind # ""
      BY <2>2 DEF Proper
    <3> QED BY ONLY <3>1, DeltaForm
  <2>6. Proper(wr, Delta(o, "tool"))
    BY <2>2, <2>5, ProperChains
  <2>7. Proper(wr, HandleToolDelta(wr, p))
    BY <2>1, <2>2, <2>6
  <2>8. p.args = 1 => p.args # 0
    OBVIOUS
  <2> QED BY <1>3, <2>1, <2>3, <2>4, <2>7, <2>8
<1> QED BY <1>2, <1>3

LEMMA ChunkForm ==
    ASSUME NEW wr, Sound(wr), NEW c \in Chunks
    PROVE  LET o == HandleChunk(wr, c)
               t == IF c.text = 0 THEN wr ELSE Delta(OpenText(wr), "text")
               x == HandleToolDelta(t, c.call)
           IN /\ Sound(o) /\ Carried(wr, o)
              /\ o.w.usage = (wr.w.usage \/ c.usage)
              /\ o.v.end = wr.v.end
              /\ o.told \subseteq wr.told \cup {"start", "delta", "stop"}
              /\ Proper(wr, t) /\ Proper(t, x)
              /\ o.w.kind = x.w.kind /\ o.w.tool = x.w.tool /\ o.w.index = x.w.index
              /\ o.w.next = x.w.next /\ o.a = x.a
<1> DEFINE o == HandleChunk(wr, c)
           t == IF c.text = 0 THEN wr ELSE Delta(OpenText(wr), "text")
           x == HandleToolDelta(t, c.call)
           w == Noted(x.w, c)
<1>1. o = Becomes(x, w)
  BY DEF HandleChunk
<1>2. Proper(wr, t)
  <2>1. Proper(wr, OpenText(wr)) /\ OpenText(wr).w.kind = "text"
    BY OpenTextForm
  <2>2. Proper(OpenText(wr), Delta(OpenText(wr), "text"))
    <3>1. Sound(OpenText(wr)) /\ OpenText(wr).w.kind # ""
      BY <2>1 DEF Proper
    <3> QED BY ONLY <3>1, DeltaForm
  <2>3. Proper(wr, Delta(OpenText(wr), "text"))
    BY <2>1, <2>2, ProperChains
  <2> QED BY <2>3, ProperStays
<1>3. c.call \in Part /\ c.finish \in Words /\ c.usage \in BOOLEAN
  <2> HIDE DEF Words, Part
  <2> QED BY DEF Chunks
<1> HIDE DEF t
<1>4. Proper(t, x)
  <2>1. Sound(t)
    BY <1>2 DEF Proper
  <2>2. c.call \in Part
    BY <1>3
  <2> QED BY ONLY <2>1, <2>2, ToolDeltaForm DEF x
<1>5. Proper(wr, x)
  BY <1>2, <1>4, ProperChains
<1> HIDE DEF x
<1>6. x \in Writers /\ x.w \in Bridger /\ Sound(x)
  BY <1>5, SoundFields DEF Proper
<1>9. /\ w \in Bridger /\ w.kind = x.w.kind /\ w.tool = x.w.tool /\ w.index = x.w.index
      /\ w.next = x.w.next
  BY <1>6, NotedForm
<1>8. w.usage = (wr.w.usage \/ c.usage)
  <2>1. w.usage = (x.w.usage \/ c.usage)
    BY <1>6, NotedForm
  <2>2. x.w.usage = wr.w.usage
    BY <1>5 DEF Proper
  <2> QED BY ONLY <2>1, <2>2
<1> HIDE DEF w
<1>10. /\ o \in Writers /\ o.w = w /\ o.a = x.a /\ o.v = x.v /\ o.told = x.told /\ o.late = x.late
  BY <1>1, <1>6, <1>9, BecomesForm
<1> HIDE DEF o
<1>11. Numbered(o.w)
  BY <1>6, <1>9, <1>10 DEF Sound, Numbered
<1>12. Follows(o.w, o.v)
  BY <1>6, <1>9, <1>10 DEF Sound, Follows
<1>13. Sound(o)
  BY <1>6, <1>10, <1>11, <1>12 DEF Sound
<1>14. Carried(wr, o) /\ o.v.end = wr.v.end /\ o.told \subseteq wr.told \cup {"start", "delta", "stop"}
  BY <1>5, <1>10 DEF Proper, Carried
<1>15. o.w.usage = (wr.w.usage \/ c.usage)
  BY <1>8, <1>10
<1> QED BY <1>2, <1>4, <1>9, <1>10, <1>13, <1>14, <1>15 DEF o, t, x

LEMMA FinishForm ==
    ASSUME NEW wr, Sound(wr)
    PROVE  LET o == FinishMessage(wr)
           IN /\ Sound(o) /\ Carried(wr, o) /\ o.w.usage = wr.w.usage
              /\ o.told \subseteq wr.told \cup {"start", "delta", "stop", "message_delta", "message_stop"}
              /\ ~wr.late => o.a = wr.a /\ "message_delta" \in o.told
              /\ (~wr.v.gone /\ wr.v.end = "") => o.v.end = "ok"
<1> DEFINE b == IF wr.w.next = 0 THEN OpenText(wr) ELSE wr
           c == CloseOpen(b)
           ev == BlockEvent("message_delta", 0, c.w.stop)
           m == Writes(c, ev)
           es == BlockEvent("message_stop", 0, "")
           o == Writes(m, es)
<1>1. FinishMessage(wr) = o
  BY DEF FinishMessage
<1>2. Proper(wr, b) /\ b.w.next # 0 /\ (~wr.late => b.a = wr.a)
  BY OpenTextForm, ProperStays
<1> HIDE DEF b
<1>3. /\ Sound(c) /\ Carried(b, c) /\ c.w = [b.w EXCEPT !.kind = ""] /\ c.v.end = b.v.end
      /\ c.told \subseteq b.told \cup {"stop"} /\ (~b.late => c.a = b.a)
  BY <1>2, CloseOpenForm DEF Proper
<1>4. b.w \in Bridger
  BY <1>2, SoundFields DEF Proper
<1>5. c.w.kind = "" /\ c.w.next = b.w.next /\ c.w.usage = b.w.usage
  BY <1>3, <1>4, Closed
<1>6. Carried(wr, c) /\ c.w.usage = wr.w.usage /\ c.v.end = wr.v.end
      /\ c.told \subseteq wr.told \cup {"start", "delta", "stop"} /\ (~wr.late => c.a = wr.a)
  BY <1>2, <1>3, <1>5 DEF Proper, Carried
<1> HIDE DEF c
<1>7. c.v \in Client /\ c.w \in Bridger
  BY <1>3, SoundFields
<1>8. ~c.v.gone => ~c.v.broken /\ c.v.open = -1 /\ c.v.next = c.w.next /\ c.v.next # 0
  BY <1>2, <1>3, <1>5, SoundFields
<1>9. ev \in BlockEvents /\ ev.type = "message_delta"
  <2>1. c.w.stop \in Words
    BY <1>7, BridgerFields
  <2>2. 0 \in Nat
    OBVIOUS
  <2> QED BY ONLY <2>1, <2>2, EventForms
<1>10. ASSUME ~c.v.gone
       PROVE  /\ Follows(c.w, Seen(c.v, ev)) /\ Seen(c.v, ev).end = c.v.end
              /\ Seen(c.v, ev).open = -1 /\ Seen(c.v, ev).next # 0
  <2>1. /\ Seen(c.v, ev).broken = c.v.broken /\ Seen(c.v, ev).open = c.v.open
        /\ Seen(c.v, ev).next = c.v.next /\ Seen(c.v, ev).end = c.v.end
    BY <1>7, SeesEnd
  <2> HIDE DEF ev
  <2> QED BY <1>5, <1>8, <1>10, <2>1 DEF Follows
<1> HIDE DEF ev
<1>11. /\ Sound(m) /\ Carried(c, m) /\ m.w = c.w /\ m.told \subseteq c.told \cup {"message_delta"}
       /\ ~c.late => m.a = Fed(c.a, ev) /\ "message_delta" \in m.told
       /\ ~c.v.gone => m.v = Seen(c.v, ev)
  <2>1. ~c.v.gone => Follows(c.w, Seen(c.v, ev))
    BY <1>10
  <2>2. Sound(c)
    BY <1>3
  <2> QED BY ONLY <1>9, <2>1, <2>2, SoundWrites
<1>12. Fed(c.a, ev) = c.a
  BY <1>9, FedOther
<1>13. m.v \in Client
  BY <1>11, SoundFields
<1>14. ~m.v.gone => /\ ~m.v.broken /\ m.v.end = c.v.end /\ m.v.open = -1 /\ m.v.next # 0
                    /\ m.v.next = m.w.next /\ m.w.kind = ""
  <2>1. ~m.v.gone => ~c.v.gone
    BY <1>11 DEF Carried
  <2>2. ~m.v.gone => ~m.v.broken /\ m.v.next = m.w.next
    BY <1>11, SoundFields
  <2>3. m.w.kind = ""
    BY <1>5, <1>11
  <2> QED BY <1>10, <1>11, <2>1, <2>2, <2>3
<1> HIDE DEF m
<1>15. es \in BlockEvents /\ es.type = "message_stop"
  <2>1. "" \in Words
    BY Spelled
  <2>2. 0 \in Nat
    OBVIOUS
  <2> QED BY ONLY <2>1, <2>2, EventForms
<1>16. ASSUME ~m.v.gone
       PROVE  /\ Follows(m.w, Seen(m.v, es))
              /\ m.v.end = "" => Seen(m.v, es).end = "ok"
  <2>1. /\ Seen(m.v, es).broken = (m.v.broken \/ m.v.open # -1 \/ m.v.next = 0)
        /\ Seen(m.v, es).open = m.v.open
        /\ Seen(m.v, es).next = m.v.next /\ Seen(m.v, es).end = IF m.v.end = "" THEN "ok" ELSE m.v.end
    BY <1>13, SeesEnd
  <2> HIDE DEF es
  <2> QED BY <1>14, <1>16, <2>1 DEF Follows
<1> HIDE DEF es
<1>17. /\ Sound(o) /\ Carried(m, o) /\ o.w = m.w /\ o.told \subseteq m.told \cup {"message_stop"}
       /\ ~m.late => o.a = Fed(m.a, es)
       /\ ~m.v.gone => o.v = Seen(m.v, es)
  <2>1. ~m.v.gone => Follows(m.w, Seen(m.v, es))
    BY <1>16
  <2>2. Sound(m)
    BY <1>11
  <2> QED BY ONLY <1>15, <2>1, <2>2, SoundWrites
<1>18. Fed(m.a, es) = m.a
  BY <1>15, FedOther
<1> HIDE DEF o
<1>19. Carried(wr, o) /\ o.w.usage = wr.w.usage
  BY <1>6, <1>11, <1>17 DEF Carried
<1>20. o.told \subseteq wr.told \cup {"start", "delta", "stop", "message_delta", "message_stop"}
  BY <1>6, <1>11, <1>17
<1>21. ~wr.late => o.a = wr.a /\ "message_delta" \in o.told
  BY <1>6, <1>11, <1>12, <1>17, <1>18 DEF Carried
<1>22. (~wr.v.gone /\ wr.v.end = "") => o.v.end = "ok"
  BY <1>6, <1>11, <1>14, <1>16, <1>17 DEF Carried
<1> QED BY <1>1, <1>17, <1>19, <1>20, <1>21, <1>22

LEMMA ErrorForm ==
    ASSUME NEW wr, Sound(wr)
    PROVE  LET o == WriteError(wr)
           IN /\ Sound(o) /\ Carried(wr, o) /\ o.w.usage = wr.w.usage
              /\ ~wr.late => o.a = wr.a /\ "error" \in o.told
              /\ ~wr.v.gone => o.v.end = "error"
<1> DEFINE c == CloseOpen(wr)
           ev == BlockEvent("error", 0, "")
           o == Writes(c, ev)
<1>1. WriteError(wr) = o
  BY DEF WriteError
<1>2. /\ Sound(c) /\ Carried(wr, c) /\ c.w = [wr.w EXCEPT !.kind = ""] /\ (~wr.late => c.a = wr.a)
  BY CloseOpenForm
<1>3. wr.w \in Bridger
  BY SoundFields
<1>4. c.w.kind = "" /\ c.w.usage = wr.w.usage
  BY <1>2, <1>3, Closed
<1> HIDE DEF c
<1>5. c.v \in Client
  BY <1>2, SoundFields
<1>6. ~c.v.gone => ~c.v.broken /\ c.v.open = -1 /\ c.v.next = c.w.next
  BY <1>2, <1>4, SoundFields
<1>7. ev \in BlockEvents /\ ev.type = "error"
  <2>1. "" \in Words
    BY Spelled
  <2>2. 0 \in Nat
    OBVIOUS
  <2> QED BY ONLY <2>1, <2>2, EventForms
<1>8. ASSUME ~c.v.gone
      PROVE  Follows(c.w, Seen(c.v, ev)) /\ Seen(c.v, ev).end = "error"
  <2>1. /\ Seen(c.v, ev).broken = (c.v.broken \/ c.v.open # -1)
        /\ Seen(c.v, ev).open = c.v.open
        /\ Seen(c.v, ev).next = c.v.next /\ Seen(c.v, ev).end = "error"
    BY <1>5, SeesEnd
  <2> HIDE DEF ev
  <2> QED BY <1>4, <1>6, <1>8, <2>1 DEF Follows
<1> HIDE DEF ev
<1>9. /\ Sound(o) /\ Carried(c, o) /\ o.w = c.w
      /\ ~c.late => o.a = Fed(c.a, ev) /\ "error" \in o.told
      /\ ~c.v.gone => o.v = Seen(c.v, ev)
  <2>1. ~c.v.gone => Follows(c.w, Seen(c.v, ev))
    BY <1>8
  <2>2. Sound(c)
    BY <1>2
  <2> QED BY ONLY <1>7, <2>1, <2>2, SoundWrites
<1>10. Fed(c.a, ev) = c.a
  BY <1>7, FedOther
<1> HIDE DEF o
<1>11. Carried(wr, o) /\ o.w.usage = wr.w.usage
  BY <1>2, <1>4, <1>9 DEF Carried
<1>12. ~wr.late => o.a = wr.a /\ "error" \in o.told
  BY <1>2, <1>9, <1>10 DEF Carried
<1>13. ~wr.v.gone => o.v.end = "error"
  BY <1>2, <1>8, <1>9 DEF Carried
<1> QED BY <1>1, <1>9, <1>11, <1>12, <1>13

LEMMA BridgeForm ==
    ASSUME NEW wr, Sound(wr), NEW o \in Outcomes
    PROVE  LET r == Bridge(wr, o)
               heard == o.fate \in {"goes on", "ended"}
           IN /\ Sound(r) /\ Carried(wr, r)
              /\ heard => r.w.usage = (wr.w.usage \/ o.chunk.usage)
              /\ ~wr.late => r.a = IF heard THEN HandleChunk(wr, o.chunk).a ELSE wr.a
              /\ o.fate = "goes on" => r = HandleChunk(wr, o.chunk)
              /\ o.fate \in {"quiet", "retry"} => r = wr
              /\ o.fate # "failed" => r.told \subseteq wr.told \cup
                    {"start", "delta", "stop", "message_delta", "message_stop"}
              /\ o.fate \notin {"ended", "failed"} => r.v.end = wr.v.end
              /\ o.fate = "ended" =>
                    /\ ~wr.late => "message_delta" \in r.told
                    /\ (~wr.v.gone /\ wr.v.end = "") => r.v.end = "ok"
              /\ o.fate = "failed" =>
                    /\ ~wr.late => "error" \in r.told
                    /\ ~wr.v.gone => r.v.end = "error"
<1>1. o.chunk \in Chunks /\ o.fate \in Fates
  <2> HIDE DEF Chunks, Fates, Parser
  <2> QED BY DEF Outcomes
<1> DEFINE h == HandleChunk(wr, o.chunk)
           r == Bridge(wr, o)
<1>2. /\ Sound(h) /\ Carried(wr, h) /\ h.w.usage = (wr.w.usage \/ o.chunk.usage)
      /\ h.v.end = wr.v.end /\ h.told \subseteq wr.told \cup {"start", "delta", "stop"}
  BY <1>1, ChunkForm
<1> HIDE DEF h
<1>3. CASE o.fate = "goes on"
  <2>1. r = h
    BY <1>3 DEF Bridge, h
  <2> HIDE DEF r
  <2> QED BY <1>2, <1>3, <2>1 DEF r, h
<1>4. CASE o.fate = "ended"
  <2> DEFINE f == FinishMessage(h)
  <2>1. r = f
    BY <1>4 DEF Bridge, h
  <2>2. /\ Sound(f) /\ Carried(h, f) /\ f.w.usage = h.w.usage
        /\ f.told \subseteq h.told \cup {"start", "delta", "stop", "message_delta", "message_stop"}
        /\ ~h.late => f.a = h.a /\ "message_delta" \in f.told
        /\ (~h.v.gone /\ h.v.end = "") => f.v.end = "ok"
    BY <1>2, FinishForm
  <2> HIDE DEF f
  <2>3. Carried(wr, f) /\ f.w.usage = (wr.w.usage \/ o.chunk.usage)
    BY <1>2, <2>2 DEF Carried
  <2>4. f.told \subseteq wr.told \cup {"start", "delta", "stop", "message_delta", "message_stop"}
    BY <1>2, <2>2
  <2>5. /\ ~wr.late => f.a = h.a /\ "message_delta" \in f.told
        /\ (~wr.v.gone /\ wr.v.end = "") => f.v.end = "ok"
    BY <1>2, <2>2 DEF Carried
  <2> HIDE DEF r
  <2> QED BY <1>4, <2>1, <2>2, <2>3, <2>4, <2>5 DEF r, h
<1>5. CASE o.fate = "failed"
  <2>1. r = WriteError(wr)
    BY <1>5 DEF Bridge
  <2>2. /\ Sound(r) /\ Carried(wr, r)
        /\ ~wr.late => r.a = wr.a /\ "error" \in r.told
        /\ ~wr.v.gone => r.v.end = "error"
    BY <2>1, ErrorForm
  <2> HIDE DEF r
  <2> QED BY <1>5, <2>2 DEF r
<1>6. CASE o.fate \in {"quiet", "retry"}
  <2>1. r = wr
    BY <1>6 DEF Bridge
  <2>2. Carried(wr, wr)
    BY DEF Carried
  <2> HIDE DEF r
  <2> QED BY <1>6, <2>1, <2>2 DEF r
<1> QED BY <1>1, <1>3, <1>4, <1>5, <1>6 DEF Fates

-----------------------------------------------------------------------------
(* Types, and the client that follows the bridge.                              *)

Rows == [status : {"none", "ok", "error"}, usage : BOOLEAN]
Typed ==
    /\ path \in Paths /\ pc \in {"open", "backoff", "done"}
    /\ up \in Up /\ Len(up.args) <= MaxTools
    /\ ps \in Parser /\ br \in Bridger /\ acc \in Answer /\ view \in Client /\ row \in Rows
    /\ pc = "backoff" => Provider = "chatgpt" /\ ps.attempt < StreamRetries
BridgeFollowed == Numbered(br) /\ (Bridged => Follows(br, view))

LEMMA WriterSound ==
    ASSUME Typed, NEW late \in BOOLEAN, late => view.gone
    PROVE  /\ Writer(late) \in Writers
           /\ Writer(late).w = br /\ Writer(late).a = acc /\ Writer(late).v = view
           /\ Writer(late).told = {} /\ Writer(late).late = late
           /\ (BridgeFollowed /\ Bridged) => Sound(Writer(late))
<1>1. /\ Writer(late).w = br /\ Writer(late).a = acc /\ Writer(late).v = view
      /\ Writer(late).told = {} /\ Writer(late).late = late
  BY DEF Writer
<1>2. Writer(late) \in Writers
  <2>1. {} \in SUBSET EventTypes
    OBVIOUS
  <2> HIDE DEF Bridger, Answer, Client, EventTypes
  <2>2. br \in Bridger /\ acc \in Answer /\ view \in Client
    BY DEF Typed
  <2> QED BY <2>1, <2>2 DEF Writer, Writers
<1>3. (BridgeFollowed /\ Bridged) => Sound(Writer(late))
  BY <1>1, <1>2 DEF Sound, BridgeFollowed
<1> QED BY <1>1, <1>2, <1>3

LEMMA AddedType ==
    ASSUME NEW a \in Answer, NEW c \in Chunks
    PROVE  Added(a, c) \in Answer
<1>1. a.text \in Nat /\ a.calls \in Seq(Call)
  BY DEF Answer, Call
<1>2. c.text \in Nat /\ c.call \in Part
  <2> HIDE DEF Part, Words
  <2> QED BY DEF Chunks
<1>3. c.call.idx \in Int /\ c.call.args \in 0..1
  BY <1>2 DEF Part
<1>4. KeyOf(c.call, a.calls) \in Int
  <2>1. Len(a.calls) \in Int
    BY <1>1
  <2>2. c.call.idx \in Int
    BY <1>3
  <2>3. ChatKey(c.call, a.calls) \in Int
    BY ONLY <2>2 DEF ChatKey
  <2>4. CompleteKey(c.call, a.calls) \in Int
    BY ONLY <2>1, <2>2 DEF CompleteKey
  <2> QED BY <2>3, <2>4 DEF KeyOf
<1>5. c.call.args \in Nat
  <2>1. c.call.args \in 0..1
    BY <1>3
  <2> QED BY ONLY <2>1
<1>6. Merged(a.calls, KeyOf(c.call, a.calls), c.call.args) \in Seq(Call)
  <2> HIDE DEF Call
  <2> QED BY <1>1, <1>4, <1>5, MergedHit, MergedMiss
<1>7. a.text + c.text \in Nat
  <2>1. a.text \in Nat /\ c.text \in Nat
    BY <1>1, <1>2
  <2> QED BY ONLY <2>1
<1> DEFINE k == IF c.call = NoCall THEN a.calls
                ELSE Merged(a.calls, KeyOf(c.call, a.calls), c.call.args)
<1>8. k \in Seq(Call)
  BY <1>1, <1>6
<1>9. Added(a, c) = [text |-> a.text + c.text, calls |-> k]
  BY DEF Added
<1> HIDE DEF k
<1>10. Answer = [text : Nat, calls : Seq(Call)]
  BY DEF Answer, Call
<1> HIDE DEF Call
<1> QED BY <1>7, <1>8, <1>9, <1>10

LEMMA RowType ==
    ASSUME NEW s \in {"none", "ok", "error"}, NEW u \in BOOLEAN
    PROVE  Row(s, u) \in Rows /\ Row(s, u).status = s /\ Row(s, u).usage = u
BY DEF Row, Rows

LEMMA RowFields == ASSUME NEW r \in Rows PROVE r.usage \in BOOLEAN /\ r.status \in {"none", "ok", "error"}
BY DEF Rows

LEMMA OutcomeFields ==
    ASSUME NEW o \in Outcomes
    PROVE  /\ o.chunk \in Chunks /\ o.fate \in Fates
           /\ o.chunk.finish \in Words /\ o.chunk.usage \in BOOLEAN
<1>1. o.chunk \in Chunks /\ o.fate \in Fates
  <2> HIDE DEF Chunks, Fates, Parser
  <2> QED BY DEF Outcomes
<1>2. o.chunk.finish \in Words /\ o.chunk.usage \in BOOLEAN
  <2> HIDE DEF Words, Part
  <2> QED BY <1>1 DEF Chunks
<1> QED BY <1>1, <1>2

LEMMA Ending ==
    ASSUME view \in Client, NEW f \in Words, NEW d \in {"", "ok", "error"}
    PROVE  /\ Informed(f, d) \in Client
           /\ Informed(f, d).end = d
           /\ Informed(f, d).gone = view.gone
<1> HIDE DEF Words
<1> DEFINE y == [view EXCEPT !.finish = f]
<1>1. y \in Client /\ y.gone = view.gone
  BY DEF Client
<1>2. Informed(f, d) = [y EXCEPT !.end = d]
  BY DEF Informed
<1> HIDE DEF y
<1>3. /\ [y EXCEPT !.end = d] \in Client /\ [y EXCEPT !.end = d].end = d
      /\ [y EXCEPT !.end = d].gone = y.gone
  BY <1>1 DEF Client
<1> QED BY <1>1, <1>2, <1>3

LEMMA GivenType == ASSUME view \in Client, NEW o \in Outcomes PROVE Given(o) \in Words
<1>1. view.finish \in Words
  <2> HIDE DEF Words
  <2> QED BY DEF Client
<1>2. o.chunk.finish \in Words
  BY OutcomeFields
<1> QED BY <1>1, <1>2 DEF Given

-----------------------------------------------------------------------------
(* What each frontend makes of the outcome of an event.                        *)

\* The client, the row and the phase agree on how the stream goes on.
Waiting == view.end = "" /\ row.status = "none"
Told(o) ==
    /\ o.fate = "failed" => pc' = "done" /\ view'.end = "error" /\ row'.status = "error"
    /\ o.fate = "ended" => pc' = "done" /\ view'.end = "ok" /\ row'.status = "ok"
    /\ o.fate \notin {"failed", "ended"} =>
          pc' = Attempted(o) /\ view'.end = "" /\ row'.status = "none"
WellTyped(o) ==
    /\ acc' \in Answer /\ view' \in Client /\ row' \in Rows /\ pc' \in {"open", "backoff", "done"}
    /\ pc' = "backoff" => o.fate = "retry"
    /\ view'.gone = view.gone

LEMMA AddedNothing ==
    ASSUME NEW a \in Answer, NEW c \in Chunks, c.text = 0, c.call = NoCall
    PROVE  Added(a, c) = a
<1>1. a = [text |-> a.text, calls |-> a.calls] /\ a.text \in Nat
  BY DEF Answer
<1>2. Added(a, c) = [text |-> a.text + 0, calls |-> a.calls]
  BY DEF Added
<1>3. a.text + 0 = a.text
  BY <1>1
<1> QED BY <1>1, <1>2, <1>3

LEMMA ChatStep ==
    ASSUME Typed, NEW o \in Outcomes, ChatStream(o),
           o.fate \notin {"goes on", "ended"} => o.chunk = NoChunk
    PROVE  /\ WellTyped(o)
           /\ ~view.gone => /\ Told(o) /\ acc' = Added(acc, o.chunk)
                            /\ o.fate # "failed" => row'.usage = (row.usage \/ o.chunk.usage)
<1> DEFINE live == o.fate = "goes on" \/ o.chunk # NoChunk
           kept == IF live THEN Added(acc, o.chunk) ELSE acc
           usageKnown == row.usage \/ o.chunk.usage
           finish == IF o.fate = "ended" /\ Given(o) = "" THEN Synthesized ELSE Given(o)
           end == IF o.fate = "ended" THEN "ok" ELSE ""
<1>1. acc \in Answer /\ view \in Client /\ row \in Rows
  BY DEF Typed
<1>2. kept = Added(acc, o.chunk) /\ kept \in Answer
  <2>1. CASE live
    BY <1>1, <2>1, OutcomeFields, AddedType
  <2>2. CASE ~live
    <3>1. o.chunk = NoChunk
      BY <2>2
    <3>2. Added(acc, NoChunk) = acc
      BY <1>1, EmptyChunk, AddedNothing
    <3> QED BY <1>1, <2>2, <3>1, <3>2
  <2> QED BY <2>1, <2>2
<1>3. usageKnown \in BOOLEAN
  BY <1>1, RowFields, OutcomeFields
<1>4. finish \in Words /\ end \in {"", "ok", "error"}
  <2>2. Synthesized \in Words
    BY DEF Synthesized, Words
  <2> QED BY <1>1, <2>2, GivenType
<1>5. \/ /\ live /\ view.gone
         /\ acc' = kept /\ row' = Row("ok", usageKnown) /\ pc' = "done" /\ view' = view
      \/ /\ o.fate # "failed"
         /\ acc' = kept
         /\ view' = Informed(finish, end)
         /\ row' = Row(IF o.fate = "ended" THEN "ok" ELSE "none", usageKnown)
         /\ pc' = IF o.fate = "ended" THEN "done" ELSE Attempted(o)
      \/ /\ o.fate = "failed"
         /\ view' = Informed(view.finish, "error") /\ row' = Row("error", FALSE) /\ pc' = "done"
         /\ acc' = acc
  BY DEF ChatStream
<1> HIDE DEF kept, usageKnown, finish, live
<1>6. CASE /\ live /\ view.gone
           /\ acc' = kept /\ row' = Row("ok", usageKnown) /\ pc' = "done" /\ view' = view
  <2>1. row' \in Rows
    BY <1>3, <1>6, RowType
  <2> QED BY <1>1, <1>2, <1>6, <2>1 DEF WellTyped
<1>7. CASE /\ o.fate # "failed"
           /\ acc' = kept
           /\ view' = Informed(finish, end)
           /\ row' = Row(IF o.fate = "ended" THEN "ok" ELSE "none", usageKnown)
           /\ pc' = IF o.fate = "ended" THEN "done" ELSE Attempted(o)
  <2>1. /\ view' \in Client /\ view'.end = end /\ view'.gone = view.gone
    BY <1>1, <1>4, <1>7, Ending
  <2>2. /\ row' \in Rows /\ row'.status = (IF o.fate = "ended" THEN "ok" ELSE "none")
        /\ row'.usage = usageKnown
    <3> DEFINE s == IF o.fate = "ended" THEN "ok" ELSE "none"
    <3>1. s \in {"none", "ok", "error"}
      OBVIOUS
    <3>2. row' = Row(s, usageKnown)
      BY <1>7
    <3> HIDE DEF s
    <3>3. row' \in Rows /\ row'.status = s /\ row'.usage = usageKnown
      BY ONLY <1>3, <3>1, <3>2, RowType
    <3> QED BY <3>3 DEF s
  <2>3. pc' \in {"open", "backoff", "done"} /\ (pc' = "backoff" => o.fate = "retry")
    BY <1>7 DEF Attempted
  <2>4. WellTyped(o)
    BY <1>2, <1>7, <2>1, <2>2, <2>3 DEF WellTyped
  <2>5. Told(o)
    BY <1>7, <2>1, <2>2 DEF Told
  <2>6. row'.usage = (row.usage \/ o.chunk.usage)
    BY <2>2 DEF usageKnown
  <2> QED BY <1>2, <1>7, <2>4, <2>5, <2>6
<1>8. CASE /\ o.fate = "failed"
           /\ view' = Informed(view.finish, "error") /\ row' = Row("error", FALSE) /\ pc' = "done"
           /\ acc' = acc
  <2>1. /\ view' \in Client /\ view'.end = "error" /\ view'.gone = view.gone
    <3>1. view.finish \in Words
      <4> HIDE DEF Words
      <4> QED BY <1>1 DEF Client
    <3> QED BY <1>1, <1>8, <3>1, Ending
  <2>2. row' \in Rows /\ row'.status = "error"
    BY <1>8, RowType
  <2>3. acc' = Added(acc, o.chunk)
    <3>1. o.chunk = NoChunk
      BY <1>8
    <3>2. Added(acc, NoChunk) = acc
      BY <1>1, EmptyChunk, AddedNothing
    <3> QED BY <1>8, <3>1, <3>2
  <2>4. WellTyped(o)
    BY <1>1, <1>8, <2>1, <2>2 DEF WellTyped
  <2>5. Told(o)
    BY <1>8, <2>1, <2>2 DEF Told
  <2> QED BY <1>8, <2>3, <2>4, <2>5
<1> QED BY <1>5, <1>6, <1>7, <1>8

LEMMA CompleteStep ==
    ASSUME Typed, NEW o \in Outcomes, CompleteWhole(o)
    PROVE  /\ WellTyped(o)
           /\ acc' = Added(acc, o.chunk)
           /\ Waiting => Told(o)
           /\ o.fate = "ended" => row'.usage = (row.usage \/ o.chunk.usage)
<1> DEFINE finish == Given(o)
           end == CASE o.fate = "ended" -> "ok" [] o.fate = "failed" -> "error" [] OTHER -> ""
           usageKnown == row.usage \/ o.chunk.usage
<1>1. acc \in Answer /\ view \in Client /\ row \in Rows
  BY DEF Typed
<1>2. finish \in Words /\ end \in {"", "ok", "error"}
  BY <1>1, GivenType
<1>3. usageKnown \in BOOLEAN
  BY <1>1, RowFields, OutcomeFields
<1>4. /\ acc' = Added(acc, o.chunk)
      /\ view' = Informed(finish, end)
      /\ row' = CASE o.fate = "ended" -> Row("ok", usageKnown) [] o.fate = "failed" -> Row("error", FALSE)
                  [] OTHER -> row
      /\ pc' = IF Closing(o) THEN "done" ELSE Attempted(o)
  BY DEF CompleteWhole
<1>5. acc' \in Answer
  BY <1>1, <1>4, OutcomeFields, AddedType
<1>6. view' \in Client /\ view'.end = end /\ view'.gone = view.gone
  <2> HIDE DEF finish, end
  <2> QED BY <1>1, <1>2, <1>4, Ending
<1>7. /\ row' \in Rows
      /\ o.fate = "ended" => row'.status = "ok" /\ row'.usage = usageKnown
      /\ o.fate = "failed" => row'.status = "error"
      /\ o.fate \notin {"failed", "ended"} => row' = row
  <2> HIDE DEF usageKnown
  <2>1. CASE o.fate = "ended"
    BY <1>3, <1>4, <2>1, RowType
  <2>2. CASE o.fate = "failed"
    BY <1>4, <2>2, RowType
  <2>3. CASE o.fate \notin {"ended", "failed"}
    BY <1>1, <1>4, <2>3
  <2> QED BY <2>1, <2>2, <2>3
<1>8. pc' \in {"open", "backoff", "done"} /\ (pc' = "backoff" => o.fate = "retry")
  BY <1>4 DEF Attempted
<1>9. WellTyped(o)
  BY <1>5, <1>6, <1>7, <1>8 DEF WellTyped
<1>10. Waiting => Told(o)
  BY <1>4, <1>6, <1>7 DEF Waiting, Told, Closing
<1> QED BY <1>4, <1>7, <1>9, <1>10

LEMMA StreamForm ==
    ASSUME NEW wr \in Writers, NEW counted \in BOOLEAN, NEW over \in BOOLEAN, NEW broke \in BOOLEAN,
           NEW next \in {"open", "backoff"}, row \in Rows,
           StreamMessages(wr, counted, over, broke, next)
    PROVE  /\ acc' = wr.a /\ view' = wr.v
           /\ row' \in Rows /\ pc' \in {"open", "backoff", "done"}
           /\ pc' = "backoff" => next = "backoff"
           /\ (counted /\ "message_delta" \in wr.told) => row'.usage
           /\ row.usage => row'.usage
           /\ ~wr.late => /\ row'.status = IF Framed(wr) \/ broke THEN "error"
                                           ELSE IF over THEN "ok" ELSE "none"
                          /\ pc' = IF over THEN "done" ELSE next
<1> DEFINE left == wr.late /\ wr.told # {}
           status == IF Framed(wr) \/ (broke /\ ~left) THEN "error"
                     ELSE IF over \/ left THEN "ok" ELSE "none"
           usageKnown == row.usage \/ UpdatesUsage(wr, counted)
<1>1. /\ acc' = wr.a /\ view' = wr.v /\ row' = Row(status, usageKnown)
      /\ pc' = IF over \/ left THEN "done" ELSE next
  BY DEF StreamMessages
<1>2. wr.late \in BOOLEAN /\ row.usage \in BOOLEAN
  BY WriterFields, RowFields
<1>3. status \in {"none", "ok", "error"}
  <2>1. CASE Framed(wr) \/ (broke /\ ~left)
    BY <2>1
  <2>2. CASE ~(Framed(wr) \/ (broke /\ ~left)) /\ (over \/ left)
    BY <2>2
  <2>3. CASE ~(Framed(wr) \/ (broke /\ ~left)) /\ ~(over \/ left)
    BY <2>3
  <2> QED BY <2>1, <2>2, <2>3
<1>4. ASSUME ~wr.late
      PROVE  status = IF Framed(wr) \/ broke THEN "error" ELSE IF over THEN "ok" ELSE "none"
  <2>0. ~left
    BY <1>4
  <2> HIDE DEF left
  <2>1. CASE Framed(wr) \/ broke
    <3>1. Framed(wr) \/ (broke /\ ~left)
      BY <2>0, <2>1
    <3>2. status = "error"
      BY <3>1
    <3> QED BY <2>1, <3>2
  <2>2. CASE ~(Framed(wr) \/ broke) /\ over
    <3>1. ~(Framed(wr) \/ (broke /\ ~left))
      BY <2>2
    <3> QED BY <2>2, <3>1
  <2>3. CASE ~(Framed(wr) \/ broke) /\ ~over
    <3>1. ~(Framed(wr) \/ (broke /\ ~left)) /\ ~(over \/ left)
      BY <2>0, <2>3
    <3> QED BY <2>3, <3>1
  <2> QED BY <2>1, <2>2, <2>3
<1>5. usageKnown \in BOOLEAN
  BY <1>2 DEF UpdatesUsage
<1>6. /\ (counted /\ "message_delta" \in wr.told) => usageKnown
      /\ row.usage => usageKnown
  BY DEF UpdatesUsage
<1>7. /\ pc' \in {"open", "backoff", "done"} /\ (pc' = "backoff" => next = "backoff")
      /\ ~wr.late => pc' = IF over THEN "done" ELSE next
  BY <1>1
<1> HIDE DEF status, usageKnown
<1>8. row' \in Rows /\ row'.status = status /\ row'.usage = usageKnown
  BY <1>1, <1>3, <1>5, RowType
<1> QED BY <1>1, <1>4, <1>6, <1>7, <1>8

\* The frontend of a bridged request reads on with the writer of this step.
LEMMA PassStep ==
    ASSUME Typed, BridgeFollowed, Bridged, NEW o \in Outcomes, NEW late \in {FALSE, view.gone},
           MessagesPassthrough(o, late)
    PROVE  LET wr == Writer(late)
               heard == o.fate \in {"goes on", "ended"}
           IN /\ WellTyped(o)
              /\ br' \in Bridger /\ Numbered(br') /\ Follows(br', view')
              /\ ~view.gone =>
                    /\ wr = Writer(FALSE)
                    /\ Waiting => Told(o)
                    /\ acc' = IF heard THEN HandleChunk(wr, o.chunk).a ELSE acc
                    /\ (o.fate = "ended" /\ (br.usage \/ o.chunk.usage)) => row'.usage
                    /\ o.fate = "goes on" => br' = HandleChunk(wr, o.chunk).w
                    /\ o.fate \in {"quiet", "retry"} => br' = br
<1> DEFINE wr == Writer(late)
           r == Bridge(wr, o)
<1>1. late \in BOOLEAN /\ (late => view.gone)
  BY DEF Typed, Client
<1>2. /\ wr.w = br /\ wr.a = acc /\ wr.v = view /\ wr.told = {} /\ wr.late = late /\ Sound(wr)
  BY <1>1, WriterSound
<1>3. row \in Rows
  BY DEF Typed
<1>4. br' = r.w /\ StreamMessages(r, r.w.usage, Closing(o), FALSE, Attempted(o))
  BY DEF MessagesPassthrough
<1>5. ~view.gone => wr = Writer(FALSE)
  BY <1>1
<1> HIDE DEF wr
<1>6. /\ Sound(r) /\ Carried(wr, r)
      /\ o.fate \in {"goes on", "ended"} => r.w.usage = (wr.w.usage \/ o.chunk.usage)
      /\ ~wr.late => r.a = IF o.fate \in {"goes on", "ended"} THEN HandleChunk(wr, o.chunk).a ELSE wr.a
      /\ o.fate = "goes on" => r = HandleChunk(wr, o.chunk)
      /\ o.fate \in {"quiet", "retry"} => r = wr
  BY <1>2, BridgeForm
<1>7. /\ o.fate # "failed" => r.told \subseteq wr.told \cup
            {"start", "delta", "stop", "message_delta", "message_stop"}
      /\ o.fate \notin {"ended", "failed"} => r.v.end = wr.v.end
      /\ (o.fate = "ended" /\ ~wr.late) => "message_delta" \in r.told
      /\ (o.fate = "ended" /\ ~wr.v.gone /\ wr.v.end = "") => r.v.end = "ok"
      /\ (o.fate = "failed" /\ ~wr.late) => "error" \in r.told
      /\ (o.fate = "failed" /\ ~wr.v.gone) => r.v.end = "error"
  BY <1>2, BridgeForm
<1> HIDE DEF r
<1>8. r \in Writers /\ r.w \in Bridger /\ r.v \in Client /\ r.a \in Answer /\ r.w.usage \in BOOLEAN
  <2>1. r \in Writers /\ r.w \in Bridger /\ r.v \in Client /\ r.a \in Answer
    BY <1>6, SoundFields
  <2> QED BY <2>1, BridgerFields
<1>9. /\ acc' = r.a /\ view' = r.v
      /\ row' \in Rows /\ pc' \in {"open", "backoff", "done"}
      /\ pc' = "backoff" => Attempted(o) = "backoff"
      /\ (r.w.usage /\ "message_delta" \in r.told) => row'.usage
      /\ ~r.late => /\ row'.status = IF Framed(r) \/ FALSE THEN "error"
                                     ELSE IF Closing(o) THEN "ok" ELSE "none"
                    /\ pc' = IF Closing(o) THEN "done" ELSE Attempted(o)
  <2>1. Closing(o) \in BOOLEAN /\ Attempted(o) \in {"open", "backoff"} /\ FALSE \in BOOLEAN
    BY DEF Closing, Attempted
  <2>2. r \in Writers /\ r.w.usage \in BOOLEAN
    BY <1>8
  <2> QED BY ONLY <2>1, <2>2, <1>3, <1>4, StreamForm
<1>10. WellTyped(o)
  <2>1. Attempted(o) = "backoff" => o.fate = "retry"
    BY DEF Attempted
  <2>2. view'.gone = view.gone
    BY <1>2, <1>6, <1>9 DEF Carried
  <2> QED BY <1>8, <1>9, <2>1, <2>2 DEF WellTyped
<1>11. br' \in Bridger /\ Numbered(br') /\ Follows(br', view')
  BY <1>4, <1>6, <1>8, <1>9 DEF Sound
<1>12. ASSUME ~view.gone
       PROVE  /\ ~wr.late /\ ~r.late /\ ~wr.v.gone
  BY <1>1, <1>2, <1>6, <1>12 DEF Carried
<1>13. ASSUME ~view.gone, Waiting
       PROVE  Told(o)
  <2>1. ~wr.late /\ ~r.late /\ ~wr.v.gone /\ wr.v.end = "" /\ wr.told = {} /\ row.status # "error"
    BY <1>2, <1>12, <1>13 DEF Waiting
  <2>2. CASE o.fate = "failed"
    <3>1. Framed(r) /\ Closing(o)
      BY <1>7, <2>1, <2>2 DEF Framed, Closing
    <3>2. view'.end = "error" /\ row'.status = "error" /\ pc' = "done"
      BY <1>7, <1>9, <2>1, <2>2, <3>1
    <3> QED BY <2>2, <3>2 DEF Told
  <2>3. CASE o.fate = "ended"
    <3>1. ~Framed(r) /\ Closing(o)
      BY <1>7, <2>1, <2>3 DEF Framed, Closing
    <3>2. view'.end = "ok" /\ row'.status = "ok" /\ pc' = "done"
      BY <1>7, <1>9, <2>1, <2>3, <3>1
    <3> QED BY <2>3, <3>2 DEF Told
  <2>4. CASE o.fate \notin {"failed", "ended"}
    <3>1. ~Framed(r) /\ ~Closing(o)
      BY <1>7, <2>1, <2>4 DEF Framed, Closing
    <3>2. view'.end = "" /\ row'.status = "none" /\ pc' = Attempted(o)
      BY <1>7, <1>9, <2>1, <2>4, <3>1
    <3> QED BY <2>4, <3>2 DEF Told
  <2> QED BY <2>2, <2>3, <2>4
<1>14. ASSUME ~view.gone
       PROVE  acc' = IF o.fate \in {"goes on", "ended"} THEN HandleChunk(wr, o.chunk).a ELSE acc
  BY <1>2, <1>6, <1>9, <1>12, <1>14
<1>15. ASSUME ~view.gone, o.fate = "ended", br.usage \/ o.chunk.usage
       PROVE  row'.usage
  <2>1. r.w.usage
    BY <1>2, <1>6, <1>15
  <2>2. "message_delta" \in r.told
    BY <1>7, <1>12, <1>15
  <2> QED BY <1>9, <2>1, <2>2
<1>16. /\ o.fate = "goes on" => br' = HandleChunk(wr, o.chunk).w
       /\ o.fate \in {"quiet", "retry"} => br' = br
  BY <1>2, <1>4, <1>6
<1> QED BY <1>5, <1>10, <1>11, <1>13, <1>14, <1>15, <1>16 DEF wr

-----------------------------------------------------------------------------
(* What an Anthropic upstream writes itself, forwarded as it is.               *)

LEMMA WritesEnd ==
    ASSUME NEW wr \in Writers, NEW ev \in BlockEvents, ~wr.late, ~wr.v.gone
    PROVE  Writes(wr, ev).v.end =
              IF ev.type = "error" THEN "error"
              ELSE IF ev.type = "message_stop" /\ wr.v.end = "" THEN "ok" ELSE wr.v.end
<1>1. Writes(wr, ev).v = Seen(wr.v, ev) /\ wr.v \in Client
  BY WritesForm, WriterFields
<1>2. ev.type \in EventTypes
  BY DEF BlockEvents
<1> HIDE DEF EventTypes
<1>4. Seen(wr.v, ev).end = IF ev.type = "error" THEN "error"
                           ELSE IF ev.type = "message_stop" /\ wr.v.end = "" THEN "ok" ELSE wr.v.end
  <2> HIDE DEF Words
  <2>1. CASE ev.type \in {"start", "delta", "stop", "message_delta"}
    <3>1. CASE ev.type = "start"
      BY <1>1, <3>1 DEF Seen, Client
    <3>2. CASE ev.type = "delta"
      BY <1>1, <3>2 DEF Seen, Client
    <3>3. CASE ev.type = "stop"
      BY <1>1, <3>3 DEF Seen, Client
    <3>4. CASE ev.type = "message_delta"
      BY <1>1, <3>4 DEF Seen, Client
    <3> QED BY <2>1, <3>1, <3>2, <3>3, <3>4
  <2>2. CASE ev.type = "message_stop"
    BY <1>1, <2>2 DEF Seen, Client
  <2>3. CASE ev.type = "error"
    BY <1>1, <2>3 DEF Seen, Client
  <2> QED BY <1>2, <2>1, <2>2, <2>3 DEF EventTypes
<1> QED BY <1>1, <1>4

LEMMA RawForm ==
    ASSUME NEW wr \in Writers, NEW e, e.kind \in Kinds, e.n \in Nat
    PROVE  LET r == RawEvents(wr, e)
           IN /\ r \in Writers /\ r.late = wr.late /\ r.v.gone = wr.v.gone
              /\ (~wr.late /\ ~wr.v.gone /\ wr.told = {}) =>
                    /\ e.kind = "text" => r.a = Fed(wr.a, BlockEvent("delta", 0, "text"))
                    /\ e.kind = "tool" => r.a = Fed(wr.a, BlockEvent("start", e.n, "tool"))
                    /\ e.kind = "args" => r.a = Fed(wr.a, BlockEvent("delta", e.n, "tool"))
                    /\ ~Speaks(e) => r.a = wr.a
                    /\ "error" \in r.told <=> e.kind = "error"
                    /\ e.kind = "reason" => "message_delta" \in r.told
                    /\ r.v.end = IF e.kind = "error" THEN "error"
                                 ELSE IF e.kind = "stop" /\ wr.v.end = "" THEN "ok"
                                 ELSE wr.v.end
<1> DEFINE r == RawEvents(wr, e)
           quiet == ~wr.late /\ ~wr.v.gone /\ wr.told = {}
<1>0. /\ BlockEvent("delta", 0, "text") \in BlockEvents /\ BlockEvent("delta", 0, "text").type = "delta"
      /\ BlockEvent("start", e.n, "tool") \in BlockEvents /\ BlockEvent("start", e.n, "tool").type = "start"
      /\ BlockEvent("delta", e.n, "tool") \in BlockEvents /\ BlockEvent("delta", e.n, "tool").type = "delta"
      /\ BlockEvent("error", 0, "") \in BlockEvents /\ BlockEvent("error", 0, "").type = "error"
      /\ BlockEvent("message_stop", 0, "") \in BlockEvents /\ BlockEvent("message_stop", 0, "").type = "message_stop"
  <2>1. 0 \in Nat /\ e.n \in Nat
    OBVIOUS
  <2>2. BlockEvent("delta", 0, "text") \in BlockEvents /\ BlockEvent("delta", 0, "text").type = "delta"
    BY ONLY <2>1, Spelled, EventForms, ZenonT(40)
  <2>3. /\ BlockEvent("start", e.n, "tool") \in BlockEvents /\ BlockEvent("start", e.n, "tool").type = "start"
        /\ BlockEvent("delta", e.n, "tool") \in BlockEvents /\ BlockEvent("delta", e.n, "tool").type = "delta"
    BY ONLY <2>1, Spelled, EventForms, ZenonT(40)
  <2>4. /\ BlockEvent("error", 0, "") \in BlockEvents /\ BlockEvent("error", 0, "").type = "error"
        /\ BlockEvent("message_stop", 0, "") \in BlockEvents /\ BlockEvent("message_stop", 0, "").type = "message_stop"
    BY ONLY <2>1, Spelled, EventForms, ZenonT(40)
  <2> QED BY <2>2, <2>3, <2>4
<1>1. \A ev \in BlockEvents :
         /\ Writes(wr, ev) \in Writers /\ Writes(wr, ev).late = wr.late
         /\ Writes(wr, ev).v.gone = wr.v.gone
         /\ quiet => /\ Writes(wr, ev).a = Fed(wr.a, ev)
                     /\ ev.type \in Writes(wr, ev).told /\ Writes(wr, ev).told \subseteq {ev.type}
                     /\ Writes(wr, ev).v.end =
                           IF ev.type = "error" THEN "error"
                           ELSE IF ev.type = "message_stop" /\ wr.v.end = "" THEN "ok" ELSE wr.v.end
  BY WritesForm, WritesEnd
<1> HIDE DEF quiet
<1>2. CASE e.kind = "text"
  <2>1. r = Writes(wr, BlockEvent("delta", 0, "text"))
    BY <1>2 DEF RawEvents
  <2> HIDE DEF r
  <2> QED BY <1>0, <1>1, <1>2, <2>1 DEF r, quiet, Speaks
<1>3. CASE e.kind = "tool"
  <2>1. r = Writes(wr, BlockEvent("start", e.n, "tool"))
    BY <1>3 DEF RawEvents
  <2> HIDE DEF r
  <2> QED BY <1>0, <1>1, <1>3, <2>1 DEF r, quiet, Speaks
<1>4. CASE e.kind = "args"
  <2>1. r = Writes(wr, BlockEvent("delta", e.n, "tool"))
    BY <1>4 DEF RawEvents
  <2> HIDE DEF r
  <2> QED BY <1>0, <1>1, <1>4, <2>1 DEF r, quiet, Speaks
<1>5. CASE e.kind = "reason"
  <2> DEFINE s == AnthropicReason(e.reason)
             ev == BlockEvent("message_delta", 0, s)
  <2>1. r = Writes(wr, ev)
    BY <1>5 DEF RawEvents
  <2>2. s \in Words
    BY DEF AnthropicReason, Words
  <2> HIDE DEF s
  <2>3. ev \in BlockEvents /\ ev.type = "message_delta"
    <3>1. 0 \in Nat
      OBVIOUS
    <3> QED BY ONLY <2>2, <3>1, EventForms
  <2> HIDE DEF ev, r
  <2>4. Fed(wr.a, ev) = wr.a
    BY <2>3, FedOther
  <2> QED BY <1>1, <1>5, <2>1, <2>3, <2>4 DEF r, quiet, Speaks
<1>6. CASE e.kind = "error"
  <2>1. r = Writes(wr, BlockEvent("error", 0, ""))
    BY <1>6 DEF RawEvents
  <2>2. Fed(wr.a, BlockEvent("error", 0, "")) = wr.a
    BY <1>0, FedOther
  <2> HIDE DEF r
  <2> QED BY <1>0, <1>1, <1>6, <2>1, <2>2 DEF r, quiet, Speaks
<1>7. CASE e.kind = "stop"
  <2>1. r = Writes(wr, BlockEvent("message_stop", 0, ""))
    BY <1>7 DEF RawEvents
  <2>2. Fed(wr.a, BlockEvent("message_stop", 0, "")) = wr.a
    BY <1>0, FedOther
  <2> HIDE DEF r
  <2> QED BY <1>0, <1>1, <1>7, <2>1, <2>2, ZenonT(40) DEF r, quiet, Speaks
<1>8. CASE e.kind \notin {"text", "tool", "args", "reason", "error", "stop"}
  <2>1. r = wr
    BY <1>8 DEF RawEvents
  <2> HIDE DEF r
  <2> QED BY <1>8, <2>1 DEF r, quiet, Speaks
<1> QED BY <1>2, <1>3, <1>4, <1>5, <1>6, <1>7, <1>8

LEMMA VerbatimStep ==
    ASSUME Typed, NEW e, e.kind \in Kinds, e.n \in Nat, NEW late \in {FALSE, view.gone},
           Verbatimly(e, late)
    PROVE  /\ acc' \in Answer /\ view' \in Client /\ row' \in Rows /\ pc' \in {"open", "done"}
           /\ br' = br /\ view'.gone = view.gone
           /\ ~view.gone =>
                 /\ e.kind = "text" => acc' = Fed(acc, BlockEvent("delta", 0, "text"))
                 /\ e.kind = "tool" => acc' = Fed(acc, BlockEvent("start", e.n, "tool"))
                 /\ e.kind = "args" => acc' = Fed(acc, BlockEvent("delta", e.n, "tool"))
                 /\ ~Speaks(e) => acc' = acc
                 /\ view'.end = IF e.kind = "error" THEN "error"
                                ELSE IF e.kind = "stop" /\ view.end = "" THEN "ok"
                                ELSE view.end
                 /\ row'.status = IF row.status = "error" \/ e.kind \in {"error", "drop"} THEN "error"
                                  ELSE IF e.kind = "close" THEN "ok" ELSE "none"
                 /\ (row.usage \/ e.kind = "reason") => row'.usage
                 /\ pc' = IF e.kind \in {"close", "drop"} THEN "done" ELSE "open"
<1> DEFINE wr == Writer(late)
           r == RawEvents(wr, e)
           over == e.kind \in {"close", "drop"}
           broke == e.kind = "drop"
<1>1. late \in BOOLEAN /\ (late => view.gone)
  BY DEF Typed, Client
<1>2. /\ wr \in Writers /\ wr.a = acc /\ wr.v = view /\ wr.told = {} /\ wr.late = late
  BY <1>1, WriterSound
<1>3. StreamMessages(r, TRUE, over, broke, "open") /\ br' = br
  BY DEF Verbatimly
<1> HIDE DEF wr
<1>4. /\ r \in Writers /\ r.late = wr.late /\ r.v.gone = wr.v.gone
      /\ (~wr.late /\ ~wr.v.gone /\ wr.told = {}) =>
            /\ e.kind = "text" => r.a = Fed(wr.a, BlockEvent("delta", 0, "text"))
            /\ e.kind = "tool" => r.a = Fed(wr.a, BlockEvent("start", e.n, "tool"))
            /\ e.kind = "args" => r.a = Fed(wr.a, BlockEvent("delta", e.n, "tool"))
            /\ ~Speaks(e) => r.a = wr.a
            /\ "error" \in r.told <=> e.kind = "error"
            /\ e.kind = "reason" => "message_delta" \in r.told
            /\ r.v.end = IF e.kind = "error" THEN "error"
                         ELSE IF e.kind = "stop" /\ wr.v.end = "" THEN "ok"
                         ELSE wr.v.end
  BY <1>2, RawForm
<1>5. over \in BOOLEAN /\ broke \in BOOLEAN
  OBVIOUS
<1> HIDE DEF r, over, broke
<1>6. /\ acc' = r.a /\ view' = r.v
      /\ row' \in Rows /\ pc' \in {"open", "backoff", "done"}
      /\ pc' = "backoff" => "open" = "backoff"
      /\ "message_delta" \in r.told => row'.usage
      /\ row.usage => row'.usage
      /\ ~r.late => /\ row'.status = IF Framed(r) \/ broke THEN "error"
                                     ELSE IF over THEN "ok" ELSE "none"
                    /\ pc' = IF over THEN "done" ELSE "open"
  <2>1. TRUE \in BOOLEAN /\ "open" \in {"open", "backoff"} /\ row \in Rows
    BY DEF Typed
  <2> QED BY <1>3, <1>4, <1>5, <2>1, StreamForm
<1>7. acc' \in Answer /\ view' \in Client /\ view'.gone = view.gone
  BY <1>2, <1>4, <1>6, WriterFields
<1>8. ASSUME ~view.gone
      PROVE  /\ e.kind = "text" => acc' = Fed(acc, BlockEvent("delta", 0, "text"))
             /\ e.kind = "tool" => acc' = Fed(acc, BlockEvent("start", e.n, "tool"))
             /\ e.kind = "args" => acc' = Fed(acc, BlockEvent("delta", e.n, "tool"))
             /\ ~Speaks(e) => acc' = acc
             /\ view'.end = IF e.kind = "error" THEN "error"
                            ELSE IF e.kind = "stop" /\ view.end = "" THEN "ok"
                            ELSE view.end
             /\ row'.status = IF row.status = "error" \/ e.kind \in {"error", "drop"} THEN "error"
                              ELSE IF e.kind = "close" THEN "ok" ELSE "none"
             /\ (row.usage \/ e.kind = "reason") => row'.usage
             /\ pc' = IF e.kind \in {"close", "drop"} THEN "done" ELSE "open"
  <2>1. ~wr.late /\ ~r.late /\ ~wr.v.gone /\ wr.told = {}
    BY <1>1, <1>2, <1>4, <1>8
  <2>2. Framed(r) <=> (row.status = "error" \/ e.kind = "error")
    BY <1>4, <2>1 DEF Framed
  <2>3. row'.status = IF row.status = "error" \/ e.kind \in {"error", "drop"} THEN "error"
                      ELSE IF e.kind = "close" THEN "ok" ELSE "none"
    BY <1>6, <2>1, <2>2 DEF over, broke
  <2>4. pc' = IF e.kind \in {"close", "drop"} THEN "done" ELSE "open"
    BY <1>6, <2>1 DEF over
  <2> QED BY <1>2, <1>4, <1>6, <2>1, <2>3, <2>4
<1> QED BY <1>3, <1>6, <1>7, <1>8

-----------------------------------------------------------------------------
(* A step keeps the types, and the client behind the bridge.                   *)

LEMMA HandledCases ==
    ASSUME path \in Paths, NEW e, NEW o, Handled(e, o)
    PROVE  \/ Bridged /\ ~Verbatim /\ \E late \in {FALSE, view.gone} : MessagesPassthrough(o, late)
           \/ Verbatim /\ ~Bridged /\ \E late \in {FALSE, view.gone} : Verbatimly(e, late)
           \/ ~Bridged /\ ~Verbatim /\ Frontend = "chat" /\ ChatStream(o) /\ br' = br
           \/ ~Bridged /\ ~Verbatim /\ Frontend = "complete" /\ CompleteWhole(o) /\ br' = br
<1>1. /\ Bridged => ~Verbatim /\ Frontend \notin {"chat", "complete"}
      /\ Verbatim => Frontend \notin {"chat", "complete"}
      /\ ~Bridged /\ ~Verbatim => Frontend \in {"chat", "complete"}
  BY PathCases
<1> HIDE DEF Bridged, Verbatim, Frontend
<1>2. CASE Bridged
  BY <1>1, <1>2 DEF Handled
<1>3. CASE Verbatim
  BY <1>1, <1>3 DEF Handled
<1>4. CASE ~Bridged /\ ~Verbatim /\ Frontend = "chat"
  BY <1>4 DEF Handled
<1>5. CASE ~Bridged /\ ~Verbatim /\ Frontend = "complete"
  BY <1>5 DEF Handled
<1> QED BY <1>1, <1>2, <1>3, <1>4, <1>5

LEMMA HandledTyped ==
    ASSUME Typed, BridgeFollowed, NEW o \in Outcomes,
           o.fate \notin {"goes on", "ended"} => o.chunk = NoChunk,
           NEW e, e.kind \in Kinds, e.n \in Nat, Handled(e, o)
    PROVE  /\ acc' \in Answer /\ view' \in Client /\ row' \in Rows /\ br' \in Bridger
           /\ pc' \in {"open", "backoff", "done"} /\ (pc' = "backoff" => o.fate = "retry")
           /\ view'.gone = view.gone
           /\ Numbered(br') /\ (Bridged => Follows(br', view'))
<1>0. path \in Paths /\ br \in Bridger /\ Numbered(br)
  BY DEF Typed, BridgeFollowed
<1>1. CASE Bridged /\ ~Verbatim /\ \E late \in {FALSE, view.gone} : MessagesPassthrough(o, late)
  <2>1. PICK late \in {FALSE, view.gone} : MessagesPassthrough(o, late)
    BY <1>1
  <2>2. /\ WellTyped(o) /\ br' \in Bridger /\ Numbered(br') /\ Follows(br', view')
    BY <1>1, <2>1, PassStep
  <2> QED BY <2>2 DEF WellTyped
<1>2. CASE Verbatim /\ ~Bridged /\ \E late \in {FALSE, view.gone} : Verbatimly(e, late)
  <2>1. PICK late \in {FALSE, view.gone} : Verbatimly(e, late)
    BY <1>2
  <2>2. /\ acc' \in Answer /\ view' \in Client /\ row' \in Rows /\ pc' \in {"open", "done"}
        /\ br' = br /\ view'.gone = view.gone
    BY <2>1, VerbatimStep
  <2>3. pc' \in {"open", "backoff", "done"} /\ pc' # "backoff"
    BY <2>2
  <2> QED BY <1>0, <1>2, <2>2, <2>3
<1>3. CASE ~Bridged /\ ~Verbatim /\ Frontend = "chat" /\ ChatStream(o) /\ br' = br
  <2>1. WellTyped(o)
    BY <1>3, ChatStep
  <2> QED BY <1>0, <1>3, <2>1 DEF WellTyped
<1>4. CASE ~Bridged /\ ~Verbatim /\ Frontend = "complete" /\ CompleteWhole(o) /\ br' = br
  <2>1. WellTyped(o)
    BY <1>4, CompleteStep
  <2> QED BY <1>0, <1>4, <2>1 DEF WellTyped
<1> QED BY <1>0, <1>1, <1>2, <1>3, <1>4, HandledCases

LEMMA StartTyped == ASSUME Init PROVE Typed /\ BridgeFollowed
<1>0. PICK w \in {FALSE, Provider = "gemini"} : up = [NewUp EXCEPT !.whole = w]
  BY DEF Init
<1>1. /\ path \in Paths /\ pc = "open" /\ ps = NewParser /\ br = NewWriter
      /\ acc = NewAcc /\ view = NewView /\ row = Row("none", FALSE)
  BY DEF Init
<1>2. MaxText \in Nat /\ MaxTools \in Nat /\ MaxArgs \in Nat /\ StreamRetries \in Nat
  BY StreamsAssumption
<1>3. "" \in Words /\ "stop" \in Words
  BY Spelled
<1> HIDE DEF Words
<1>4. up \in Up /\ Len(up.args) <= MaxTools
  <2>1. w \in BOOLEAN
    OBVIOUS
  <2>2. up = [text |-> 0, args |-> <<>>, last |-> 0, interleaved |-> FALSE, usage |-> FALSE,
              error |-> FALSE, failed |-> FALSE, completed |-> FALSE, stopped |-> FALSE,
              whole |-> w, flowing |-> FALSE, garbled |-> FALSE]
    BY <1>0 DEF NewUp
  <2>3. up \in Up
    BY <1>2, <2>1, <2>2 DEF Up
  <2>4. Len(up.args) <= MaxTools
    BY <1>2, <2>2
  <2> QED BY <2>3, <2>4
<1>5. ps \in Parser
  <2>1. <<>> \in Seq(Nat) /\ 0 \in 0..StreamRetries
    BY <1>2
  <2>2. ps = [tools |-> <<>>, finish |-> "", emitted |-> FALSE, attempt |-> 0,
              prev |-> FALSE]
    BY <1>1 DEF NewParser
  <2> QED BY ONLY <1>3, <2>1, <2>2 DEF Parser
<1>6. br \in Bridger /\ Numbered(br)
  <2>1. br = [kind |-> "", tool |-> -1, index |-> 0, next |-> 0, stop |-> "stop", usage |-> FALSE]
    BY <1>1 DEF NewWriter
  <2>2. br \in Bridger
    <3>1. "" \in {"", "text", "tool"} /\ -1 \in Int /\ 0 \in Nat /\ FALSE \in BOOLEAN
      OBVIOUS
    <3> QED BY ONLY <1>3, <2>1, <3>1, BridgerType
  <2>3. br.kind = "" /\ br.index = 0 /\ br.next = 0
    BY ONLY <2>1
  <2>4. Numbered(br)
    <3>1. br.index <= br.next
      <4>1. br.index = br.next
        BY ONLY <2>3
      <4>2. br.index \in Nat
        BY <2>2, BridgerFields
      <4>3. \A n \in Nat : n <= n
        OBVIOUS
      <4> QED BY ONLY <4>1, <4>2, <4>3
    <3> QED BY <2>3, <3>1 DEF Numbered
  <2> QED BY <2>2, <2>4
<1>7. acc \in Answer
  BY <1>1 DEF NewAcc, Answer
<1>8. view \in Client /\ Follows(br, view)
  <2>1. view = [open |-> -1, next |-> 0, broken |-> FALSE, finish |-> "", end |-> "", gone |-> FALSE]
    BY <1>1 DEF NewView
  <2>2. view \in Client
    <3>1. -1 \in Int /\ 0 \in Int /\ FALSE \in BOOLEAN /\ "" \in {"", "ok", "error"}
      OBVIOUS
    <3>2. Sight(-1, 0, FALSE, "", "", FALSE) \in Client
      BY ONLY <1>3, <3>1, SightType, ZenonT(40)
    <3> QED BY <2>1, <3>2 DEF Sight
  <2>3. br.kind = "" /\ br.next = 0
    BY <1>1 DEF NewWriter
  <2>4. ~view.broken /\ view.open = -1 /\ view.next = 0
    BY ONLY <2>1
  <2> QED BY <2>2, <2>3, <2>4 DEF Follows
<1>9. row \in Rows
  BY <1>1, RowType
<1> QED BY <1>1, <1>4, <1>5, <1>6, <1>7, <1>8, <1>9 DEF Typed, BridgeFollowed

LEMMA RetryTyped ==
    ASSUME Typed, Retry
    PROVE  /\ up' = NewUp /\ NewUp \in Up /\ Len(NewUp.args) <= MaxTools
           /\ ps' \in Parser /\ ps'.attempt = ps.attempt + 1 /\ ps'.tools = <<>>
           /\ ~ps'.emitted /\ ~ps'.prev
           /\ pc = "backoff" /\ pc' = "open"
<1>1. ps' = [NewParser EXCEPT !.attempt = ps.attempt + 1]
  BY DEF Retry
<1>2. pc = "backoff" /\ pc' = "open" /\ up' = NewUp
  BY DEF Retry
<1>3. ps.attempt \in 0..StreamRetries /\ ps.attempt < StreamRetries
  <2>1. ps \in Parser /\ ps.attempt < StreamRetries
    BY <1>2 DEF Typed
  <2> HIDE DEF Words
  <2> QED BY <2>1 DEF Parser
<1>4. MaxText \in Nat /\ MaxTools \in Nat /\ MaxArgs \in Nat /\ StreamRetries \in Nat
  BY StreamsAssumption
<1>5. "" \in Words
  BY Spelled
<1> HIDE DEF Words
<1>6. ps' = [tools |-> <<>>, finish |-> "", emitted |-> FALSE, attempt |-> ps.attempt + 1,
            prev |-> FALSE]
  BY <1>1 DEF NewParser
<1>7. ps.attempt + 1 \in 0..StreamRetries
  BY ONLY <1>3, <1>4
<1>8. ps' \in Parser
  <2> DEFINE n == ps.attempt + 1
  <2>1. n \in 0..StreamRetries
    BY <1>7
  <2>2. ps' = [tools |-> <<>>, finish |-> "", emitted |-> FALSE, attempt |-> n,
              prev |-> FALSE]
    BY <1>6
  <2>3. <<>> \in Seq(Nat)
    OBVIOUS
  <2> HIDE DEF n
  <2> QED BY ONLY <1>5, <2>1, <2>2, <2>3 DEF Parser
<1>9. NewUp \in Up /\ Len(NewUp.args) <= MaxTools
  <2>1. NewUp \in Up
    BY <1>4 DEF NewUp, Up
  <2>2. Len(NewUp.args) <= MaxTools
    BY <1>4 DEF NewUp
  <2> QED BY <2>1, <2>2
<1> QED BY <1>2, <1>6, <1>8, <1>9

LEMMA RefusedFits ==
    ASSUME Typed
    PROVE  /\ Fails \in Outcomes /\ Fails.fate = "failed" /\ Fails.chunk = NoChunk /\ Fails.ps = ps
           /\ Ev("drop", 0, "").kind = "drop" /\ Ev("drop", 0, "").n = 0
           /\ Ev("drop", 0, "").kind \in Kinds /\ Ev("drop", 0, "").n \in Nat
<1>1. ps \in Parser /\ "failed" \in Fates
  BY DEF Typed, Fates
<1>2. NoChunk \in Chunks
  BY ChunkTypes
<1>3. /\ Fails \in Outcomes /\ Fails.fate = "failed" /\ Fails.chunk = NoChunk /\ Fails.ps = ps
  BY <1>1, <1>2, OutcomeForms DEF Fails
<1> QED BY <1>3 DEF Ev, Kinds

\* The attempt that is refused has failed, whatever it said.
LEMMA RefusedUp ==
    ASSUME Typed
    PROVE  LET u == [up EXCEPT !.failed = TRUE]
           IN /\ u \in Up /\ u.args = up.args /\ u.text = up.text /\ u.last = up.last
              /\ u.failed /\ u.interleaved = up.interleaved /\ u.usage = up.usage
              /\ u.completed = up.completed /\ u.error = up.error /\ u.stopped = up.stopped
              /\ u.whole = up.whole /\ u.flowing = up.flowing /\ u.garbled = up.garbled
<1>1. up \in Up
  BY DEF Typed
<1> QED BY <1>1 DEF Up

LEMMA StepTyped ==
    ASSUME Typed, BridgeFollowed, [Next]_vars
    PROVE  Typed' /\ BridgeFollowed'
<1>0. path \in Paths /\ up \in Up /\ ps \in Parser /\ Len(up.args) <= MaxTools
  BY DEF Typed
<1>1. CASE Event
  <2>1. PICK e \in Events : /\ pc = "open" /\ up' = Said(e) /\ ps' = Parsed(e).ps
                            /\ Handled(e, Parsed(e)) /\ path' = path
    BY <1>1 DEF Event
  <2> DEFINE o == Parsed(e)
  <2>2. Fits(e, o)
    BY <1>0, ParsedFits
  <2>3. e.kind \in Kinds /\ e.n \in Nat
    BY <1>0, EventCases
  <2>4. Said(e) \in Up /\ Len(Said(e).args) <= MaxTools
    BY <1>0, UpAfter
  <2> HIDE DEF o
  <2>5. /\ o \in Outcomes /\ (o.fate \notin {"goes on", "ended"} => o.chunk = NoChunk)
        /\ (o.fate = "retry" => Provider = "chatgpt" /\ ps.attempt < StreamRetries)
        /\ o.ps.attempt = ps.attempt
    BY <2>2 DEF Fits
  <2>6. o.ps \in Parser
    <3> HIDE DEF Parser, Chunks
    <3> QED BY <2>5 DEF Outcomes
  <2>7. /\ acc' \in Answer /\ view' \in Client /\ row' \in Rows /\ br' \in Bridger
        /\ pc' \in {"open", "backoff", "done"} /\ (pc' = "backoff" => o.fate = "retry")
        /\ Numbered(br') /\ (Bridged => Follows(br', view'))
    <3>1. Handled(e, o)
      BY <2>1 DEF o
    <3> QED BY <2>3, <2>5, <3>1, HandledTyped
  <2>8. ps' = o.ps /\ path' = path /\ up' \in Up /\ Len(up'.args) <= MaxTools
    BY <2>1, <2>4 DEF o
  <2>9. pc' = "backoff" => Provider' = "chatgpt" /\ ps'.attempt < StreamRetries
    <3>1. Provider' = Provider
      BY <2>8 DEF Provider
    <3> QED BY <2>5, <2>7, <2>8, <3>1
  <2>10. Typed'
    BY <1>0, <2>6, <2>7, <2>8, <2>9 DEF Typed
  <2> QED BY <2>7, <2>8, <2>10 DEF BridgeFollowed, Bridged
<1>2. CASE Retry
  <2>1. /\ up' \in Up /\ Len(up'.args) <= MaxTools /\ ps' \in Parser /\ pc' = "open"
    BY <1>2, RetryTyped
  <2>2. path' = path /\ br' = br /\ acc' = acc /\ view' = view /\ row' = row
    BY <1>2 DEF Retry
  <2> QED BY <2>1, <2>2 DEF Typed, BridgeFollowed, Bridged
<1>3. CASE RetryRefused
  <2>1. /\ pc = "backoff" /\ up' = [up EXCEPT !.failed = TRUE]
        /\ Handled(Ev("drop", 0, ""), Fails) /\ path' = path /\ ps' = ps
    BY <1>3 DEF RetryRefused
  <2> DEFINE o == Fails
             e == Ev("drop", 0, "")
  <2>2. /\ o \in Outcomes /\ o.fate = "failed" /\ o.chunk = NoChunk
        /\ e.kind \in Kinds /\ e.n \in Nat /\ Handled(e, o)
    BY <2>1, RefusedFits
  <2> HIDE DEF o, e
  <2>3. /\ acc' \in Answer /\ view' \in Client /\ row' \in Rows /\ br' \in Bridger
        /\ pc' \in {"open", "backoff", "done"} /\ pc' # "backoff"
        /\ Numbered(br') /\ (Bridged => Follows(br', view'))
    BY <2>2, HandledTyped
  <2>4. up' \in Up /\ Len(up'.args) <= MaxTools
    BY <1>0, <2>1, RefusedUp
  <2> QED BY <1>0, <2>1, <2>3, <2>4 DEF Typed, BridgeFollowed, Bridged
<1>4. CASE ClientLeaves
  <2>1. /\ view' = [view EXCEPT !.gone = TRUE]
        /\ path' = path /\ up' = up /\ ps' = ps /\ br' = br /\ acc' = acc /\ row' = row /\ pc' = pc
    BY <1>4 DEF ClientLeaves
  <2>2. view \in Client
    BY DEF Typed
  <2>3. view' \in Client /\ view'.broken = view.broken /\ view'.gone
    <3> HIDE DEF Words
    <3> QED BY <2>1, <2>2 DEF Client
  <2>4. Typed'
    BY <2>1, <2>3 DEF Typed, Provider
  <2>5. Bridged => Follows(br', view')
    BY <2>1, <2>3 DEF BridgeFollowed, Follows
  <2> QED BY <2>1, <2>4, <2>5 DEF BridgeFollowed, Bridged
<1>5. CASE UNCHANGED vars
  BY <1>5 DEF vars, Typed, BridgeFollowed, Bridged, Provider
<1> QED BY <1>1, <1>2, <1>3, <1>4, <1>5 DEF Next

LEMMA TypedIsTypeOK == ASSUME Typed, BridgeFollowed PROVE TypeOK
<1>1. /\ path \in Paths /\ pc \in {"open", "backoff", "done"} /\ Len(up.args) <= MaxTools
      /\ up \in Up /\ ps \in Parser /\ br \in Bridger /\ acc \in Answer /\ view \in Client
      /\ row \in Rows /\ Numbered(br)
  BY DEF Typed, BridgeFollowed
<1>2. up.text \in 0..MaxText /\ up.args \in Seq(0..MaxArgs)
  BY <1>1 DEF Up
<1> HIDE DEF Words
<1>3. ps.attempt \in 0..StreamRetries /\ ps.emitted \in BOOLEAN
  BY <1>1 DEF Parser
<1>4. br.kind \in {"", "text", "tool"} /\ br.next \in Nat /\ br.index \in 0..br.next
  <2>1. br.kind \in {"", "text", "tool"} /\ br.next \in Nat /\ br.index \in Nat
    BY <1>1, BridgerFields
  <2>2. br.index <= br.next
    BY <1>1 DEF Numbered
  <2>3. br.next \in Nat /\ br.index \in Nat
    BY <2>1
  <2>4. br.index \in 0..br.next
    BY ONLY <2>2, <2>3
  <2> QED BY <2>1, <2>4
<1>5. acc.text \in Nat /\ acc.calls \in Seq([key : Int, args : Nat])
  BY <1>1 DEF Answer
<1>6. row.status \in {"none", "ok", "error"} /\ row.usage \in BOOLEAN
  BY <1>1, RowFields
<1>7. view.end \in {"", "ok", "error"} /\ view.gone \in BOOLEAN
  BY <1>1 DEF Client
<1> QED BY <1>1, <1>2, <1>3, <1>4, <1>5, <1>6, <1>7 DEF TypeOK

(***************************************************************************)
(* The invariant the others rest on: the records of parser, writer, answer *)
(* and client are what they should be, a parser counts each call once, and *)
(* the client behind the bridge sees the block the writer has open.        *)
(***************************************************************************)
THEOREM Induction == Spec => [](Typed /\ BridgeFollowed)
<1>1. Init => Typed /\ BridgeFollowed
  BY StartTyped
<1>2. Typed /\ BridgeFollowed /\ [Next]_vars => (Typed /\ BridgeFollowed)'
  BY StepTyped
<1> QED BY <1>1, <1>2, PTL DEF Spec

(***************************************************************************)
(* Every variable stays in its type, and the counters in their bounds:     *)
(* fragments per call, calls per answer, attempts of the ChatGPT client    *)
(* (StreamRetries of chatgpt.go), whatever frontend the stream feeds.      *)
(***************************************************************************)
THEOREM TypeCorrect == Spec => []TypeOK
BY Induction, TypedIsTypeOK, PTL

(***************************************************************************)
(* Whatever the order of chunks, failures and retries, the bridge of       *)
(* /v1/messages writes a stream an Anthropic client can follow.            *)
(***************************************************************************)
THEOREM BridgeKeepsForm == Spec => []BridgeWellFormed
<1>1. Typed /\ BridgeFollowed => BridgeWellFormed
  BY DEF BridgeFollowed, Follows, BridgeWellFormed
<1> QED BY <1>1, Induction, PTL

-----------------------------------------------------------------------------
(* How a stream ends: for the client, for the row and for the ledger.          *)

\* Gemini's parser does not see an error object.
Forgiven == up.error => Provider = "gemini"
\* The client of the pass-through has what the upstream sent so far.
Relayed ==
    /\ ~up.failed
    /\ \/ view.end = "" /\ row.status = "none"
       \/ view.end = "ok" /\ row.status = "none" /\ up.stopped
       \/ view.end = "error" /\ row.status = "error"
    /\ up.error => view.end = "error"
DroppedLate == Verbatim /\ up.stopped /\ up.failed /\ row.status = "error"
\* What holds while the client is there.
Earned ==
    /\ (pc # "done" /\ ~Verbatim) => Waiting /\ (pc = "open" => ~up.failed /\ Forgiven)
    /\ (pc # "done" /\ Verbatim) => Relayed
    /\ (pc = "done" /\ view.end # "") => row.status = view.end \/ DroppedLate
    /\ (pc = "done" /\ view.end = "ok") =>
          /\ up.failed => Verbatim /\ up.stopped
          /\ Forgiven
          /\ Provider = "chatgpt" => up.completed
    /\ (pc = "open" /\ up.usage /\ (Verbatim \/ Provider \in {"gemini", "openai"})) => row.usage
    /\ (pc = "done" /\ view.end = "ok" /\ up.usage) => row.usage
Outcome == ~view.gone => Earned

LEMMA HandledTold ==
    ASSUME Typed, BridgeFollowed, ~Verbatim, ~view.gone, Waiting, NEW o \in Outcomes,
           o.fate \notin {"goes on", "ended"} => o.chunk = NoChunk, NEW e, Handled(e, o)
    PROVE  /\ Told(o)
           /\ (o.fate = "ended" /\ o.chunk.usage) => row'.usage
           /\ (Provider \in {"gemini", "openai"} /\ o.fate # "failed"
               /\ (row.usage \/ o.chunk.usage)) => row'.usage
<1>0. /\ path \in Paths
      /\ Bridged => Provider = "chatgpt"
      /\ Frontend = "complete" => Provider = "chatgpt"
  BY PathCases DEF Typed
<1> HIDE DEF Provider
<1>1. CASE Bridged /\ ~Verbatim /\ \E late \in {FALSE, view.gone} : MessagesPassthrough(o, late)
  <2>1. PICK late \in {FALSE, view.gone} : MessagesPassthrough(o, late)
    BY <1>1
  <2>2. Told(o) /\ ((o.fate = "ended" /\ (br.usage \/ o.chunk.usage)) => row'.usage)
    BY <1>1, <2>1, PassStep
  <2> QED BY <1>0, <1>1, <2>2
<1>2. CASE ~Bridged /\ ~Verbatim /\ Frontend = "chat" /\ ChatStream(o) /\ br' = br
  <2>1. Told(o) /\ (o.fate # "failed" => row'.usage = (row.usage \/ o.chunk.usage))
    BY <1>2, ChatStep
  <2> QED BY <2>1
<1>3. CASE ~Bridged /\ ~Verbatim /\ Frontend = "complete" /\ CompleteWhole(o) /\ br' = br
  <2>1. Told(o) /\ (o.fate = "ended" => row'.usage = (row.usage \/ o.chunk.usage))
    BY <1>3, CompleteStep
  <2> QED BY <1>0, <1>3, <2>1
<1> QED BY <1>0, <1>1, <1>2, <1>3, HandledCases

LEMMA SaidFacts ==
    ASSUME NEW e
    PROVE  /\ Said(e).usage = (up.usage \/ e.kind = (IF Provider = "openai" THEN "usage" ELSE "reason"))
           /\ Said(e).error = (up.error \/ e.kind = "error")
           /\ Said(e).failed =
                 (up.failed \/ e.kind \in {"drop", "blocked"} \/ (e.kind = "odd" /\ ~Verbatim))
           /\ Said(e).completed = (up.completed \/ e.kind = "reason")
           /\ Said(e).stopped = (up.stopped \/ e.kind = "stop")
           /\ Said(e).garbled = (up.garbled \/ Garbles(e))
           /\ Said(e).last = (IF Speaks(e) THEN e.n ELSE up.last)
           /\ Said(e).interleaved = (up.interleaved \/ (e.kind = "args" /\ up.last # e.n))
BY DEF Said, Speaks

LEMMA EventEarned ==
    ASSUME Typed, BridgeFollowed, Earned, ~view.gone, pc = "open",
           NEW e \in Events, up' = Said(e), path' = path, Handled(e, Parsed(e))
    PROVE  Earned'
<1>0. path \in Paths /\ up \in Up /\ ps \in Parser
  BY DEF Typed
<1>1. Verbatim' = Verbatim /\ Provider' = Provider
  BY DEF Verbatim, Provider
<1>2. /\ e.kind \in Kinds /\ e.n \in Nat
      /\ e.kind = "usage" => Provider \in {"gemini", "openai"}
      /\ e.kind = "blocked" => Provider = "gemini"
  BY <1>0, EventCases
<1>3. /\ up'.usage = (up.usage \/ e.kind = (IF Provider = "openai" THEN "usage" ELSE "reason"))
      /\ up'.error = (up.error \/ e.kind = "error")
      /\ up'.failed =
            (up.failed \/ e.kind \in {"drop", "blocked"} \/ (e.kind = "odd" /\ ~Verbatim))
      /\ up'.completed = (up.completed \/ e.kind = "reason")
      /\ up'.stopped = (up.stopped \/ e.kind = "stop")
  BY SaidFacts
<1>4. Provider \in Providers
  BY <1>0, PathCases
<1>5. CASE ~Verbatim
  <2> DEFINE o == Parsed(e)
  <2>1. Fits(e, o)
    BY <1>0, ParsedFits
  <2>2. Handled(e, o)
    OBVIOUS
  <2> HIDE DEF o
  <2>3. Waiting /\ ~up.failed /\ Forgiven
    BY <1>5 DEF Earned
  <2>4. /\ o \in Outcomes /\ (o.fate \notin {"goes on", "ended"} => o.chunk = NoChunk)
        /\ Broken(e) => o.fate \in {"failed", "retry"}
        /\ o.fate = "ended" => e.kind = IF Provider = "chatgpt" THEN "reason" ELSE "close"
        /\ (o.fate = "ended" /\ Provider \in {"anthropic", "chatgpt"}) => o.chunk.usage
        /\ (Provider = "gemini" /\ e.kind = "reason") => o.chunk.usage
        /\ (Provider = "openai" /\ e.kind = "usage") => o.chunk.usage
    BY <2>1 DEF Fits
  <2>5. /\ Told(o)
        /\ (o.fate = "ended" /\ o.chunk.usage) => row'.usage
        /\ (Provider \in {"gemini", "openai"} /\ o.fate # "failed"
            /\ (row.usage \/ o.chunk.usage)) => row'.usage
    BY <1>5, <2>2, <2>3, <2>4, HandledTold
  <2>6. Attempted(o) = IF o.fate = "retry" THEN "backoff" ELSE "open"
    BY DEF Attempted
  <2>7. up.usage /\ Provider \in {"gemini", "openai"} => row.usage
    BY DEF Earned
  <2>8. o.fate # "failed" /\ Provider \in {"gemini", "openai"} /\ up'.usage => row'.usage
    <3>1. up'.usage => up.usage \/ (Provider = "gemini" /\ e.kind = "reason") \/ (Provider = "openai" /\ e.kind = "usage") \/ Provider \in {"anthropic", "chatgpt"}
      BY <1>3, <1>4 DEF Providers
    <3>2. Provider \in {"gemini", "openai"} => Provider \notin {"anthropic", "chatgpt"}
      OBVIOUS
    <3> HIDE DEF Provider
    <3> QED BY <2>4, <2>5, <2>7, <3>1, <3>2
  <2>9. CASE o.fate = "failed"
    <3>1. pc' = "done" /\ view'.end = "error" /\ row'.status = "error"
      BY <2>5, <2>9 DEF Told
    <3> QED BY <3>1 DEF Earned
  <2>10. CASE o.fate = "ended"
    <3>1. pc' = "done" /\ view'.end = "ok" /\ row'.status = "ok"
      BY <2>5, <2>10 DEF Told
    <3>2. ~up'.failed /\ Forgiven' /\ (Provider = "chatgpt" => up'.completed)
      BY <1>1, <1>3, <2>3, <2>4, <2>10 DEF Forgiven
    <3>3. up'.usage => row'.usage
      BY <1>4, <2>4, <2>5, <2>8, <2>10 DEF Providers
    <3> QED BY <1>1, <3>1, <3>2, <3>3 DEF Earned
  <2>11. CASE o.fate \notin {"failed", "ended"}
    <3>1. pc' = Attempted(o) /\ view'.end = "" /\ row'.status = "none"
      BY <2>5, <2>11 DEF Told
    <3>2. pc' # "done" /\ Waiting'
      BY <2>6, <3>1 DEF Waiting
    <3>3. pc' = "open" => ~up'.failed /\ Forgiven'
      <4>1. pc' = "open" => o.fate # "retry"
        BY <2>6, <3>1
      <4>2. Broken(e) => o.fate = "retry"
        BY <2>4, <2>11
      <4> HIDE DEF Provider, Verbatim
      <4>3. pc' = "open" => ~up'.failed
        BY <1>3, <2>3, <4>1, <4>2 DEF Broken
      <4>4. pc' = "open" => Forgiven'
        BY <1>1, <1>3, <2>3, <4>1, <4>2 DEF Broken, Forgiven
      <4> QED BY <4>3, <4>4
    <3>4. Provider \in {"gemini", "openai"} /\ up'.usage => row'.usage
      BY <2>8, <2>11
    <3> QED BY <1>1, <1>5, <3>2, <3>3, <3>4 DEF Earned
  <2> QED BY <2>9, <2>10, <2>11
<1>6. CASE Verbatim
  <2>0. ~Bridged /\ Provider = "anthropic"
    BY <1>0, <1>6, PathCases
  <2>1. PICK late \in {FALSE, view.gone} : Verbatimly(e, late)
    BY <1>0, <1>6, HandledCases
  <2>2. /\ view'.end = IF e.kind = "error" THEN "error"
                       ELSE IF e.kind = "stop" /\ view.end = "" THEN "ok"
                       ELSE view.end
        /\ row'.status = IF row.status = "error" \/ e.kind \in {"error", "drop"} THEN "error"
                         ELSE IF e.kind = "close" THEN "ok" ELSE "none"
        /\ (row.usage \/ e.kind = "reason") => row'.usage
        /\ pc' = IF e.kind \in {"close", "drop"} THEN "done" ELSE "open"
    BY <1>2, <2>1, VerbatimStep
  <2>3. Relayed
    BY <1>6 DEF Earned
  <2>4. up'.usage => row'.usage
    <3>1. up.usage => row.usage
      BY <1>6 DEF Earned
    <3>2. up'.usage => up.usage \/ e.kind = "reason"
      BY <1>3, <2>0
    <3> QED BY <2>2, <3>1, <3>2
  <2>5. up'.failed = (e.kind = "drop")
    BY <1>2, <1>3, <1>6, <2>0, <2>3 DEF Relayed
  <2> HIDE DEF Provider, Verbatim, Bridged
  <2>6. CASE e.kind = "close"
    <3>1. pc' = "done"
      BY <2>2, <2>6
    <3>2. view'.end # "" => row'.status = view'.end
      BY <2>2, <2>3, <2>6 DEF Relayed
    <3>3. view'.end = "ok" => ~up'.failed /\ ~up'.error
      BY <1>3, <2>2, <2>3, <2>5, <2>6 DEF Relayed
    <3> QED BY <1>1, <2>0, <2>4, <3>1, <3>2, <3>3 DEF Earned, Forgiven
  <2>7. CASE e.kind = "drop"
    <3>1. pc' = "done" /\ view'.end = view.end /\ row'.status = "error" /\ up'.failed
      BY <2>2, <2>5, <2>7
    <3>2. view'.end = "ok" => up'.stopped /\ ~up'.error
      BY <1>3, <2>3, <2>7, <3>1 DEF Relayed
    <3>3. view'.end \in {"", "ok", "error"}
      BY <2>3, <3>1 DEF Relayed
    <3>4. view'.end # "" => row'.status = view'.end \/ DroppedLate'
      BY <1>1, <1>6, <3>1, <3>2, <3>3 DEF DroppedLate
    <3> QED BY <1>1, <1>6, <2>0, <2>4, <3>1, <3>2, <3>4 DEF Earned, Forgiven
  <2>8. CASE e.kind \notin {"close", "drop"}
    <3>1. pc' = "open"
      BY <2>2, <2>8
    <3>2. \/ view'.end = "" /\ row'.status = "none"
          \/ view'.end = "ok" /\ row'.status = "none" /\ up'.stopped
          \/ view'.end = "error" /\ row'.status = "error"
      <4>1. CASE e.kind = "error"
        BY <2>2, <4>1
      <4>2. CASE e.kind = "stop"
        BY <1>3, <2>2, <2>3, <4>2 DEF Relayed
      <4>3. CASE e.kind \notin {"error", "stop"}
        BY <1>3, <2>2, <2>3, <2>8, <4>3 DEF Relayed
      <4> QED BY <4>1, <4>2, <4>3
    <3>3. up'.error => view'.end = "error"
      BY <1>3, <2>2, <2>3 DEF Relayed
    <3>4. ~up'.failed
      BY <2>5, <2>8
    <3>5. Relayed'
      BY <3>2, <3>3, <3>4 DEF Relayed
    <3> QED BY <1>1, <1>6, <2>4, <3>1, <3>5 DEF Earned
  <2> QED BY <2>6, <2>7, <2>8
<1> QED BY <1>5, <1>6

LEMMA StartEarned == ASSUME Init PROVE Outcome
<1>1. PICK w \in {FALSE, Provider = "gemini"} : up = [NewUp EXCEPT !.whole = w]
  BY DEF Init
<1>2. ~up.error /\ ~up.failed /\ ~up.usage
  BY <1>1 DEF NewUp
<1>3. pc = "open" /\ view.end = "" /\ row.status = "none"
  BY DEF Init, NewView, Row
<1> QED BY <1>2, <1>3 DEF Outcome, Earned, Waiting, Forgiven, Relayed

LEMMA StepOutcome ==
    ASSUME Typed, BridgeFollowed, Outcome, [Next]_vars
    PROVE  Outcome'
<1>0. path \in Paths /\ up \in Up /\ ps \in Parser /\ view.gone \in BOOLEAN
  BY DEF Typed, Client
<1>1. CASE Event
  <2>1. PICK e \in Events : /\ pc = "open" /\ up' = Said(e) /\ path' = path
                            /\ Handled(e, Parsed(e))
    BY <1>1 DEF Event
  <2>2. view'.gone = view.gone
    <3> DEFINE o == Parsed(e)
    <3>1. Fits(e, o)
      BY <1>0, ParsedFits
    <3>2. Handled(e, o)
      BY <2>1
    <3> HIDE DEF o
    <3>3. e.kind \in Kinds /\ e.n \in Nat
      BY <1>0, EventCases
    <3>4. o \in Outcomes /\ (o.fate \notin {"goes on", "ended"} => o.chunk = NoChunk)
      BY <3>1 DEF Fits
    <3> QED BY <3>2, <3>3, <3>4, HandledTyped
  <2>3. ~view.gone => Earned'
    <3>1. ~view.gone => Earned
      BY DEF Outcome
    <3> QED BY <2>1, <3>1, EventEarned
  <2> QED BY <2>2, <2>3 DEF Outcome
<1>2. CASE Retry
  <2>1. /\ pc = "backoff" /\ pc' = "open" /\ up' = NewUp
        /\ path' = path /\ view' = view /\ row' = row
    BY <1>2 DEF Retry
  <2>2. Verbatim' = Verbatim /\ Provider' = Provider /\ ~Verbatim
    <3>1. Provider = "chatgpt"
      BY <2>1 DEF Typed
    <3>2. ~Verbatim
      BY <1>0, <3>1, PathCases
    <3> QED BY <2>1, <3>2 DEF Verbatim, Provider
  <2>3. ~up'.failed /\ ~up'.usage /\ ~up'.error
    BY <2>1 DEF NewUp
  <2> QED BY <2>1, <2>2, <2>3 DEF Outcome, Earned, Waiting, Forgiven
<1>3. CASE RetryRefused
  <2>1. /\ pc = "backoff" /\ Handled(Ev("drop", 0, ""), Fails) /\ path' = path
    BY <1>3 DEF RetryRefused
  <2>2. ~Verbatim
    <3>1. Provider = "chatgpt"
      BY <2>1 DEF Typed
    <3> QED BY <1>0, <3>1, PathCases
  <2>3. /\ Fails \in Outcomes /\ Fails.fate = "failed" /\ Fails.chunk = NoChunk
        /\ Ev("drop", 0, "").kind \in Kinds /\ Ev("drop", 0, "").n \in Nat
    BY RefusedFits
  <2>4. view'.gone = view.gone
    BY <2>1, <2>3, HandledTyped
  <2>5. ASSUME ~view.gone
        PROVE  pc' = "done" /\ view'.end = "error" /\ row'.status = "error"
    <3>1. Waiting
      BY <2>1, <2>2, <2>5 DEF Outcome, Earned
    <3>2. Told(Fails)
      BY <2>1, <2>2, <2>3, <2>5, <3>1, HandledTold
    <3> QED BY <2>3, <3>2 DEF Told
  <2> QED BY <2>4, <2>5 DEF Outcome, Earned
<1>4. CASE ClientLeaves
  <2>1. view' = [view EXCEPT !.gone = TRUE] /\ view \in Client
    BY <1>4 DEF ClientLeaves, Typed
  <2>2. view'.gone
    <3> HIDE DEF Words
    <3> QED BY <2>1 DEF Client
  <2> QED BY <2>2 DEF Outcome
<1>5. CASE UNCHANGED vars
  BY <1>5 DEF vars, Outcome, Earned, Waiting, Forgiven, Relayed, DroppedLate, Verbatim, Provider
<1> QED BY <1>1, <1>2, <1>3, <1>4, <1>5 DEF Next

(***************************************************************************)
(* A client that stayed was told nothing final before the stream is over,  *)
(* and then what the row says; usage once reported is on its way to it.    *)
(***************************************************************************)
THEOREM Endings == Spec => []Outcome
<1>1. Init => Outcome
  BY StartEarned
<1>2. Typed /\ BridgeFollowed /\ Outcome /\ [Next]_vars => Outcome'
  BY StepOutcome
<1> QED BY <1>1, <1>2, Induction, PTL DEF Spec

(***************************************************************************)
(* A failure the upstream tells, or a Responses stream that stops without  *)
(* its verdict, never reaches a client as a clean end, but for the error   *)
(* objects Gemini's parser does not read and the drop that follows an      *)
(* Anthropic stream's own end.                                             *)
(***************************************************************************)
THEOREM CleanEnds == Spec => []CleanEndIsEarned
<1>1. Outcome => CleanEndIsEarned
  BY DEF Outcome, Earned, Forgiven, CleanEndIsEarned, Ended
<1> QED BY <1>1, Endings, PTL

(***************************************************************************)
(* The row of a request whose client stayed says how the stream ended for  *)
(* that client, or that the upstream of a pass-through dropped after the   *)
(* message_stop the client saw.                                            *)
(***************************************************************************)
THEOREM AuditCorrect == Spec => []AuditMatchesClient
<1>1. Outcome => AuditMatchesClient
  BY DEF Outcome, Earned, DroppedLate, AuditMatchesClient
<1> QED BY <1>1, Endings, PTL

(***************************************************************************)
(* Tokens the upstream reported are on the row of every request that ends  *)
(* well.                                                                   *)
(***************************************************************************)
THEOREM UsageKept == Spec => []UsageReachesLedger
<1>1. Outcome => UsageReachesLedger
  BY DEF Outcome, Earned, UsageReachesLedger, Ended
<1> QED BY <1>1, Endings, PTL

-----------------------------------------------------------------------------
(* Reassembly: the answer grows with what the upstream says.                   *)

Alike(a, u) ==
    /\ a.text = u.text /\ Len(a.calls) = Len(u.args)
    /\ \A i \in 1..Len(u.args) : a.calls[i].args = u.args[i]
\* No other call is kept under the key of call n.
Alone(a, n) == \A i \in 1..Len(a.calls) : a.calls[i].key = a.calls[n].key => i = n

LEMMA AnswerFields ==
    ASSUME NEW a \in Answer
    PROVE  /\ a.text \in Nat /\ a.calls \in Seq(Call) /\ a = [text |-> a.text, calls |-> a.calls]
           /\ Len(a.calls) \in Nat /\ DOMAIN a.calls = 1..Len(a.calls)
           /\ \A i \in 1..Len(a.calls) : a.calls[i].key \in Int /\ a.calls[i].args \in Nat
<1>1. a.text \in Nat /\ a.calls \in Seq(Call) /\ a = [text |-> a.text, calls |-> a.calls]
  BY DEF Answer, Call
<1>2. \A i \in 1..Len(a.calls) : a.calls[i] \in Call
  BY <1>1
<1>3. \A i \in 1..Len(a.calls) : a.calls[i].key \in Int /\ a.calls[i].args \in Nat
  BY <1>2 DEF Call
<1>4. Len(a.calls) \in Nat /\ DOMAIN a.calls = 1..Len(a.calls)
  BY <1>1
<1> QED BY <1>1, <1>3, <1>4

Entry(k, x) == [key |-> k, args |-> x]

\* A fragment of text.
LEMMA TextGrows ==
    ASSUME NEW a, NEW b, NEW u, NEW v, Alike(a, u),
           b.text = a.text + 1, b.calls = a.calls, v.text = u.text + 1, v.args = u.args
    PROVE  Alike(b, v)
BY DEF Alike

\* A new call, under key k.
Grown(a, b, u, v, k) ==
    /\ Alike(b, v)
    /\ Len(v.args) = Len(u.args) + 1
    /\ \A i \in 1..Len(u.args) : b.calls[i].key = a.calls[i].key
    /\ b.calls[Len(u.args) + 1].key = k

LEMMA CallGrows ==
    ASSUME NEW a \in Answer, NEW b, NEW u \in Up, NEW v, Alike(a, u), NEW k \in Int, NEW x \in Nat,
           b.text = a.text, b.calls = Append(a.calls, Entry(k, x)),
           v.text = u.text, v.args = Append(u.args, x)
    PROVE  Grown(a, b, u, v, k)
<1> DEFINE c == Entry(k, x)
           n == Len(u.args)
<1>1. a.calls \in Seq(Call) /\ Len(a.calls) = n
  BY AnswerFields DEF Alike
<1>2. u.args \in Seq(0..MaxArgs) /\ n \in Nat
  BY DEF Up
<1>3. c \in Call /\ c.key = k /\ c.args = x
  BY DEF Call, Entry
<1> HIDE DEF c, Call
<1>4. /\ Len(b.calls) = n + 1 /\ b.calls[n + 1] = c
      /\ \A i \in 1..n : b.calls[i] = a.calls[i]
  <2>1. b.calls = Append(a.calls, c)
    BY DEF c
  <2> QED BY <1>1, <1>2, <1>3, <2>1
<1>5. /\ Len(v.args) = n + 1 /\ v.args[n + 1] = x
      /\ \A i \in 1..n : v.args[i] = u.args[i]
  <2> QED BY <1>2
<1> HIDE DEF n
<1>6. \A i \in 1..n : a.calls[i].args = u.args[i]
  BY DEF Alike, n
<1>7. \A i \in 1..(n + 1) : i \in 1..n \/ i = n + 1
  BY <1>2 DEF n
<1>8. \A i \in 1..(n + 1) : b.calls[i].args = v.args[i]
  <2> TAKE i \in 1..(n + 1)
  <2>1. CASE i \in 1..n
    BY <1>4, <1>5, <1>6, <2>1
  <2>2. CASE i = n + 1
    BY <1>3, <1>4, <1>5, <2>2
  <2> QED BY <1>7, <2>1, <2>2
<1>9. b.text = v.text
  BY DEF Alike
<1>10. Alike(b, v)
  BY <1>4, <1>5, <1>8, <1>9 DEF Alike
<1> QED BY <1>3, <1>4, <1>5, <1>10 DEF n, Grown

\* A fragment of the arguments of call n.
Longer(a, b, u, v) ==
    /\ Alike(b, v)
    /\ Len(v.args) = Len(u.args)
    /\ \A i \in 1..Len(u.args) : b.calls[i].key = a.calls[i].key
Bumped(args, n) == [args EXCEPT ![n] = @ + 1]

LEMMA ArgsGrow ==
    ASSUME NEW a \in Answer, NEW b, NEW u \in Up, NEW v, Alike(a, u), NEW n \in 1..Len(u.args),
           Alone(a, n), b.text = a.text, b.calls = Merged(a.calls, a.calls[n].key, 1),
           v.text = u.text, v.args = Bumped(u.args, n)
    PROVE  Longer(a, b, u, v)
<1> DEFINE k == a.calls[n].key
           m == Len(u.args)
<1>1. /\ a.calls \in Seq(Call) /\ Len(a.calls) = m /\ DOMAIN a.calls = 1..m
      /\ \A i \in 1..m : a.calls[i].key \in Int /\ a.calls[i].args \in Nat
      /\ k \in Int
  <2>1. Len(a.calls) = m
    BY DEF Alike
  <2> QED BY <2>1, AnswerFields
<1>2. u.args \in Seq(0..MaxArgs) /\ m \in Nat /\ n \in 1..m
  BY DEF Up
<1>3. \E i \in DOMAIN a.calls : a.calls[i].key = k
  BY <1>1, <1>2
<1>4. /\ Len(b.calls) = m
      /\ \A i \in 1..m : b.calls[i] = [key |-> a.calls[i].key,
                           args |-> IF a.calls[i].key = k THEN a.calls[i].args + 1 ELSE a.calls[i].args]
  <2>1. 1 \in Nat /\ b.calls = Merged(a.calls, k, 1)
    OBVIOUS
  <2> HIDE DEF k, m
  <2> QED BY ONLY <1>1, <1>3, <2>1, MergedHit
<1>5. \A i \in 1..m : (a.calls[i].key = k) <=> (i = n)
  BY <1>1, <1>2 DEF Alone
<1>6. /\ Len(v.args) = m
      /\ \A i \in 1..m : v.args[i] = IF i = n THEN u.args[i] + 1 ELSE u.args[i]
  BY <1>2 DEF Bumped
<1> HIDE DEF k, m
<1>7. \A i \in 1..m : b.calls[i].args = v.args[i] /\ b.calls[i].key = a.calls[i].key
  <2> TAKE i \in 1..m
  <2>1. a.calls[i].args = u.args[i]
    BY DEF Alike, m
  <2>2. /\ b.calls[i].args = IF a.calls[i].key = k THEN a.calls[i].args + 1 ELSE a.calls[i].args
        /\ b.calls[i].key = a.calls[i].key
    <3> DEFINE x == IF a.calls[i].key = k THEN a.calls[i].args + 1 ELSE a.calls[i].args
    <3>1. b.calls[i] = [key |-> a.calls[i].key, args |-> x]
      BY <1>4
    <3> HIDE DEF x
    <3>2. b.calls[i].args = x /\ b.calls[i].key = a.calls[i].key
      BY ONLY <3>1
    <3> QED BY <3>2 DEF x
  <2>3. CASE i = n
    BY <1>5, <1>6, <2>1, <2>2, <2>3
  <2>4. CASE i # n
    BY <1>5, <1>6, <2>1, <2>2, <2>4
  <2> QED BY <2>3, <2>4
<1>8. Alike(b, v)
  <2>1. b.text = v.text
    BY DEF Alike
  <2> QED BY <1>4, <1>6, <1>7, <2>1 DEF Alike
<1> QED BY <1>6, <1>7, <1>8 DEF m, Longer

\* The assembler of /v1/messages.
LEMMA FedText ==
    ASSUME NEW a \in Answer, NEW i
    PROVE  LET x == Fed(a, BlockEvent("delta", i, "text"))
           IN x.text = a.text + 1 /\ x.calls = a.calls
<1>1. Fed(a, BlockEvent("delta", i, "text")) = [a EXCEPT !.text = @ + 1]
  BY DEF Fed, BlockEvent
<1>2. a = [text |-> a.text, calls |-> a.calls]
  BY AnswerFields
<1>3. [a EXCEPT !.text = @ + 1] = [text |-> a.text + 1, calls |-> a.calls]
  BY ONLY <1>2
<1> QED BY ONLY <1>1, <1>3

LEMMA FedStart ==
    ASSUME NEW a \in Answer, NEW i
    PROVE  LET x == Fed(a, BlockEvent("start", i, "tool"))
           IN x.text = a.text /\ x.calls = Append(a.calls, Entry(i, 0))
<1> DEFINE c == Append(a.calls, Entry(i, 0))
<1>1. Fed(a, BlockEvent("start", i, "tool")) = [a EXCEPT !.calls = c]
  BY DEF Fed, BlockEvent, Entry
<1>2. a = [text |-> a.text, calls |-> a.calls]
  BY AnswerFields
<1> HIDE DEF c
<1>3. [a EXCEPT !.calls = c] = [text |-> a.text, calls |-> c]
  BY ONLY <1>2
<1> QED BY ONLY <1>1, <1>3 DEF c

LEMMA FedArgs ==
    ASSUME NEW a \in Answer, NEW n \in 1..Len(a.calls)
    PROVE  LET x == Fed(a, BlockEvent("delta", a.calls[n].key, "tool"))
           IN x.text = a.text /\ x.calls = Merged(a.calls, a.calls[n].key, 1)
<1> DEFINE k == a.calls[n].key
           c == Merged(a.calls, k, 1)
           ev == BlockEvent("delta", k, "tool")
<1>1. \E i \in DOMAIN a.calls : a.calls[i].key = ev.index
  BY AnswerFields DEF BlockEvent
<1>2. ev.type = "delta" /\ ev.what = "tool" /\ ev.index = k
  BY DEF BlockEvent
<1> HIDE DEF ev, k
<1>3. Fed(a, ev) = [a EXCEPT !.calls = c]
  BY <1>1, <1>2 DEF Fed
<1>4. a = [text |-> a.text, calls |-> a.calls]
  BY AnswerFields
<1> HIDE DEF c
<1>5. [a EXCEPT !.calls = c] = [text |-> a.text, calls |-> c]
  BY ONLY <1>4
<1> QED BY <1>3, <1>5 DEF c, ev, k

\* The accumulators of the chat endpoint and of Complete.
LEMMA AddedText ==
    ASSUME NEW a \in Answer, NEW t \in Nat
    PROVE  LET y == Added(a, Chunk(t, NoCall, "", FALSE))
           IN y.text = a.text + t /\ y.calls = a.calls
BY DEF Added, Chunk

\* A delta of Gemini is right unless it garbles.
LEMMA PlainText ==
    ASSUME NEW e, up \in Up, ps \in Parser, e.kind = "text",
           Provider = "gemini" => ps.prev = up.flowing /\ ~Garbles(e)
    PROVE  TextPart(e) = Chunk(1, NoCall, "", FALSE)
<1>1. up.text \in Nat /\ up.whole \in BOOLEAN /\ up.flowing \in BOOLEAN
  BY StreamsAssumption DEF Up
<1>2. CASE Provider = "gemini" /\ up.whole
  <2>1. ps.prev \/ up.text = 0
    BY <1>1, <1>2 DEF Garbles
  <2>2. Trimmed(e) = 1
    BY <1>2, <2>1 DEF Trimmed
  <2> QED BY <1>2, <2>2 DEF TextPart
<1>3. CASE Provider = "gemini" /\ ~up.whole
  <2>1. e.reason # "echo"
    BY <1>3 DEF Garbles
  <2>2. Trimmed(e) = 1
    BY <1>3, <2>1 DEF Trimmed
  <2> QED BY <1>3, <2>2 DEF TextPart
<1>4. CASE Provider # "gemini"
  BY <1>4 DEF TextPart, Text
<1> QED BY <1>1, <1>2, <1>3, <1>4

LEMMA AddedCall ==
    ASSUME NEW a \in Answer, NEW i \in Int, i # -2, NEW named \in BOOLEAN, NEW x \in 0..1
    PROVE  LET y == Added(a, Calls(Fragment(i, named, x)))
           IN /\ y.text = a.text
              /\ y.calls = Merged(a.calls, KeyOf(Fragment(i, named, x), a.calls), x)
              /\ i # -1 => KeyOf(Fragment(i, named, x), a.calls) = i
              /\ (i = -1 /\ Frontend # "complete") => KeyOf(Fragment(i, named, x), a.calls) = 0
<1> DEFINE f == Fragment(i, named, x)
           c == Calls(f)
<1>1. f.idx = i /\ f.args = x
  BY DEF Fragment
<1>2. f # NoCall
  BY <1>1 DEF NoCall, Fragment
<1>3. c.text = 0 /\ c.call = f
  BY DEF Calls, Chunk
<1>4. Added(a, c) = [text |-> a.text + c.text, calls |-> Merged(a.calls, KeyOf(f, a.calls), x)]
  BY <1>1, <1>2, <1>3 DEF Added
<1>5. a.text + 0 = a.text
  <2>1. a.text \in Nat
    BY AnswerFields
  <2> QED BY ONLY <2>1
<1> HIDE DEF f, c
<1>6. Added(a, c).text = a.text /\ Added(a, c).calls = Merged(a.calls, KeyOf(f, a.calls), x)
  BY <1>3, <1>4, <1>5
<1>7. i # -1 => KeyOf(f, a.calls) = i
  BY <1>1 DEF KeyOf, ChatKey, CompleteKey
<1>8. (i = -1 /\ Frontend # "complete") => KeyOf(f, a.calls) = 0
  BY <1>1 DEF KeyOf, ChatKey
<1> QED BY <1>6, <1>7, <1>8 DEF c, f

LEMMA NewCall ==
    ASSUME NEW a \in Answer, NEW b, NEW u \in Up, NEW v, Alike(a, u), NEW k \in Int, NEW x \in Nat,
           \A i \in 1..Len(a.calls) : a.calls[i].key # k,
           b.text = a.text, b.calls = Merged(a.calls, k, x),
           v.text = u.text, v.args = Append(u.args, x)
    PROVE  Grown(a, b, u, v, k)
<1>1. a.calls \in Seq(Call) /\ DOMAIN a.calls = 1..Len(a.calls)
  BY AnswerFields
<1>2. ~ \E i \in DOMAIN a.calls : a.calls[i].key = k
  BY <1>1
<1>3. b.calls = Append(a.calls, Entry(k, x))
  BY <1>1, <1>2, MergedMiss DEF Entry
<1>4. /\ a \in Answer /\ u \in Up /\ Alike(a, u) /\ k \in Int /\ x \in Nat /\ b.text = a.text
      /\ v.text = u.text /\ v.args = Append(u.args, x)
  OBVIOUS
<1> HIDE DEF Answer, Up
<1> QED BY ONLY <1>3, <1>4, CallGrows

\* Calls kept under their own numbers, less d.
Keyed(a, d) == \A i \in 1..Len(a.calls) : a.calls[i].key = i - d

LEMMA KeyedAlone ==
    ASSUME NEW a \in Answer, NEW d \in Nat, Keyed(a, d), NEW n \in 1..Len(a.calls)
    PROVE  Alone(a, n)
<1>1. Len(a.calls) \in Nat
  BY AnswerFields
<1>2. \A i \in 1..Len(a.calls) : i - d = n - d => i = n
  BY ONLY <1>1, d \in Nat, n \in 1..Len(a.calls)
<1> QED BY <1>2 DEF Keyed, Alone

LEMMA KeyedCall ==
    ASSUME NEW a \in Answer, NEW b \in Answer, NEW d \in Nat, NEW n \in Nat, Keyed(a, d),
           Len(a.calls) = n, Len(b.calls) = n + 1,
           \A i \in 1..n : b.calls[i].key = a.calls[i].key,
           b.calls[n + 1].key = n + 1 - d
    PROVE  Keyed(b, d)
<1>1. \A i \in 1..(n + 1) : i \in 1..n \/ i = n + 1
  BY ONLY n \in Nat
<1>2. \A i \in 1..n : b.calls[i].key = i - d
  BY DEF Keyed
<1> QED BY <1>1, <1>2 DEF Keyed

LEMMA KeyedMiss ==
    ASSUME NEW a \in Answer, NEW d \in Nat, Keyed(a, d)
    PROVE  \A i \in 1..Len(a.calls) : a.calls[i].key # Len(a.calls) + 1 - d
<1>1. Len(a.calls) \in Nat
  BY AnswerFields
<1>2. \A i \in 1..Len(a.calls) : i - d # Len(a.calls) + 1 - d
  BY ONLY <1>1, d \in Nat
<1> QED BY <1>2 DEF Keyed

\* The chat endpoint and Complete: the chunk of an event adds what the upstream said.
LEMMA AddedGrows ==
    ASSUME NEW e \in Events, path \in Paths, up \in Up, Len(up.args) <= MaxTools, acc \in Answer,
           ps \in Parser, NEW o, Fits(e, o),
           ~Bridged, ~Verbatim,
           Provider \in {"anthropic", "chatgpt"} => Len(ps.tools) = Len(up.args),
           Provider = "gemini" => ps.prev = up.flowing,
           Provider = "gemini" => Len(Said(e).args) <= 1 /\ ~Said(e).garbled,
           Alike(acc, up), Keyed(acc, 1)
    PROVE  /\ Alike(Added(acc, o.chunk), Said(e))
           /\ Keyed(Added(acc, o.chunk), 1)
<1> DEFINE b == Added(acc, o.chunk)
           v == Said(e)
           n == Len(up.args)
<1>1. /\ o \in Outcomes
      /\ e.kind = "text" => o.chunk = TextPart(e)
      /\ e.kind = "tool" => o.chunk = Calls(ToolPart(e))
      /\ e.kind = "args" => o.chunk = Calls(Fragment(e.n - 1, FALSE, 1))
      /\ ~Speaks(e) => o.chunk.text = 0 /\ o.chunk.call = NoCall
  BY DEF Fits
<1>2. /\ e.kind \in Kinds /\ e.n \in Nat
      /\ e.kind = "tool" => e.n = n + 1
      /\ e.kind = "args" => e.n \in 1..n
  BY EventCases
<1>3. /\ v \in Up
      /\ e.kind = "text" => v.text = up.text + 1 /\ v.args = up.args
      /\ e.kind = "tool" =>
            /\ v.text = up.text
            /\ v.args = Append(up.args, IF Provider = "gemini" THEN 1 ELSE 0)
      /\ e.kind = "args" => v.text = up.text /\ v.args = [up.args EXCEPT ![e.n] = @ + 1]
      /\ ~Speaks(e) => v.text = up.text /\ v.args = up.args
  BY UpAfter DEF Speaks
<1>4. o.chunk \in Chunks /\ b \in Answer
  BY <1>1, OutcomeFields, AddedType
<1>5. Len(acc.calls) = n /\ n \in Nat
  BY AnswerFields DEF Alike
<1>6. Provider \in Providers /\ (Frontend = "complete" => Provider = "chatgpt")
  BY PathCases
<1> HIDE DEF v, b
<1>7. CASE e.kind = "text"
  <2>0. o.chunk = Chunk(1, NoCall, "", FALSE)
    <3>1. Provider = "gemini" => ~Garbles(e)
      BY SaidFacts
    <3> QED BY <1>1, <1>7, <3>1, PlainText
  <2>1. b.text = acc.text + 1 /\ b.calls = acc.calls
    <3>1. 1 \in Nat /\ b = Added(acc, Chunk(1, NoCall, "", FALSE))
      BY <2>0 DEF b
    <3> QED BY <3>1, AddedText
  <2>2. Alike(b, v)
    BY <1>3, <1>7, <2>1, TextGrows
  <2>3. Keyed(b, 1)
    BY <2>1 DEF Keyed
  <2> QED BY <2>2, <2>3 DEF b, v
<1>8. CASE e.kind = "tool"
  <2> DEFINE x == IF Provider = "gemini" THEN 1 ELSE 0
  <2>1. x \in 0..1 /\ x \in Nat /\ v.text = up.text /\ v.args = Append(up.args, x)
    BY <1>3, <1>8
  <2>2. b.text = acc.text /\ b.calls = Merged(acc.calls, n, x)
    <3>0. -1 \in Int /\ -1 # -2 /\ n \in Int /\ n # -1 /\ n # -2 /\ 0 \in 0..1 /\ 1 \in 0..1
      BY <1>5
    <3>1. CASE Provider = "gemini"
      <4>1. o.chunk = Calls(Fragment(-1, TRUE, 1)) /\ x = 1
        BY <1>1, <1>8, <3>1 DEF ToolPart
      <4>2. KeyOf(Fragment(-1, TRUE, 1), acc.calls) = 0
        BY <1>6, <3>0, <3>1, AddedCall
      <4>3. n = 0
        <5>1. Len(v.args) = n + 1 /\ Len(v.args) <= 1
          <6>1. Len(Append(up.args, x)) = n + 1
            BY DEF Up
          <6> QED BY <2>1, <3>1, <6>1 DEF v
        <5> QED BY ONLY <1>5, <5>1
      <4>4. b = Added(acc, Calls(Fragment(-1, TRUE, 1)))
        BY <4>1 DEF b
      <4>5. b.text = acc.text /\ b.calls = Merged(acc.calls, KeyOf(Fragment(-1, TRUE, 1), acc.calls), 1)
        BY <3>0, <4>4, AddedCall
      <4> QED BY <4>1, <4>2, <4>3, <4>5
    <3>2. CASE Provider = "openai"
      <4>1. o.chunk = Calls(Fragment(e.n - 1, TRUE, 0)) /\ x = 0
        BY <1>1, <1>8, <3>2 DEF ToolPart
      <4>2. e.n - 1 = n
        <5>1. e.n = n + 1
          BY <1>2, <1>8
        <5> QED BY ONLY <1>5, <5>1
      <4>3. o.chunk = Calls(Fragment(n, TRUE, 0))
        BY <4>1, <4>2
      <4>4. KeyOf(Fragment(n, TRUE, 0), acc.calls) = n
        BY <3>0, AddedCall
      <4>5. b = Added(acc, Calls(Fragment(n, TRUE, 0)))
        BY <4>3 DEF b
      <4>6. b.text = acc.text /\ b.calls = Merged(acc.calls, KeyOf(Fragment(n, TRUE, 0), acc.calls), 0)
        BY <3>0, <4>5, AddedCall
      <4> QED BY <4>1, <4>4, <4>6
    <3>3. CASE Provider \in {"anthropic", "chatgpt"}
      <4>1. o.chunk = Calls(Fragment(Len(ps.tools), TRUE, 0)) /\ x = 0
        BY <1>1, <1>8, <3>3 DEF ToolPart
      <4>3. o.chunk = Calls(Fragment(n, TRUE, 0))
        BY <3>3, <4>1
      <4>4. KeyOf(Fragment(n, TRUE, 0), acc.calls) = n
        BY <3>0, AddedCall
      <4>5. b = Added(acc, Calls(Fragment(n, TRUE, 0)))
        BY <4>3 DEF b
      <4>6. b.text = acc.text /\ b.calls = Merged(acc.calls, KeyOf(Fragment(n, TRUE, 0), acc.calls), 0)
        BY <3>0, <4>5, AddedCall
      <4> QED BY <4>1, <4>4, <4>6
    <3> QED BY <1>6, <3>1, <3>2, <3>3 DEF Providers
  <2> HIDE DEF x, n
  <2>3. n \in Int /\ n + 1 - 1 = n
    BY ONLY <1>5
  <2>4. \A i \in 1..Len(acc.calls) : acc.calls[i].key # n
    <3>1. \A i \in 1..Len(acc.calls) : acc.calls[i].key # Len(acc.calls) + 1 - 1
      <4>1. 1 \in Nat
        OBVIOUS
      <4> QED BY <4>1, KeyedMiss
    <3> QED BY <1>5, <2>3, <3>1
  <2>5. Grown(acc, b, up, v, n)
    <3>1. acc \in Answer /\ up \in Up /\ Alike(acc, up)
      OBVIOUS
    <3> HIDE DEF Answer, Up
    <3> QED BY ONLY <2>1, <2>2, <2>3, <2>4, <3>1, NewCall
  <2>6. Keyed(b, 1)
    <3>1. /\ Len(b.calls) = n + 1 /\ (\A i \in 1..n : b.calls[i].key = acc.calls[i].key)
          /\ b.calls[n + 1].key = n + 1 - 1
      BY <2>3, <2>5 DEF Grown, Alike, n
    <3>2. 1 \in Nat
      OBVIOUS
    <3> QED BY <1>4, <1>5, <3>1, <3>2, KeyedCall
  <2> QED BY <2>5, <2>6 DEF Grown, b, v
<1>9. CASE e.kind = "args"
  <2>1. e.n \in 1..n /\ e.n - 1 \in Int /\ e.n - 1 # -1 /\ e.n - 1 # -2
    <3>1. e.n \in 1..n
      BY <1>2, <1>9
    <3> QED BY ONLY <1>5, <3>1
  <2> DEFINE k == e.n - 1
  <2>2. /\ o.chunk = Calls(Fragment(k, FALSE, 1))
        /\ FALSE \in BOOLEAN /\ 1 \in 0..1
    <3>1. FALSE \in BOOLEAN /\ 1 \in 0..1
      OBVIOUS
    <3>2. o.chunk = Calls(Fragment(e.n - 1, FALSE, 1))
      BY <1>1, <1>9
    <3> QED BY <3>1, <3>2
  <2>3. k \in Int /\ k # -1 /\ k # -2
    BY <2>1
  <2>4. acc.calls[e.n].key = k
    BY <1>5, <2>1 DEF Keyed
  <2> HIDE DEF k, n
  <2>5. b.text = acc.text /\ b.calls = Merged(acc.calls, k, 1)
    <3>1. KeyOf(Fragment(k, FALSE, 1), acc.calls) = k
      BY <2>2, <2>3, AddedCall
    <3>2. b = Added(acc, Calls(Fragment(k, FALSE, 1)))
      BY <2>2 DEF b
    <3>3. b.text = acc.text /\ b.calls = Merged(acc.calls, KeyOf(Fragment(k, FALSE, 1), acc.calls), 1)
      BY <2>2, <2>3, <3>2, AddedCall
    <3> QED BY <3>1, <3>3
  <2>6. Alone(acc, e.n)
    <3>1. e.n \in 1..Len(acc.calls) /\ 1 \in Nat
      BY <1>5, <2>1
    <3> QED BY <3>1, KeyedAlone
  <2>7. Longer(acc, b, up, v)
    <3>1. e.n \in 1..Len(up.args)
      BY <2>1 DEF n
    <3>2. v.text = up.text /\ v.args = Bumped(up.args, e.n)
      BY <1>3, <1>9 DEF Bumped
    <3>3. b.calls = Merged(acc.calls, acc.calls[e.n].key, 1)
      BY <2>4, <2>5
    <3> QED BY <2>5, <2>6, <3>1, <3>2, <3>3, ArgsGrow
  <2>8. Keyed(b, 1)
    <3>1. Len(b.calls) = Len(acc.calls) /\ \A i \in 1..Len(acc.calls) : b.calls[i].key = acc.calls[i].key
      BY <1>5, <2>7 DEF Longer, Alike, n
    <3> QED BY <3>1 DEF Keyed
  <2> QED BY <2>7, <2>8 DEF Longer, b, v
<1>10. CASE ~Speaks(e)
  <2>1. b = acc
    BY <1>1, <1>4, <1>10, AddedNothing DEF b
  <2>2. Alike(b, v)
    BY <1>3, <1>10, <2>1 DEF Alike
  <2> QED BY <2>1, <2>2 DEF b, v
<1> QED BY <1>7, <1>8, <1>9, <1>10 DEF Speaks

\* What an Anthropic upstream writes, read on the side.
LEMMA RawGrows ==
    ASSUME NEW e \in Events, path \in Paths, up \in Up, Len(up.args) <= MaxTools, acc \in Answer,
           Verbatim, Alike(acc, up), Keyed(acc, 0), NEW b \in Answer,
           e.kind = "text" => b = Fed(acc, BlockEvent("delta", 0, "text")),
           e.kind = "tool" => b = Fed(acc, BlockEvent("start", e.n, "tool")),
           e.kind = "args" => b = Fed(acc, BlockEvent("delta", e.n, "tool")),
           ~Speaks(e) => b = acc
    PROVE  Alike(b, Said(e)) /\ Keyed(b, 0)
<1> DEFINE v == Said(e)
           n == Len(up.args)
<1>1. Provider # "gemini"
  BY PathCases
<1>2. /\ e.kind \in Kinds /\ e.n \in Nat
      /\ e.kind = "tool" => e.n = n + 1
      /\ e.kind = "args" => e.n \in 1..n
  BY EventCases
<1>3. /\ e.kind = "text" => v.text = up.text + 1 /\ v.args = up.args
      /\ e.kind = "tool" => v.text = up.text /\ v.args = Append(up.args, 0)
      /\ e.kind = "args" => v.text = up.text /\ v.args = [up.args EXCEPT ![e.n] = @ + 1]
      /\ ~Speaks(e) => v.text = up.text /\ v.args = up.args
  BY <1>1, UpAfter DEF Speaks
<1>4. Len(acc.calls) = n /\ n \in Nat /\ n \in Int /\ 0 \in Nat
  BY AnswerFields DEF Alike
<1> HIDE DEF v
<1>5. CASE e.kind = "text"
  <2>1. b.text = acc.text + 1 /\ b.calls = acc.calls
    BY <1>5, FedText
  <2>2. Alike(b, v)
    BY <1>3, <1>5, <2>1, TextGrows
  <2>3. Keyed(b, 0)
    BY <2>1 DEF Keyed
  <2> QED BY <2>2, <2>3 DEF v
<1>6. CASE e.kind = "tool"
  <2> DEFINE k == n + 1
  <2>1. e.n = k
    BY <1>2, <1>6
  <2>2. k \in Int /\ k - 0 = k
    BY ONLY <1>4
  <2> HIDE DEF k
  <2>3. b.text = acc.text /\ b.calls = Append(acc.calls, Entry(k, 0))
    <3>1. b = Fed(acc, BlockEvent("start", k, "tool"))
      BY <1>6, <2>1
    <3> QED BY <3>1, FedStart
  <2>4. Grown(acc, b, up, v, k)
    <3>1. v.text = up.text /\ v.args = Append(up.args, 0)
      BY <1>3, <1>6
    <3>2. acc \in Answer /\ up \in Up /\ Alike(acc, up)
      OBVIOUS
    <3> HIDE DEF Answer, Up
    <3> QED BY ONLY <1>4, <2>2, <2>3, <3>1, <3>2, CallGrows
  <2>5. Keyed(b, 0)
    <3>1. /\ Len(b.calls) = n + 1 /\ (\A i \in 1..n : b.calls[i].key = acc.calls[i].key)
          /\ b.calls[n + 1].key = n + 1 - 0
      BY <2>2, <2>4 DEF Grown, Alike, k
    <3> HIDE DEF n
    <3> QED BY <1>4, <3>1, KeyedCall
  <2> QED BY <2>4, <2>5 DEF Grown, v
<1>7. CASE e.kind = "args"
  <2>1. e.n \in 1..n
    BY <1>2, <1>7
  <2>2. acc.calls[e.n].key = e.n
    <3>1. acc.calls[e.n].key = e.n - 0
      BY <1>4, <2>1 DEF Keyed
    <3>2. e.n - 0 = e.n
      BY ONLY <1>2
    <3> QED BY <3>1, <3>2
  <2> HIDE DEF n
  <2>3. b.text = acc.text /\ b.calls = Merged(acc.calls, acc.calls[e.n].key, 1)
    <3>1. b = Fed(acc, BlockEvent("delta", acc.calls[e.n].key, "tool"))
      BY <1>7, <2>2
    <3>2. e.n \in 1..Len(acc.calls)
      BY <1>4, <2>1
    <3> QED BY <3>1, <3>2, FedArgs
  <2>4. Alone(acc, e.n)
    BY <1>4, <2>1, KeyedAlone
  <2>5. Longer(acc, b, up, v)
    <3>1. e.n \in 1..Len(up.args)
      BY <2>1 DEF n
    <3>2. v.text = up.text /\ v.args = Bumped(up.args, e.n)
      BY <1>3, <1>7 DEF Bumped
    <3>3. acc \in Answer /\ up \in Up /\ Alike(acc, up)
      OBVIOUS
    <3> HIDE DEF Answer, Up
    <3> QED BY ONLY <2>3, <2>4, <3>1, <3>2, <3>3, ArgsGrow
  <2>6. Keyed(b, 0)
    <3>1. Len(b.calls) = Len(acc.calls) /\ \A i \in 1..Len(acc.calls) : b.calls[i].key = acc.calls[i].key
      BY <1>4, <2>5 DEF Longer, Alike, n
    <3> QED BY <3>1 DEF Keyed
  <2> QED BY <2>5, <2>6 DEF Longer, v
<1>8. CASE ~Speaks(e)
  BY <1>3, <1>8 DEF Alike, v
<1> QED BY <1>5, <1>6, <1>7, <1>8 DEF Speaks

\* The bridge's writer, chunk by chunk.
LEMMA TextWritten ==
    ASSUME NEW wr, Sound(wr), ~wr.late
    PROVE  LET h == HandleChunk(wr, Text)
           IN /\ h.w.kind = "text" /\ h.w.next \in Nat /\ wr.w.next <= h.w.next
              /\ h.a.text = wr.a.text + 1 /\ h.a.calls = wr.a.calls
<1> DEFINE h == HandleChunk(wr, Text)
           s == OpenText(wr)
           t == Delta(s, "text")
           x == HandleToolDelta(t, NoCall)
<1>1. Text \in Chunks /\ NoCall \in Part /\ Text.text = 1 /\ Text.call = NoCall
  BY ChunkTypes DEF Text, Chunk
<1>2. Text.text # 0
  BY <1>1
<1>3. /\ Sound(h) /\ Sound(t)
      /\ h.w.kind = x.w.kind /\ h.w.next = x.w.next /\ h.a = x.a
  <2> DEFINE tt == IF Text.text = 0 THEN wr ELSE t
             xx == HandleToolDelta(tt, Text.call)
  <2>1. tt = t /\ xx = x
    BY <1>1, <1>2
  <2>2. /\ Sound(h) /\ Proper(wr, tt) /\ h.w.kind = xx.w.kind /\ h.w.next = xx.w.next /\ h.a = xx.a
    BY <1>1, ChunkForm
  <2> HIDE DEF h, t, x, tt, xx
  <2> QED BY <2>1, <2>2 DEF Proper
<1>4. /\ Proper(wr, s) /\ s.w.kind = "text" /\ wr.w.next <= s.w.next /\ s.a = wr.a
  BY OpenTextForm
<1>5. Sound(s) /\ ~s.late
  BY <1>4 DEF Proper, Carried
<1>6. t.w = s.w /\ t.a = Fed(s.a, BlockEvent("delta", s.w.index, "text"))
  <2> HIDE DEF s
  <2>1. s.w.kind # "" /\ "text" \in {"text", "tool"}
    BY <1>4
  <2> QED BY <1>5, <2>1, DeltaForm
<1>7. x = t
  BY <1>1, <1>3, ToolDeltaForm
<1>8. wr.a \in Answer /\ h.w \in Bridger
  BY <1>3, SoundFields
<1>9. h.w.next \in Nat
  BY <1>8, BridgerFields
<1> HIDE DEF h, s, t, x
<1>10. h.a = Fed(wr.a, BlockEvent("delta", s.w.index, "text"))
  BY <1>3, <1>4, <1>6, <1>7
<1>11. h.a.text = wr.a.text + 1 /\ h.a.calls = wr.a.calls
  BY <1>8, <1>10, FedText
<1>12. h.w.kind = "text" /\ h.w.next = s.w.next
  BY <1>3, <1>4, <1>6, <1>7
<1> QED BY <1>4, <1>9, <1>11, <1>12 DEF h

LEMMA CallWritten ==
    ASSUME NEW wr, Sound(wr), ~wr.late, NEW p \in Part, p # NoCall
    PROVE  LET h == HandleChunk(wr, Calls(p))
               x == HandleToolDelta(wr, p)
           IN /\ h.w.kind = x.w.kind /\ h.w.tool = x.w.tool /\ h.w.index = x.w.index
              /\ h.w.next = x.w.next /\ h.a = x.a
<1> DEFINE h == HandleChunk(wr, Calls(p))
           c == Calls(p)
           tt == IF c.text = 0 THEN wr ELSE Delta(OpenText(wr), "text")
           xx == HandleToolDelta(tt, c.call)
<1>1. c \in Chunks /\ c.text = 0 /\ c.call = p
  <2>0. "" \in Words
    BY Spelled
  <2>1. 0 \in 0..1
    OBVIOUS
  <2>2. c = [text |-> 0, call |-> p, finish |-> "", usage |-> FALSE]
    BY DEF Calls, Chunk
  <2> HIDE DEF c, Part, Words
  <2>3. c \in Chunks
    BY <2>0, <2>1, <2>2 DEF Chunks
  <2> QED BY <2>2, <2>3
<1>2. tt = wr /\ xx = HandleToolDelta(wr, p)
  BY <1>1
<1>3. /\ h.w.kind = xx.w.kind /\ h.w.tool = xx.w.tool /\ h.w.index = xx.w.index
      /\ h.w.next = xx.w.next /\ h.a = xx.a
  BY <1>1, ChunkForm
<1> HIDE DEF h, tt, xx
<1> QED BY <1>2, <1>3 DEF h

LEMMA ToolWritten ==
    ASSUME NEW wr, Sound(wr), ~wr.late, NEW i \in Nat, ~(wr.w.kind = "tool" /\ wr.w.tool = i)
    PROVE  LET h == HandleChunk(wr, Calls(Fragment(i, TRUE, 0)))
           IN /\ h.w.kind = "tool" /\ h.w.tool = i /\ h.w.index = wr.w.next
              /\ h.w.next = wr.w.next + 1
              /\ h.a.text = wr.a.text /\ h.a.calls = Append(wr.a.calls, Entry(wr.w.next, 0))
<1> DEFINE p == Fragment(i, TRUE, 0)
           h == HandleChunk(wr, Calls(p))
           x == OpenTool(wr, i)
<1>1. p \in Part /\ p # NoCall /\ p.named /\ p.args = 0 /\ p.idx = i
  <2>1. p.named /\ p.args = 0 /\ p.idx = i
    BY DEF Fragment
  <2>2. p # NoCall
    BY <2>1 DEF NoCall, Fragment
  <2>3. p \in Part
    <3>1. i \in Int /\ TRUE \in BOOLEAN /\ 0 \in 0..1
      OBVIOUS
    <3> QED BY <3>1, ChunkTypes
  <2> QED BY <2>1, <2>2, <2>3
<1> HIDE DEF p
<1>2. HandleToolDelta(wr, p) = x
  BY <1>1, ToolDeltaForm
<1>3. /\ h.w.kind = x.w.kind /\ h.w.tool = x.w.tool /\ h.w.index = x.w.index
      /\ h.w.next = x.w.next /\ h.a = x.a
  BY <1>1, <1>2, CallWritten
<1>4. /\ x.w.kind = "tool" /\ x.w.tool = i /\ x.w.index = wr.w.next
      /\ x.w.next = wr.w.next + 1 /\ x.a = Fed(wr.a, BlockEvent("start", wr.w.next, "tool"))
  BY OpenToolForm
<1>5. wr.a \in Answer
  BY SoundFields
<1> HIDE DEF h, x
<1>6. h.a = Fed(wr.a, BlockEvent("start", wr.w.next, "tool"))
  BY <1>3, <1>4
<1>7. h.a.text = wr.a.text /\ h.a.calls = Append(wr.a.calls, Entry(wr.w.next, 0))
  BY <1>5, <1>6, FedStart
<1>8. /\ h.w.kind = "tool" /\ h.w.tool = i /\ h.w.index = wr.w.next
      /\ h.w.next = wr.w.next + 1
  BY <1>3, <1>4
<1> QED BY <1>7, <1>8 DEF h, p

LEMMA ArgsWritten ==
    ASSUME NEW wr, Sound(wr), ~wr.late, NEW i \in Nat, wr.w.kind = "tool", wr.w.tool = i,
           NEW n \in 1..Len(wr.a.calls), wr.a.calls[n].key = wr.w.index
    PROVE  LET h == HandleChunk(wr, Calls(Fragment(i, FALSE, 1)))
           IN /\ h.w.kind = "tool" /\ h.w.tool = i /\ h.w.index = wr.w.index
              /\ h.w.next = wr.w.next
              /\ h.a.text = wr.a.text /\ h.a.calls = Merged(wr.a.calls, wr.a.calls[n].key, 1)
<1> DEFINE p == Fragment(i, FALSE, 1)
           h == HandleChunk(wr, Calls(p))
           x == Delta(wr, "tool")
<1>1. p \in Part /\ p # NoCall /\ ~p.named /\ p.args = 1 /\ p.idx = i
  <2>1. ~p.named /\ p.args = 1 /\ p.idx = i
    BY DEF Fragment
  <2>2. p # NoCall
    BY <2>1 DEF NoCall, Fragment
  <2>3. p \in Part
    <3>1. i \in Int /\ FALSE \in BOOLEAN /\ 1 \in 0..1
      OBVIOUS
    <3> QED BY <3>1, ChunkTypes
  <2> QED BY <2>1, <2>2, <2>3
<1> HIDE DEF p
<1>2. HandleToolDelta(wr, p) = x
  BY <1>1, ToolDeltaForm
<1>3. /\ h.w.kind = x.w.kind /\ h.w.tool = x.w.tool /\ h.w.index = x.w.index
      /\ h.w.next = x.w.next /\ h.a = x.a
  BY <1>1, <1>2, CallWritten
<1>4. x.w = wr.w /\ x.a = Fed(wr.a, BlockEvent("delta", wr.w.index, "tool"))
  <2>1. wr.w.kind # "" /\ "tool" \in {"text", "tool"}
    OBVIOUS
  <2> QED BY <2>1, DeltaForm
<1>5. wr.a \in Answer
  BY SoundFields
<1> HIDE DEF h, x
<1>6. h.a = Fed(wr.a, BlockEvent("delta", wr.a.calls[n].key, "tool"))
  BY <1>3, <1>4
<1>7. h.a.text = wr.a.text /\ h.a.calls = Merged(wr.a.calls, wr.a.calls[n].key, 1)
  BY <1>5, <1>6, FedArgs
<1>8. /\ h.w.kind = "tool" /\ h.w.tool = i /\ h.w.index = wr.w.index
      /\ h.w.next = wr.w.next
  BY <1>3, <1>4
<1> QED BY <1>7, <1>8 DEF h, p

LEMMA NothingWritten ==
    ASSUME NEW wr, Sound(wr), NEW c \in Chunks, c.text = 0, c.call = NoCall
    PROVE  LET h == HandleChunk(wr, c)
           IN /\ h.w.kind = wr.w.kind /\ h.w.tool = wr.w.tool /\ h.w.index = wr.w.index
              /\ h.w.next = wr.w.next /\ h.a = wr.a
<1> DEFINE h == HandleChunk(wr, c)
           tt == IF c.text = 0 THEN wr ELSE Delta(OpenText(wr), "text")
           xx == HandleToolDelta(tt, c.call)
<1>1. tt = wr /\ xx = wr
  <2>1. HandleToolDelta(wr, NoCall) = wr
    BY ChunkTypes, ToolDeltaForm
  <2> QED BY <2>1
<1>2. /\ h.w.kind = xx.w.kind /\ h.w.tool = xx.w.tool /\ h.w.index = xx.w.index
      /\ h.w.next = xx.w.next /\ h.a = xx.a
  BY ChunkForm
<1> HIDE DEF h, tt, xx
<1> QED BY <1>1, <1>2 DEF h

\* The open block is the part that came last, every call has a block of its own.
Placed(w, a, u) ==
    /\ \A i \in 1..Len(a.calls) : a.calls[i].key < w.next /\ Alone(a, i)
    /\ u.last <= Len(u.args)
    /\ u.last = 0 => w.kind # "tool"
    /\ u.last # 0 => w.kind = "tool" /\ w.tool = u.last - 1 /\ a.calls[u.last].key = w.index

\* What the bridge hands on of an event is what the upstream said.
LEMMA BridgeGrows ==
    ASSUME NEW e \in Events, path \in Paths, up \in Up, Len(up.args) <= MaxTools, ps \in Parser,
           NEW o, Fits(e, o), Bridged, NEW wr, Sound(wr), ~wr.late,
           Len(ps.tools) = Len(up.args), ~Said(e).interleaved,
           Alike(wr.a, up), Placed(wr.w, wr.a, up)
    PROVE  LET h == HandleChunk(wr, o.chunk)
           IN Alike(h.a, Said(e)) /\ Placed(h.w, h.a, Said(e))
<1> DEFINE h == HandleChunk(wr, o.chunk)
           v == Said(e)
           n == Len(up.args)
           a == wr.a
           w == wr.w
<1>0. Provider = "chatgpt"
  BY PathCases
<1>1. /\ o \in Outcomes
      /\ e.kind = "text" => o.chunk = Text
      /\ e.kind = "tool" => o.chunk = Calls(Fragment(n, TRUE, 0))
      /\ e.kind = "args" => o.chunk = Calls(Fragment(e.n - 1, FALSE, 1))
      /\ ~Speaks(e) => o.chunk.text = 0 /\ o.chunk.call = NoCall
  BY <1>0 DEF Fits, ToolPart, TextPart
<1>2. /\ e.kind \in Kinds /\ e.n \in Nat
      /\ e.kind = "text" => e.n = 0
      /\ e.kind = "tool" => e.n = n + 1
      /\ e.kind = "args" => e.n \in 1..n
  BY EventCases
<1>3. /\ e.kind = "text" => v.text = up.text + 1 /\ v.args = up.args
      /\ e.kind = "tool" => v.text = up.text /\ v.args = Append(up.args, 0)
      /\ e.kind = "args" => v.text = up.text /\ v.args = Bumped(up.args, e.n)
      /\ ~Speaks(e) => v.text = up.text /\ v.args = up.args
  BY <1>0, UpAfter DEF Speaks, Bumped
<1>4. /\ v.last = (IF Speaks(e) THEN e.n ELSE up.last)
      /\ v.interleaved = (up.interleaved \/ (e.kind = "args" /\ up.last # e.n))
  BY SaidFacts
<1>5. a \in Answer /\ w \in Bridger /\ Len(a.calls) = n
  BY SoundFields DEF Alike
<1>6. n \in Nat /\ up.last \in Nat
  BY DEF Up
<1>7. w.next \in Nat /\ w.index \in Nat /\ w.tool \in Int
  BY <1>5, BridgerFields
<1>8. \A i \in 1..n : a.calls[i].key \in Int /\ a.calls[i].key < w.next /\ Alone(a, i)
  BY <1>5, AnswerFields DEF Placed
<1>9. /\ up.last <= n
      /\ up.last = 0 => w.kind # "tool"
      /\ up.last # 0 => w.kind = "tool" /\ w.tool = up.last - 1 /\ a.calls[up.last].key = w.index
  BY DEF Placed
<1> HIDE DEF v, a, w
<1>10. CASE e.kind = "text"
  <2>1. h = HandleChunk(wr, Text)
    BY <1>1, <1>10
  <2>2. /\ h.w.kind = "text" /\ h.w.next \in Nat /\ w.next <= h.w.next
        /\ h.a.text = a.text + 1 /\ h.a.calls = a.calls
    BY <2>1, TextWritten DEF a, w
  <2> HIDE DEF h, n
  <2>3. Alike(h.a, v)
    <3>1. Alike(a, up)
      BY DEF a
    <3> QED BY <1>3, <1>10, <2>2, <3>1, TextGrows
  <2>4. v.last = 0 /\ v.args = up.args
    BY <1>2, <1>3, <1>4, <1>10 DEF Speaks
  <2>5. 0 <= Len(v.args)
    <3>1. Len(v.args) = n
      BY <2>4 DEF n
    <3> QED BY ONLY <1>6, <3>1
  <2>6. \A i \in 1..n : a.calls[i].key < h.w.next
    <3> TAKE i \in 1..n
    <3>1. a.calls[i].key \in Int /\ a.calls[i].key < w.next
      BY <1>8
    <3> QED BY ONLY <1>7, <2>2, <3>1
  <2>7. \A i \in 1..n : Alone(h.a, i)
    BY <1>8, <2>2 DEF Alone
  <2>8. Placed(h.w, h.a, v)
    BY <1>5, <2>2, <2>4, <2>5, <2>6, <2>7 DEF Placed
  <2> QED BY <2>3, <2>8 DEF h, v
<1>11. CASE e.kind = "tool"
  <2>1. h = HandleChunk(wr, Calls(Fragment(n, TRUE, 0)))
    BY <1>1, <1>11
  <2>2. ~(w.kind = "tool" /\ w.tool = n)
    <3>1. CASE up.last = 0
      BY <1>9, <3>1
    <3>2. CASE up.last # 0
      <4>1. w.tool = up.last - 1 /\ up.last <= n
        BY <1>9, <3>2
      <4>2. w.tool # n
        BY ONLY <1>6, <4>1
      <4> QED BY <4>2
    <3> QED BY <3>1, <3>2
  <2>3. /\ h.w.kind = "tool" /\ h.w.tool = n /\ h.w.index = w.next
        /\ h.w.next = w.next + 1
        /\ h.a.text = a.text /\ h.a.calls = Append(a.calls, Entry(w.next, 0))
    <3> DEFINE g == HandleChunk(wr, Calls(Fragment(n, TRUE, 0)))
    <3>1. ~(wr.w.kind = "tool" /\ wr.w.tool = n)
      BY <2>2 DEF w
    <3>2. Sound(wr) /\ ~wr.late
      OBVIOUS
    <3> HIDE DEF h, n
    <3>3. /\ g.w.kind = "tool" /\ g.w.tool = n /\ g.w.index = wr.w.next
          /\ g.w.next = wr.w.next + 1
          /\ g.a.text = wr.a.text /\ g.a.calls = Append(wr.a.calls, Entry(wr.w.next, 0))
      BY ONLY <1>6, <3>1, <3>2, ToolWritten
    <3>4. h = g
      BY <2>1
    <3> HIDE DEF g
    <3> QED BY <3>3, <3>4 DEF w, a
  <2> HIDE DEF h, n
  <2>4. Grown(a, h.a, up, v, w.next)
    <3> DEFINE b == h.a
               k == w.next
    <3>1. v.text = up.text /\ v.args = Append(up.args, 0) /\ 0 \in Nat
      BY <1>3, <1>11
    <3>2. up \in Up /\ Alike(a, up) /\ a \in Answer
      BY <1>5 DEF a
    <3>3. k \in Int
      BY ONLY <1>7
    <3>4. b.text = a.text /\ b.calls = Append(a.calls, Entry(k, 0))
      BY <2>3
    <3> HIDE DEF Answer, Up, b, k
    <3>5. Grown(a, b, up, v, k)
      BY ONLY <3>1, <3>2, <3>3, <3>4, CallGrows
    <3> QED BY <3>5 DEF b, k
  <2>5. /\ Alike(h.a, v) /\ Len(v.args) = n + 1 /\ Len(h.a.calls) = n + 1
        /\ \A i \in 1..n : h.a.calls[i].key = a.calls[i].key
        /\ h.a.calls[n + 1].key = w.next
    BY <2>4 DEF Grown, Alike, n
  <2>6. v.last = n + 1
    BY <1>2, <1>4, <1>11 DEF Speaks
  <2>7. \A i \in 1..(n + 1) : i \in 1..n \/ i = n + 1
    BY ONLY <1>6
  <2>8. \A i \in 1..(n + 1) : h.a.calls[i].key < h.w.next
    <3> TAKE i \in 1..(n + 1)
    <3>1. CASE i \in 1..n
      <4>1. h.a.calls[i].key = a.calls[i].key /\ a.calls[i].key \in Int /\ a.calls[i].key < w.next
        BY <1>8, <2>5, <3>1
      <4>2. h.w.next = w.next + 1
        BY <2>3
      <4> QED BY ONLY <1>7, <4>1, <4>2
    <3>2. CASE i = n + 1
      <4>1. h.a.calls[i].key = w.next /\ h.w.next = w.next + 1
        BY <2>3, <2>5, <3>2
      <4> QED BY ONLY <1>7, <4>1
    <3> QED BY <2>7, <3>1, <3>2
  <2>9. \A i, j \in 1..(n + 1) : h.a.calls[j].key = h.a.calls[i].key => j = i
    <3>1. \A i \in 1..n : h.a.calls[i].key # w.next
      <4> TAKE i \in 1..n
      <4>1. h.a.calls[i].key = a.calls[i].key /\ a.calls[i].key \in Int /\ a.calls[i].key < w.next
        BY <1>8, <2>5
      <4> QED BY ONLY <1>7, <4>1
    <3>2. \A i, j \in 1..n : a.calls[j].key = a.calls[i].key => j = i
      BY <1>5, <1>8 DEF Alone
    <3> QED BY <2>5, <2>7, <3>1, <3>2
  <2>10. \A i \in 1..(n + 1) : Alone(h.a, i)
    BY <2>5, <2>9 DEF Alone
  <2>11. v.last # 0 /\ v.last <= Len(v.args) /\ h.w.tool = v.last - 1
    <3>1. v.last = n + 1 /\ Len(v.args) = n + 1 /\ h.w.tool = n
      BY <2>3, <2>5, <2>6
    <3> QED BY ONLY <1>6, <3>1
  <2>12. h.a.calls[v.last].key = h.w.index
    BY <2>3, <2>5, <2>6
  <2>13. Placed(h.w, h.a, v)
    BY <2>3, <2>5, <2>8, <2>10, <2>11, <2>12 DEF Placed
  <2> QED BY <2>5, <2>13 DEF h, v
<1>12. CASE e.kind = "args"
  <2> DEFINE k == e.n - 1
  <2>0. up.last = e.n /\ e.n \in 1..n
    BY <1>2, <1>4, <1>12 DEF v
  <2>1. k \in Nat /\ up.last # 0
    BY ONLY <1>6, <2>0
  <2>2. w.kind = "tool" /\ w.tool = k /\ a.calls[e.n].key = w.index
    BY <1>9, <2>0, <2>1
  <2>3. h = HandleChunk(wr, Calls(Fragment(k, FALSE, 1)))
    <3>1. o.chunk = Calls(Fragment(e.n - 1, FALSE, 1))
      BY <1>1, <1>12
    <3> QED BY <3>1
  <2>4. /\ h.w.kind = "tool" /\ h.w.tool = k /\ h.w.index = w.index
        /\ h.w.next = w.next
        /\ h.a.text = a.text /\ h.a.calls = Merged(a.calls, a.calls[e.n].key, 1)
    <3> DEFINE g == HandleChunk(wr, Calls(Fragment(k, FALSE, 1)))
               m == e.n
    <3>1. wr.w.kind = "tool" /\ wr.w.tool = k /\ m \in 1..Len(wr.a.calls) /\ wr.a.calls[m].key = wr.w.index
      BY <1>5, <2>0, <2>2 DEF w, a
    <3>2. Sound(wr) /\ ~wr.late
      OBVIOUS
    <3> HIDE DEF h, n, k, m
    <3>3. /\ g.w.kind = "tool" /\ g.w.tool = k /\ g.w.index = wr.w.index
          /\ g.w.next = wr.w.next
          /\ g.a.text = wr.a.text /\ g.a.calls = Merged(wr.a.calls, wr.a.calls[m].key, 1)
      BY ONLY <2>1, <3>1, <3>2, ArgsWritten
    <3>4. h = g
      BY <2>3
    <3> HIDE DEF g
    <3> QED BY <3>3, <3>4 DEF w, a, m
  <2> HIDE DEF h, n, k
  <2>5. Longer(a, h.a, up, v)
    <3> DEFINE b == h.a
               m == e.n
    <3>1. v.text = up.text /\ v.args = Bumped(up.args, m)
      BY <1>3, <1>12
    <3>2. up \in Up /\ Alike(a, up) /\ a \in Answer
      BY <1>5 DEF a
    <3>3. m \in 1..Len(up.args) /\ Alone(a, m)
      BY <1>8, <2>0 DEF n
    <3>4. b.text = a.text /\ b.calls = Merged(a.calls, a.calls[m].key, 1)
      BY <2>4
    <3> HIDE DEF Answer, Up, b, m
    <3>5. Longer(a, b, up, v)
      BY ONLY <3>1, <3>2, <3>3, <3>4, ArgsGrow
    <3> QED BY <3>5 DEF b
  <2>6. /\ Alike(h.a, v) /\ Len(v.args) = n /\ Len(h.a.calls) = n
        /\ \A i \in 1..n : h.a.calls[i].key = a.calls[i].key
    BY <2>5 DEF Longer, Alike, n
  <2>7. v.last = up.last
    BY <1>4, <1>12, <2>0 DEF Speaks
  <2>8. \A i \in 1..n : h.a.calls[i].key < h.w.next
    BY <1>8, <2>4, <2>6
  <2>9. \A i \in 1..n : Alone(h.a, i)
    <3>1. \A i, j \in 1..n : a.calls[j].key = a.calls[i].key => j = i
      BY <1>5, <1>8 DEF Alone
    <3> QED BY <2>6, <3>1 DEF Alone
  <2>10. h.w.tool = v.last - 1 /\ h.a.calls[v.last].key = h.w.index /\ v.last <= Len(v.args) /\ v.last # 0
    <3>1. k = v.last - 1
      BY <2>0, <2>7 DEF k
    <3>2. h.a.calls[v.last].key = h.w.index
      BY <2>0, <2>2, <2>4, <2>6, <2>7, SMTT(30)
    <3> QED BY <1>9, <2>1, <2>4, <2>6, <2>7, <3>1, <3>2
  <2>11. Placed(h.w, h.a, v)
    BY <2>4, <2>6, <2>8, <2>9, <2>10 DEF Placed
  <2> QED BY <2>6, <2>11 DEF h, v
<1>13. CASE ~Speaks(e)
  <2>1. o.chunk \in Chunks /\ o.chunk.text = 0 /\ o.chunk.call = NoCall
    BY <1>1, <1>13, OutcomeFields
  <2>2. /\ h.w.kind = w.kind /\ h.w.tool = w.tool /\ h.w.index = w.index
        /\ h.w.next = w.next /\ h.a = a
    BY <2>1, NothingWritten DEF w, a
  <2>3. v.text = up.text /\ v.args = up.args /\ v.last = up.last
    BY <1>3, <1>4, <1>13
  <2> HIDE DEF h, n
  <2>4. Alike(a, up) /\ Placed(w, a, up)
    BY DEF a, w
  <2>5. Alike(h.a, v)
    BY <2>2, <2>3, <2>4 DEF Alike
  <2>6. Placed(h.w, h.a, v)
    BY <2>2, <2>3, <2>4 DEF Placed
  <2> QED BY <2>5, <2>6 DEF h, v
<1> QED BY <1>10, <1>11, <1>12, <1>13 DEF Speaks

\* An attempt that may still be repeated has said nothing.
Fresh ==
    /\ Provider \in {"anthropic", "chatgpt"} => Len(ps.tools) = Len(up.args)
    /\ Provider = "gemini" => ps.prev = up.flowing
    /\ ~ps.emitted => up.text = 0 /\ up.args = <<>> /\ up.last = 0 /\ ~up.interleaved
    /\ pc = "backoff" => ~ps.emitted
\* Gemini's calls carry no index: the second is added to the first. Its deltas
\* repeat cumulative text after a call and drop an echo.
Crowded == Provider = "gemini" /\ (Len(up.args) > 1 \/ up.garbled)
Whole ==
    /\ (~Bridged /\ ~Crowded) => Alike(acc, up) /\ Keyed(acc, IF Verbatim THEN 0 ELSE 1)
    /\ (Bridged /\ ~up.interleaved) => Alike(acc, up) /\ (pc # "done" => Placed(br, acc, up))
Reassembly == Fresh /\ (~view.gone => Whole)

LEMMA EventFresh ==
    ASSUME Typed, Fresh, NEW e \in Events, NEW o, Fits(e, o), up' = Said(e), path' = path,
           ps' = o.ps, pc' = "backoff" => o.fate = "retry",
           Provider = "gemini" => o.ps.prev = Said(e).flowing
    PROVE  Fresh'
<1>1. /\ Speaks(e) => o.fate = "goes on"
      /\ o.fate = "retry" => ~ps.emitted
      /\ ps'.emitted = (ps.emitted \/ o.fate = "goes on")
      /\ Provider \in {"anthropic", "chatgpt"} =>
            Len(ps'.tools) = IF e.kind = "tool" THEN Len(ps.tools) + 1 ELSE Len(ps.tools)
  BY DEF Fits
<1>2. /\ e.kind = "tool" => Len(up'.args) = Len(up.args) + 1
      /\ e.kind # "tool" => Len(up'.args) = Len(up.args)
      /\ ~Speaks(e) => /\ up'.text = up.text /\ up'.args = up.args /\ up'.last = up.last
                       /\ up'.interleaved = up.interleaved
  <2>1. path \in Paths /\ up \in Up /\ Len(up.args) <= MaxTools
    BY DEF Typed
  <2> QED BY <2>1, UpAfter DEF Speaks
<1>3. Provider' = Provider
  BY DEF Provider
<1> HIDE DEF Provider
<1>4. Provider' \in {"anthropic", "chatgpt"} => Len(ps'.tools) = Len(up'.args)
  <2>1. Provider \in {"anthropic", "chatgpt"} => Len(ps.tools) = Len(up.args)
    BY DEF Fresh
  <2> QED BY <1>1, <1>2, <1>3, <2>1
<1>5. ~ps'.emitted => ~ps.emitted /\ ~Speaks(e)
  BY <1>1
<1>6. ~ps'.emitted => up'.text = 0 /\ up'.args = <<>> /\ up'.last = 0 /\ ~up'.interleaved
  <2>1. ~ps.emitted => up.text = 0 /\ up.args = <<>> /\ up.last = 0 /\ ~up.interleaved
    BY DEF Fresh
  <2> QED BY <1>2, <1>5, <2>1
<1>7. pc' = "backoff" => ~ps'.emitted
  <2>1. o.fate = "retry" => ~ps.emitted /\ o.fate # "goes on"
    BY <1>1
  <2> QED BY <1>1, <2>1
<1>8. Provider' = "gemini" => ps'.prev = up'.flowing
  BY <1>3
<1> QED BY <1>4, <1>6, <1>7, <1>8 DEF Fresh

LEMMA EventWhole ==
    ASSUME Typed, BridgeFollowed, Earned, Fresh, Whole, ~view.gone, pc = "open",
           NEW e \in Events, NEW o, Fits(e, o), up' = Said(e), path' = path, Handled(e, o)
    PROVE  Whole'
<1>0. /\ path \in Paths /\ up \in Up /\ ps \in Parser /\ Len(up.args) <= MaxTools /\ acc \in Answer
      /\ acc \in Answer
  BY DEF Typed
<1>1. Verbatim' = Verbatim /\ Provider' = Provider /\ Bridged' = Bridged
  BY DEF Verbatim, Provider, Bridged
<1>2. /\ o \in Outcomes /\ (o.fate \notin {"goes on", "ended"} => o.chunk = NoChunk)
      /\ Speaks(e) => o.fate = "goes on"
  BY DEF Fits
<1>3. e.kind \in Kinds /\ e.n \in Nat
  BY <1>0, EventCases
<1>4. CASE Bridged
  <2>0. ~Verbatim /\ Provider = "chatgpt"
    BY <1>0, <1>4, PathCases
  <2>1. PICK late \in {FALSE, view.gone} : MessagesPassthrough(o, late)
    BY <1>0, <1>4, <2>0, HandledCases
  <2>2. Waiting
    BY <2>0 DEF Earned
  <2> DEFINE wr == Writer(FALSE)
             h == HandleChunk(wr, o.chunk)
  <2>3. /\ acc' = IF o.fate \in {"goes on", "ended"} THEN h.a ELSE acc
        /\ o.fate = "goes on" => br' = h.w
        /\ o.fate \in {"quiet", "retry"} => br' = br
        /\ Told(o)
    <3> DEFINE x == Writer(late)
               g == HandleChunk(x, o.chunk)
    <3>1. /\ x = wr
          /\ Told(o)
          /\ acc' = IF o.fate \in {"goes on", "ended"} THEN g.a ELSE acc
          /\ o.fate = "goes on" => br' = g.w
          /\ o.fate \in {"quiet", "retry"} => br' = br
      BY <1>2, <1>4, <2>1, <2>2, PassStep
    <3> HIDE DEF x, wr
    <3> QED BY <3>1
  <2>4. Sound(wr) /\ ~wr.late /\ wr.w = br /\ wr.a = acc
    <3>1. FALSE \in BOOLEAN
      OBVIOUS
    <3> QED BY <1>4, <3>1, WriterSound
  <2>5. pc' # "done" => o.fate \in {"goes on", "quiet", "retry"}
    BY <1>2, <2>3, OutcomeFields DEF Told, Fates
  <2> HIDE DEF wr
  <2>6. ASSUME ~up'.interleaved
        PROVE  Alike(acc', up') /\ (pc' # "done" => Placed(br', acc', up'))
    <3>1. ~up.interleaved
      BY <2>6, SaidFacts
    <3>2. Alike(acc, up) /\ Placed(br, acc, up)
      BY <1>4, <3>1 DEF Whole
    <3>3. CASE o.fate \in {"goes on", "ended"}
      <4>1. Len(ps.tools) = Len(up.args)
        BY <2>0 DEF Fresh
      <4>2. Alike(h.a, Said(e)) /\ Placed(h.w, h.a, Said(e))
        <5>1. Alike(wr.a, up) /\ Placed(wr.w, wr.a, up)
          BY <2>4, <3>2
        <5>2. ~Said(e).interleaved
          BY <2>6
        <5> QED BY <1>0, <1>4, <2>4, <4>1, <5>1, <5>2, BridgeGrows
      <4>3. pc' # "done" => o.fate = "goes on"
        BY <2>5, <3>3
      <4> HIDE DEF h
      <4> QED BY <2>3, <3>3, <4>2, <4>3
    <3>4. CASE o.fate \notin {"goes on", "ended"}
      <4>1. ~Speaks(e)
        BY <1>2, <3>4
      <4>2. up'.text = up.text /\ up'.args = up.args /\ up'.last = up.last
        BY <1>0, <4>1, UpAfter DEF Speaks
      <4>3. acc' = acc /\ (pc' # "done" => br' = br)
        BY <2>3, <2>5, <3>4
      <4>4. Alike(acc', up')
        BY <3>2, <4>2, <4>3 DEF Alike
      <4>5. pc' # "done" => Placed(br', acc', up')
        BY <3>2, <4>2, <4>3 DEF Placed
      <4> QED BY <4>4, <4>5
    <3> QED BY <3>3, <3>4
  <2> HIDE DEF Bridged
  <2> QED BY <1>1, <1>4, <2>6 DEF Whole
<1>5. CASE Verbatim
  <2>0. ~Bridged /\ Provider = "anthropic"
    BY <1>0, <1>5, PathCases
  <2>1. PICK late \in {FALSE, view.gone} : Verbatimly(e, late)
    BY <1>0, <1>5, HandledCases
  <2>2. /\ acc' \in Answer
        /\ e.kind = "text" => acc' = Fed(acc, BlockEvent("delta", 0, "text"))
        /\ e.kind = "tool" => acc' = Fed(acc, BlockEvent("start", e.n, "tool"))
        /\ e.kind = "args" => acc' = Fed(acc, BlockEvent("delta", e.n, "tool"))
        /\ ~Speaks(e) => acc' = acc
    BY <1>3, <2>1, VerbatimStep
  <2>3. Alike(acc, up) /\ Keyed(acc, 0)
    BY <1>5, <2>0 DEF Whole, Crowded
  <2>4. Alike(acc', up') /\ Keyed(acc', 0)
    <3> DEFINE b == acc'
    <3>1. /\ b \in Answer
          /\ e.kind = "text" => b = Fed(acc, BlockEvent("delta", 0, "text"))
          /\ e.kind = "tool" => b = Fed(acc, BlockEvent("start", e.n, "tool"))
          /\ e.kind = "args" => b = Fed(acc, BlockEvent("delta", e.n, "tool"))
          /\ ~Speaks(e) => b = acc
      BY <2>2
    <3> HIDE DEF b
    <3>2. Alike(b, Said(e)) /\ Keyed(b, 0)
      BY <1>0, <1>5, <2>3, <3>1, RawGrows
    <3> QED BY <3>2 DEF b
  <2> HIDE DEF Bridged, Verbatim
  <2> QED BY <1>1, <1>5, <2>0, <2>4 DEF Whole
<1>6. CASE ~Bridged /\ ~Verbatim
  <2>1. acc' = Added(acc, o.chunk)
    <3>1. Waiting
      BY <1>6 DEF Earned
    <3>2. \/ Frontend = "chat" /\ ChatStream(o)
          \/ Frontend = "complete" /\ CompleteWhole(o)
      <4> HIDE DEF Frontend, Bridged, Verbatim
      <4> QED BY <1>0, <1>6, HandledCases
    <3>3. CASE ChatStream(o)
      BY <1>2, <3>3, ChatStep
    <3>4. CASE CompleteWhole(o)
      BY <1>2, <3>4, CompleteStep
    <3> QED BY <3>2, <3>3, <3>4
  <2>2. ASSUME ~Crowded'
        PROVE  Alike(acc', up') /\ Keyed(acc', 1)
    <3>1. Len(up'.args) = Len(up.args) \/ Len(up'.args) = Len(up.args) + 1
      BY <1>0, UpAfter DEF Speaks
    <3>2. Len(up.args) \in Nat
      BY <1>0 DEF Up
    <3>3. Provider = "gemini" => ~(Len(up'.args) > 1) /\ ~up'.garbled /\ ~up.garbled
      <4>1. up'.garbled = (up.garbled \/ Garbles(e))
        BY SaidFacts
      <4> QED BY <1>1, <2>2, <4>1 DEF Crowded
    <3>4. Provider = "gemini" => Len(up'.args) <= 1 /\ ~(Len(up.args) > 1)
      <4>1. ~(Len(up'.args) > 1) => Len(up'.args) <= 1 /\ ~(Len(up.args) > 1)
        BY ONLY <3>1, <3>2
      <4> QED BY <3>3, <4>1
    <3>5. Alike(acc, up) /\ Keyed(acc, 1)
      BY <1>6, <3>3, <3>4 DEF Whole, Crowded
    <3>6. Provider \in {"anthropic", "chatgpt"} => Len(ps.tools) = Len(up.args)
      BY DEF Fresh
    <3>7. /\ Provider = "gemini" => Len(Said(e).args) <= 1 /\ ~Said(e).garbled
          /\ Provider = "gemini" => ps.prev = up.flowing
      BY <3>3, <3>4 DEF Fresh
    <3>8. Alike(Added(acc, o.chunk), Said(e)) /\ Keyed(Added(acc, o.chunk), 1)
      BY <1>0, <1>6, <3>5, <3>6, <3>7, AddedGrows
    <3> QED BY <2>1, <3>8
  <2> HIDE DEF Bridged, Verbatim, Crowded
  <2> QED BY <1>1, <1>6, <2>2 DEF Whole
<1> QED BY <1>4, <1>5, <1>6

LEMMA StartWhole == ASSUME Init PROVE Reassembly
<1>0. PICK w \in {FALSE, Provider = "gemini"} : up = [NewUp EXCEPT !.whole = w]
  BY DEF Init
<1>1. /\ ps = NewParser /\ br = NewWriter /\ acc = NewAcc /\ pc = "open"
  BY DEF Init
<1>2. /\ up.text = 0 /\ up.args = <<>> /\ up.last = 0 /\ ~up.interleaved
      /\ up.flowing = FALSE /\ ps.prev = FALSE
      /\ ps.tools = <<>> /\ acc.text = 0 /\ acc.calls = <<>> /\ br.kind = ""
  BY <1>0, <1>1 DEF NewUp, NewParser, NewAcc, NewWriter
<1>3. Len(<<>>) = 0 /\ (\A i : i \notin 1..0) /\ 0 <= 0
  OBVIOUS
<1>4. Fresh
  BY <1>1, <1>2 DEF Fresh
<1>5. Alike(acc, up)
  BY <1>2, <1>3 DEF Alike
<1>6. Keyed(acc, 0) /\ Keyed(acc, 1)
  BY <1>2, <1>3 DEF Keyed
<1>7. Placed(br, acc, up)
  BY <1>2, <1>3 DEF Placed
<1> QED BY <1>4, <1>5, <1>6, <1>7 DEF Reassembly, Whole

LEMMA StepWhole ==
    ASSUME Typed, BridgeFollowed, Outcome, Reassembly, [Next]_vars
    PROVE  Reassembly'
<1>0. path \in Paths /\ up \in Up /\ ps \in Parser /\ view.gone \in BOOLEAN
  BY DEF Typed, Client
<1>1. CASE Event
  <2>1. PICK e \in Events : /\ pc = "open" /\ up' = Said(e) /\ path' = path
                            /\ ps' = Parsed(e).ps /\ Handled(e, Parsed(e))
    BY <1>1 DEF Event
  <2> DEFINE o == Parsed(e)
  <2>2. Fits(e, o)
    BY <1>0, ParsedFits
  <2>3. Handled(e, o) /\ ps' = o.ps
    BY <2>1
  <2> HIDE DEF o
  <2>4. view'.gone = view.gone /\ (pc' = "backoff" => o.fate = "retry")
    <3>1. e.kind \in Kinds /\ e.n \in Nat
      BY <1>0, EventCases
    <3>2. o \in Outcomes /\ (o.fate \notin {"goes on", "ended"} => o.chunk = NoChunk)
      BY <2>2 DEF Fits
    <3> QED BY <2>3, <3>1, <3>2, HandledTyped
  <2>5. Fresh'
    <3>1. Fresh
      BY DEF Reassembly
    <3>2. Provider = "gemini" => o.ps.prev = Said(e).flowing
      <4>1. Provider = "gemini" => ps.prev = up.flowing
        BY <3>1 DEF Fresh
      <4> QED BY <1>0, <4>1, GeminiFlows DEF o
    <3> QED BY <2>1, <2>2, <2>3, <2>4, <3>1, <3>2, EventFresh
  <2>6. ~view.gone => Whole'
    BY <2>1, <2>2, <2>3, EventWhole DEF Reassembly, Outcome
  <2> QED BY <2>4, <2>5, <2>6 DEF Reassembly
<1>2. CASE Retry
  <2>1. /\ pc = "backoff" /\ pc' = "open" /\ up' = NewUp
        /\ path' = path /\ view' = view /\ br' = br /\ acc' = acc
    BY <1>2 DEF Retry
  <2>2. ps'.tools = <<>> /\ ~ps'.emitted
    BY <1>2, RetryTyped
  <2>3. up'.text = 0 /\ up'.args = <<>> /\ up'.last = 0 /\ ~up'.interleaved
    BY <2>1 DEF NewUp
  <2>4. up.text = 0 /\ up.args = <<>> /\ up.last = 0 /\ ~up.interleaved
    BY <2>1 DEF Reassembly, Fresh
  <2>5. Verbatim' = Verbatim /\ Provider' = Provider /\ Bridged' = Bridged
    BY <2>1 DEF Verbatim, Provider, Bridged
  <2>8. Provider = "chatgpt"
    BY <2>1 DEF Typed
  <2>6. Fresh'
    BY <2>1, <2>2, <2>3, <2>5, <2>8 DEF Fresh
  <2>7. ASSUME ~view.gone PROVE Whole'
    <3>1. Alike(acc, up) => Alike(acc', up')
      BY <2>1, <2>3, <2>4 DEF Alike
    <3>2. Placed(br, acc, up) => Placed(br', acc', up')
      BY <2>1, <2>3, <2>4 DEF Placed
    <3>3. (~Bridged /\ ~Crowded) => Alike(acc, up) /\ Keyed(acc, IF Verbatim THEN 0 ELSE 1)
      BY <2>7 DEF Reassembly, Whole
    <3>4. Bridged => Alike(acc, up) /\ Placed(br, acc, up)
      BY <2>1, <2>4, <2>7 DEF Reassembly, Whole
    <3>5. Crowded' <=> Crowded
      BY <2>5, <2>8 DEF Crowded
    <3> HIDE DEF Bridged, Verbatim, Crowded
    <3> QED BY <2>1, <2>5, <3>1, <3>2, <3>3, <3>4, <3>5 DEF Whole
  <2> QED BY <2>1, <2>6, <2>7 DEF Reassembly
<1>3. CASE RetryRefused
  <2>1. /\ pc = "backoff" /\ up' = [up EXCEPT !.failed = TRUE]
        /\ Handled(Ev("drop", 0, ""), Fails) /\ path' = path /\ ps' = ps
    BY <1>3 DEF RetryRefused
  <2>2. /\ up'.text = up.text /\ up'.args = up.args /\ up'.last = up.last
        /\ up'.interleaved = up.interleaved
        /\ up'.flowing = up.flowing /\ up'.garbled = up.garbled
    BY <2>1, RefusedUp
  <2> DEFINE o == Fails
             e == Ev("drop", 0, "")
  <2>3. /\ o \in Outcomes /\ o.fate = "failed" /\ o.chunk = NoChunk
        /\ e.kind \in Kinds /\ e.n \in Nat /\ Handled(e, o)
    BY <2>1, RefusedFits
  <2> HIDE DEF o, e
  <2>4. /\ pc' # "backoff" /\ view'.gone = view.gone
    BY <2>3, HandledTyped
  <2>5. Verbatim' = Verbatim /\ Provider' = Provider /\ Bridged' = Bridged
    BY <2>1 DEF Verbatim, Provider, Bridged
  <2>6. Fresh'
    BY <2>1, <2>2, <2>4, <2>5 DEF Reassembly, Fresh
  <2>7. ~Verbatim /\ Provider = "chatgpt"
    <3>1. Provider = "chatgpt"
      BY <2>1 DEF Typed
    <3> QED BY <1>0, <3>1, PathCases
  <2>8. ASSUME ~view.gone PROVE Whole'
    <3>1. Waiting
      BY <2>1, <2>7, <2>8 DEF Outcome, Earned
    <3>2. pc' = "done"
      <4>1. Told(o)
        BY <2>3, <2>7, <2>8, <3>1, HandledTold
      <4> QED BY <2>3, <4>1 DEF Told
    <3>3. acc' = acc
      <4>0. acc \in Answer /\ Added(acc, NoChunk) = acc
        <5>1. acc \in Answer
          BY DEF Typed
        <5> QED BY <5>1, EmptyChunk, AddedNothing
      <4>1. CASE Bridged /\ \E late \in {FALSE, view.gone} : MessagesPassthrough(o, late)
        <5>1. PICK late \in {FALSE, view.gone} : MessagesPassthrough(o, late)
          BY <4>1
        <5>2. acc' = IF o.fate \in {"goes on", "ended"} THEN HandleChunk(Writer(late), o.chunk).a ELSE acc
          BY <2>3, <2>8, <4>1, <5>1, PassStep
        <5> QED BY <2>3, <5>2
      <4>2. CASE ChatStream(o)
        <5>1. acc' = Added(acc, o.chunk)
          BY <2>3, <2>8, <4>2, ChatStep
        <5> QED BY <2>3, <4>0, <5>1
      <4>3. CASE CompleteWhole(o)
        <5>1. acc' = Added(acc, o.chunk)
          BY <2>3, <4>3, CompleteStep
        <5> QED BY <2>3, <4>0, <5>1
      <4> HIDE DEF Bridged, Verbatim, Frontend
      <4> QED BY <1>0, <2>3, <2>7, <4>1, <4>2, <4>3, HandledCases
    <3>4. Alike(acc, up) => Alike(acc', up')
      BY <2>2, <3>3 DEF Alike
    <3>5. Crowded' <=> Crowded
      BY <2>2, <2>5 DEF Crowded
    <3>6. Whole
      BY <2>8 DEF Reassembly
    <3> HIDE DEF Bridged, Verbatim, Crowded
    <3> QED BY <2>2, <2>5, <3>2, <3>3, <3>4, <3>5, <3>6 DEF Whole
  <2> QED BY <2>4, <2>6, <2>8 DEF Reassembly
<1>4. CASE ClientLeaves
  <2>1. view' = [view EXCEPT !.gone = TRUE] /\ view \in Client
        /\ path' = path /\ up' = up /\ ps' = ps /\ pc' = pc
    BY <1>4 DEF ClientLeaves, Typed
  <2>2. view'.gone
    <3> HIDE DEF Words
    <3> QED BY <2>1 DEF Client
  <2>3. Fresh'
    BY <2>1 DEF Reassembly, Fresh, Provider
  <2> QED BY <2>2, <2>3 DEF Reassembly
<1>5. CASE UNCHANGED vars
  BY <1>5 DEF vars, Reassembly, Fresh, Whole, Crowded, Verbatim, Bridged, Provider
<1> QED BY <1>1, <1>2, <1>3, <1>4, <1>5 DEF Next

(***************************************************************************)
(* The answer grows with what the upstream says: nothing before the first  *)
(* chunk, so that a retry starts afresh, and then fragment by fragment in  *)
(* the block or call it belongs to.                                        *)
(***************************************************************************)
THEOREM Wholeness == Spec => []Reassembly
<1>1. Init => Reassembly
  BY StartWhole
<1>2. Typed /\ BridgeFollowed /\ Outcome /\ Reassembly /\ [Next]_vars => Reassembly'
  BY StepWhole
<1> QED BY <1>1, <1>2, Induction, Endings, PTL DEF Spec

(***************************************************************************)
(* What is reassembled for a client that got a clean end is what the       *)
(* upstream said, fragment by fragment and call by call, after a retry too *)
(* (but for what Excused names: Gemini's calls without an index, its       *)
(* cumulative text after one and its echoes, and interleaved calls behind  *)
(* the bridge).                                                            *)
(***************************************************************************)
THEOREM AnswersWhole == Spec => []ReassembledExactly
<1>1. ASSUME Typed, Reassembly, Ended, ~Excused
      PROVE  acc.text = up.text /\ [i \in DOMAIN acc.calls |-> acc.calls[i].args] = up.args
  <2>1. Whole
    BY <1>1 DEF Reassembly, Ended
  <2>2. Alike(acc, up)
    <3>1. ~Crowded /\ (Bridged => ~up.interleaved)
      BY <1>1 DEF Excused, Crowded
    <3> HIDE DEF Bridged, Crowded
    <3> QED BY <2>1, <3>1 DEF Whole
  <2>3. up.args \in Seq(0..MaxArgs) /\ acc \in Answer
    BY <1>1 DEF Typed, Up
  <2>4. DOMAIN acc.calls = 1..Len(acc.calls)
    BY <2>3, AnswerFields
  <2>5. DOMAIN acc.calls = 1..Len(up.args) /\ \A i \in 1..Len(up.args) : acc.calls[i].args = up.args[i]
    BY <2>2, <2>4 DEF Alike
  <2>6. up.args = [i \in 1..Len(up.args) |-> up.args[i]]
    BY <2>3
  <2>7. [i \in DOMAIN acc.calls |-> acc.calls[i].args] = up.args
    BY <2>5, <2>6
  <2> QED BY <2>2, <2>7 DEF Alike
<1>2. Typed /\ Reassembly => ReassembledExactly
  BY <1>1 DEF ReassembledExactly
<1> QED BY <1>2, Induction, Wholeness, PTL

-----------------------------------------------------------------------------
(***************************************************************************)
(* Conversation, for any system prompt, any number of turns and calls and  *)
(* any mix of upstreams.                                                   *)
(*                                                                         *)
(* The shapes of messages: an answer is text and then its calls, numbered; *)
(* a turn of the client is text with the results ahead of it or after it,  *)
(* a picture, or, in the chat dialect, a result alone.                     *)
(***************************************************************************)
BlockKinds == {"text", "call", "result", "image"}

Roles == {"user", "assistant", "tool"}

Makers == {"none", "anthropic", "chatgpt", "openai", "gemini"}

IdType ==
    [by : Makers, turn : Nat, n : Nat, item : BOOLEAN, hashed : BOOLEAN]

Label == Nat \X ({"next", "image", "answer"} \cup Nat)

BlockType == [kind : BlockKinds, label : Label, id : IdType, mark : BOOLEAN]

MessageType == [role : Roles, blocks : Seq(BlockType)]

\* An answer: text, then its calls, each with its number.
Answering(b) ==
    /\ Len(b) >= 1
    /\ b[1].kind = "text"
    /\ \A i \in 2 .. Len(b) : b[i].kind = "call" /\ b[i].id.n = i - 1

\* A turn of the client: text, with the results ahead of it or behind it.
ResultsFirst(b) ==
    /\ Len(b) >= 1
    /\ b[Len(b)].kind = "text"
    /\ \A i \in 1 .. Len(b) - 1 : b[i].kind = "result"

ResultsLast(b) ==
    /\ Len(b) >= 1
    /\ b[1].kind = "text"
    /\ \A i \in 2 .. Len(b) : b[i].kind = "result"

Picture(b) == Len(b) = 2 /\ b[1].kind = "text" /\ b[2].kind = "image"

Sole(b, kind) == Len(b) = 1 /\ b[1].kind = kind

Shaped(c, m) ==
    \/ m.role = "assistant" /\ Answering(m.blocks)
    \/ m.role # "assistant" /\ Picture(m.blocks)
    \/ /\ m.role # "assistant" /\ c = "messages"
       /\ ResultsFirst(m.blocks) \/ ResultsLast(m.blocks)
    \/ /\ m.role # "assistant" /\ c = "chat"
       /\ Sole(m.blocks, "result") \/ Sole(m.blocks, "text")

\* The i-th block of message m of h has the call it answers in message a.
AnsweredIn(h, a, m, i) ==
    /\ h[a].role = "assistant"
    /\ \A x \in a + 1 .. m - 1 :
          h[x].role # "assistant" /\ Sole(h[x].blocks, "result")
    /\ \E j \in 2 .. Len(h[a].blocks) :
          /\ h[a].blocks[j].id = h[m].blocks[i].id
          /\ h[a].blocks[j].label = h[m].blocks[i].label

\* Every result in message m answers a call of the answer before it.
ResultsAnswer(h, m) ==
    \A i \in DOMAIN h[m].blocks : h[m].blocks[i].kind = "result" =>
        \E a \in 1 .. m - 1 : AnsweredIn(h, a, m, i)

\* The question a conversation begins with.
Opens(m) ==
    /\ m.role = "user"
    /\ m.blocks[1].label = <<0, "next">>
    /\ Sole(m.blocks, "text") \/ Picture(m.blocks)

\* The history of a client of dialect c.
Ordered(c, h) ==
    /\ h \in Seq(MessageType)
    /\ Len(h) >= 1
    /\ Opens(h[1])
    /\ \A m \in 1 .. Len(h) : Shaped(c, h[m]) /\ ResultsAnswer(h, m)

(***************************************************************************)
(* A block on the wire.                                                    *)
(***************************************************************************)
Wired(p, id) ==
    IF p = "chatgpt" THEN SplitResponsesToolCallID(id)
    ELSE IF p = "openai" THEN ShortenToolCallID(id)
    ELSE IF p = "gemini" THEN NoId ELSE id

Carries(p, w, b) == w.kind = b.kind /\ w.label = b.label /\ w.id = Wired(p, b.id)

SameOrder(p, w, b) ==
    /\ w \in Seq(BlockType) /\ Len(w) = Len(b)
    /\ \A i \in 1 .. Len(b) : Carries(p, w[i], b[i])

LEMMA IdIsTyped ==
    ASSUME NEW by \in Makers, NEW t \in Nat, NEW n \in Nat, NEW item \in BOOLEAN
    PROVE  Id(by, t, n, item) \in IdType /\ Id(by, t, n, item).n = n
<1>1. FALSE \in BOOLEAN
  OBVIOUS
<1>2. QED
  BY <1>1 DEF Id, IdType

LEMMA IdTypes ==
    ASSUME NEW id \in IdType
    PROVE  /\ SplitResponsesToolCallID(id) \in IdType
           /\ SplitResponsesToolCallID(id).n = id.n
           /\ ShortenToolCallID(id) \in IdType
           /\ ShortenToolCallID(id).n = id.n
           /\ NoId \in IdType
<1>1. NoId \in IdType
  BY DEF NoId, Id, IdType, Makers
<1>2. SplitResponsesToolCallID(id) \in IdType /\ SplitResponsesToolCallID(id).n = id.n
  BY DEF SplitResponsesToolCallID, IdType
<1>3. ShortenToolCallID(id) \in IdType /\ ShortenToolCallID(id).n = id.n
  BY DEF ShortenToolCallID, IdType
<1> QED BY <1>1, <1>2, <1>3

LEMMA WiredKeepsNumber ==
    ASSUME NEW id \in IdType, NEW p, p # "gemini"
    PROVE  Wired(p, id).n = id.n
BY IdTypes DEF Wired

LEMMA BlockIsTyped ==
    ASSUME NEW kind \in BlockKinds, NEW label \in Label, NEW id \in IdType,
           NEW mark \in BOOLEAN
    PROVE  /\ Block(kind, label, id, mark) \in BlockType
           /\ Block(kind, label, id, mark).kind = kind
           /\ Block(kind, label, id, mark).label = label
           /\ Block(kind, label, id, mark).id = id
           /\ Block(kind, label, id, mark).mark = mark
BY DEF Block, BlockType

LEMMA BlockFields ==
    ASSUME NEW b \in BlockType
    PROVE  /\ b.kind \in BlockKinds
           /\ b.label \in Label
           /\ b.id \in IdType
           /\ b.mark \in BOOLEAN
BY DEF BlockType

LEMMA WiredBlocks ==
    ASSUME NEW b \in BlockType
    PROVE  /\ ChatGPTBlock(b) \in BlockType /\ Carries("chatgpt", ChatGPTBlock(b), b)
           /\ SanitizeMessages(b) \in BlockType /\ Carries("openai", SanitizeMessages(b), b)
           /\ GeminiBlock(b) \in BlockType /\ Carries("gemini", GeminiBlock(b), b)
           /\ Carries("anthropic", b, b)
<1>1. /\ b.kind \in BlockKinds
      /\ b.label \in Label
      /\ b.id \in IdType
      /\ b.mark \in BOOLEAN
  BY BlockFields
<1>2. \A id \in IdType : WithId(Unmarked(b), id) = Block(b.kind, b.label, id, FALSE)
  BY DEF WithId, Unmarked, Block
<1>3. \A id \in IdType :
        /\ WithId(Unmarked(b), id) \in BlockType
        /\ WithId(Unmarked(b), id).kind = b.kind
        /\ WithId(Unmarked(b), id).label = b.label
        /\ WithId(Unmarked(b), id).id = id
  <2>1. ASSUME NEW id \in IdType
        PROVE  /\ Block(b.kind, b.label, id, FALSE) \in BlockType
               /\ Block(b.kind, b.label, id, FALSE).kind = b.kind
               /\ Block(b.kind, b.label, id, FALSE).label = b.label
               /\ Block(b.kind, b.label, id, FALSE).id = id
    <3>1. Block(b.kind, b.label, id, FALSE) \in BlockType
      BY <1>1 DEF Block, BlockType
    <3>2. QED
      BY <3>1 DEF Block
  <2>2. QED
    BY <1>2, <2>1
<1>4. /\ SplitResponsesToolCallID(b.id) \in IdType
      /\ ShortenToolCallID(b.id) \in IdType
      /\ NoId \in IdType
  BY <1>1, IdTypes
<1>5. ChatGPTBlock(b) \in BlockType /\ Carries("chatgpt", ChatGPTBlock(b), b)
  BY <1>3, <1>4 DEF ChatGPTBlock, Carries, Wired
<1>6. SanitizeMessages(b) \in BlockType /\ Carries("openai", SanitizeMessages(b), b)
  BY <1>3, <1>4 DEF SanitizeMessages, Carries, Wired
<1>7. GeminiBlock(b) \in BlockType /\ Carries("gemini", GeminiBlock(b), b)
  BY <1>3, <1>4 DEF GeminiBlock, Carries, Wired
<1>8. Carries("anthropic", b, b)
  BY DEF Carries, Wired
<1> QED BY <1>5, <1>6, <1>7, <1>8

\* EachBlock translates block by block.
LEMMA EachBlockOf ==
    ASSUME NEW h \in Seq(MessageType)
    PROVE  /\ Len(EachBlock(h, ChatGPTBlock)) = Len(h)
           /\ Len(EachBlock(h, SanitizeMessages)) = Len(h)
           /\ Len(EachBlock(h, GeminiBlock)) = Len(h)
           /\ \A m \in 1 .. Len(h) :
                /\ SameOrder("chatgpt", EachBlock(h, ChatGPTBlock)[m].blocks, h[m].blocks)
                /\ SameOrder("openai", EachBlock(h, SanitizeMessages)[m].blocks, h[m].blocks)
                /\ SameOrder("gemini", EachBlock(h, GeminiBlock)[m].blocks, h[m].blocks)
                /\ SameOrder("anthropic", h[m].blocks, h[m].blocks)
<1>1. DOMAIN h = 1 .. Len(h) /\ Len(h) \in Nat
  OBVIOUS
<1>2. /\ Len(EachBlock(h, ChatGPTBlock)) = Len(h)
      /\ Len(EachBlock(h, SanitizeMessages)) = Len(h)
      /\ Len(EachBlock(h, GeminiBlock)) = Len(h)
  BY <1>1 DEF EachBlock
<1>3. ASSUME NEW m \in 1 .. Len(h)
      PROVE  /\ SameOrder("chatgpt", EachBlock(h, ChatGPTBlock)[m].blocks, h[m].blocks)
             /\ SameOrder("openai", EachBlock(h, SanitizeMessages)[m].blocks, h[m].blocks)
             /\ SameOrder("gemini", EachBlock(h, GeminiBlock)[m].blocks, h[m].blocks)
             /\ SameOrder("anthropic", h[m].blocks, h[m].blocks)
  <2> DEFINE b == h[m].blocks
  <2>1. b \in Seq(BlockType)
    <3>1. h[m] \in MessageType
      BY <1>3
    <3>2. QED
      BY <3>1 DEF MessageType
  <2>2. /\ EachBlock(h, ChatGPTBlock)[m].blocks = [i \in DOMAIN b |-> ChatGPTBlock(b[i])]
        /\ EachBlock(h, SanitizeMessages)[m].blocks = [i \in DOMAIN b |-> SanitizeMessages(b[i])]
        /\ EachBlock(h, GeminiBlock)[m].blocks = [i \in DOMAIN b |-> GeminiBlock(b[i])]
    BY <1>1, <1>3 DEF EachBlock, Message
  <2> HIDE DEF b
  <2>3. DOMAIN b = 1 .. Len(b) /\ Len(b) \in Nat /\ \A i \in 1 .. Len(b) : b[i] \in BlockType
    BY <2>1
  <2>4. SameOrder("chatgpt", [i \in DOMAIN b |-> ChatGPTBlock(b[i])], b)
    <3> DEFINE w == [i \in DOMAIN b |-> ChatGPTBlock(b[i])]
    <3>1. w \in Seq(BlockType) /\ Len(w) = Len(b)
      BY <2>3, WiredBlocks
    <3>2. \A i \in 1 .. Len(b) : Carries("chatgpt", w[i], b[i])
      BY <2>3, WiredBlocks
    <3>3. QED
      BY <3>1, <3>2 DEF SameOrder
  <2>5. SameOrder("openai", [i \in DOMAIN b |-> SanitizeMessages(b[i])], b)
    <3> DEFINE w == [i \in DOMAIN b |-> SanitizeMessages(b[i])]
    <3>1. w \in Seq(BlockType) /\ Len(w) = Len(b)
      BY <2>3, WiredBlocks
    <3>2. \A i \in 1 .. Len(b) : Carries("openai", w[i], b[i])
      BY <2>3, WiredBlocks
    <3>3. QED
      BY <3>1, <3>2 DEF SameOrder
  <2>6. SameOrder("gemini", [i \in DOMAIN b |-> GeminiBlock(b[i])], b)
    <3> DEFINE w == [i \in DOMAIN b |-> GeminiBlock(b[i])]
    <3>1. w \in Seq(BlockType) /\ Len(w) = Len(b)
      BY <2>3, WiredBlocks
    <3>2. \A i \in 1 .. Len(b) : Carries("gemini", w[i], b[i])
      BY <2>3, WiredBlocks
    <3>3. QED
      BY <3>1, <3>2 DEF SameOrder
  <2>7. SameOrder("anthropic", b, b)
    BY <2>1, <2>3, WiredBlocks DEF SameOrder
  <2> QED BY <2>2, <2>4, <2>5, <2>6, <2>7 DEF b
<1> QED BY <1>2, <1>3

-----------------------------------------------------------------------------
(***************************************************************************)
(* The bridge.                                                             *)
(***************************************************************************)
LEMMA SpanSize ==
    ASSUME NEW a \in Nat, NEW n \in Nat
    PROVE  IsFiniteSet(a + 1 .. a + n) /\ Cardinality(a + 1 .. a + n) = n
<1>1. a + 1 \in Int /\ a + n \in Int
  OBVIOUS
<1>2. IsFiniteSet(a + 1 .. a + n) /\ Cardinality(a + 1 .. a + n) =
        IF a + 1 > a + n THEN 0 ELSE (a + n) - (a + 1) + 1
  BY <1>1, FS_Interval
<1>3. QED
  BY <1>2

\* n blocks from the one after a on.
Span(b, a, n) == [k \in 1 .. n |-> b[a + k]]

\* The blocks of a kind stand together, and are picked as they stand.
Together(b, kind, a, n) ==
    /\ \A i \in DOMAIN b : b[i].kind = kind <=> i \in a + 1 .. a + n
    /\ a + 1 .. a + n \subseteq DOMAIN b

Picked(b, kind, a, n) == OfKind(b, kind) = Span(b, a, n)

LEMMA PicksSpan ==
    ASSUME NEW b, NEW kind, NEW a \in Nat, NEW n \in Nat, Together(b, kind, a, n)
    PROVE  Picked(b, kind, a, n)
<1> DEFINE picked == {i \in DOMAIN b : b[i].kind = kind}
           place(k) == CHOOSE i \in picked : Cardinality(picked \cap 1 .. i) = k
<1>1. OfKind(b, kind) = [k \in 1 .. Cardinality(picked) |-> b[place(k)]]
  BY DEF OfKind
<1>0. picked = a + 1 .. a + n
  BY DEF Together
<1> HIDE DEF picked
<1>2. Cardinality(picked) = n
  BY <1>0, SpanSize
<1>3. ASSUME NEW k \in 1 .. n PROVE place(k) = a + k
  <2>1. ASSUME NEW i \in picked
        PROVE  Cardinality(picked \cap 1 .. i) = i - a
    <3>1. picked \cap 1 .. i = a + 1 .. a + (i - a) /\ i - a \in Nat
      BY <1>0
    <3>2. QED
      BY <3>1, SpanSize
  <2>2. a + k \in picked /\ (a + k) - a = k
    BY <1>0
  <2>3. picked \subseteq Nat
    BY <1>0
  <2>4. \A i \in picked : Cardinality(picked \cap 1 .. i) = k <=> i = a + k
    BY <2>1, <2>2, <2>3
  <2>5. QED
    BY <2>2, <2>4
<1> HIDE DEF place
<1>4. QED
  BY <1>1, <1>2, <1>3 DEF Picked, Span

LEMMA SpanIsSeq ==
    ASSUME NEW b \in Seq(BlockType), NEW a \in Nat, NEW n \in Nat, a + n <= Len(b)
    PROVE  /\ Span(b, a, n) \in Seq(BlockType)
           /\ Len(Span(b, a, n)) = n
           /\ \A i \in 1 .. n : Span(b, a, n)[i] = b[a + i]
BY DEF Span

LEMMA SpanOne ==
    ASSUME NEW b \in Seq(BlockType), Len(b) >= 1
    PROVE  /\ Span(b, 0, 1) \in Seq(BlockType)
           /\ Len(Span(b, 0, 1)) = 1
           /\ Span(b, 0, 1)[1] = b[1]
BY DEF Span

LEMMA JoinOf ==
    ASSUME NEW S, NEW s \in Seq(S), NEW t \in Seq(S)
    PROVE  /\ s \o t \in Seq(S)
           /\ Len(s \o t) = Len(s) + Len(t)
           /\ \A i \in 1 .. Len(s) : (s \o t)[i] = s[i]
           /\ \A i \in 1 .. Len(t) : (s \o t)[Len(s) + i] = t[i]
OBVIOUS

LEMMA JoinedIs ==
    ASSUME NEW S, NEW s \in Seq(S), NEW t \in Seq(S), NEW b \in Seq(S),
           Len(b) = Len(s) + Len(t),
           \A i \in 1 .. Len(s) : s[i] = b[i],
           \A i \in 1 .. Len(t) : t[i] = b[Len(s) + i]
    PROVE  s \o t = b
<1>1. /\ s \o t \in Seq(S)
      /\ Len(s \o t) = Len(s) + Len(t)
      /\ \A i \in 1 .. Len(s) : (s \o t)[i] = s[i]
      /\ \A i \in 1 .. Len(t) : (s \o t)[Len(s) + i] = t[i]
  BY JoinOf
<1>2. ASSUME NEW i \in 1 .. Len(b) PROVE (s \o t)[i] = b[i]
  <2>1. CASE i <= Len(s)
    BY <1>1, <2>1
  <2>2. CASE ~(i <= Len(s))
    <3>1. i - Len(s) \in 1 .. Len(t) /\ i = Len(s) + (i - Len(s))
      BY <2>2
    <3>2. QED
      BY <1>1, <3>1
  <2>3. QED
    BY <2>1, <2>2
<1>3. QED
  BY <1>1, <1>2

\* Two spans that meet.
Joins(b, z, n, k) == Span(b, z, n) \o Span(b, n, k) = b

LEMMA SpansJoin ==
    ASSUME NEW b \in Seq(BlockType), NEW z \in Nat, NEW n \in Nat, NEW k \in Nat,
           z = 0, Len(b) = n + k
    PROVE  Joins(b, z, n, k)
<1> DEFINE s == Span(b, z, n)
           t == Span(b, n, k)
<1>1. s \in Seq(BlockType) /\ Len(s) = n /\ \A i \in 1 .. n : s[i] = b[z + i]
  BY SpanIsSeq
<1>2. t \in Seq(BlockType) /\ Len(t) = k /\ \A i \in 1 .. k : t[i] = b[n + i]
  BY SpanIsSeq
<1> HIDE DEF s, t
<1>3. \A i \in 1 .. Len(s) : s[i] = b[i]
  BY <1>1
<1>4. \A i \in 1 .. Len(t) : t[i] = b[Len(s) + i]
  BY <1>1, <1>2
<1>5. Len(b) = Len(s) + Len(t)
  BY <1>1, <1>2
<1>6. s \o t = b
  BY <1>1, <1>2, <1>3, <1>4, <1>5, JoinedIs
<1>7. QED
  BY <1>6 DEF s, t, Joins

LEMMA PicksNone ==
    ASSUME NEW b \in Seq(BlockType), NEW kind,
           \A i \in DOMAIN b : b[i].kind # kind
    PROVE  OfKind(b, kind) = <<>>
<1>1. Together(b, kind, 0, 0)
  BY DEF Together
<1>2. QED
  BY <1>1, PicksSpan DEF Picked, Span

LEMMA ConvertedAnswer ==
    ASSUME NEW b \in Seq(BlockType), Answering(b)
    PROVE  ConvertAssistantBlocks(b) = b
<1> DEFINE n == Len(b) - 1
<1>1. n \in Nat /\ DOMAIN b = 1 .. n + 1 /\ Len(b) = n + 1
  BY DEF Answering
<1>2. b[1].kind = "text" /\ \A i \in 2 .. n + 1 : b[i].kind = "call"
  BY <1>1 DEF Answering
<1> HIDE DEF n
<1>3. PICK z \in Nat, e \in Nat : z = 0 /\ e = 1
  OBVIOUS
<1>4. Together(b, "text", z, e) /\ Together(b, "call", e, n)
  BY <1>1, <1>2, <1>3 DEF Together
<1>5. z = 0 /\ n \in Nat /\ Len(b) = e + n
  BY <1>1, <1>3
<1>6. Picked(b, "text", z, e) /\ Picked(b, "call", e, n)
  BY <1>4, <1>5, PicksSpan
<1>7. Joins(b, z, e, n)
  BY <1>5, SpansJoin
<1>8. QED
  BY <1>6, <1>7 DEF Picked, Joins, ConvertAssistantBlocks

\* A turn of the client, its results put first.
Rotated(w, b) ==
    /\ w \in Seq(BlockType) /\ Len(w) = Len(b)
    /\ \A i \in 1 .. Len(b) - 1 : w[i] = b[i + 1]
    /\ w[Len(b)] = b[1]

LEMMA ConvertedTurn ==
    ASSUME NEW b \in Seq(BlockType)
    PROVE  /\ ResultsFirst(b) => ConvertUserBlocks(b) = b
           /\ ResultsLast(b) => Rotated(ConvertUserBlocks(b), b)
           /\ Picture(b) => /\ ConvertUserBlocks(b) \in Seq(BlockType)
                            /\ Len(ConvertUserBlocks(b)) = 1
                            /\ ConvertUserBlocks(b)[1] = b[1]
<1>0. DOMAIN b = 1 .. Len(b) /\ Len(b) \in Nat
  OBVIOUS
<1>1. ASSUME ResultsFirst(b) PROVE ConvertUserBlocks(b) = b
  <2> DEFINE n == Len(b) - 1
  <2>1. n \in Nat /\ DOMAIN b = 1 .. n + 1 /\ Len(b) = n + 1
    BY <1>1 DEF ResultsFirst
  <2>2. b[n + 1].kind = "text" /\ \A i \in 1 .. n : b[i].kind = "result"
    BY <1>1, <2>1 DEF ResultsFirst
  <2> HIDE DEF n
  <2>3. PICK z \in Nat, e \in Nat : z = 0 /\ e = 1
    OBVIOUS
  <2>4. Together(b, "text", n, e) /\ Together(b, "result", z, n)
    BY <2>1, <2>2, <2>3 DEF Together
  <2>5. z = 0 /\ n \in Nat /\ Len(b) = n + e
    BY <2>1, <2>3
  <2>6. Picked(b, "text", n, e) /\ Picked(b, "result", z, n)
    BY <2>4, <2>5, PicksSpan
  <2>7. Joins(b, z, n, e)
    BY <2>5, SpansJoin
  <2>8. QED
    BY <2>6, <2>7 DEF Picked, Joins, ConvertUserBlocks
<1>2. ASSUME ResultsLast(b) PROVE Rotated(ConvertUserBlocks(b), b)
  <2> DEFINE n == Len(b) - 1
  <2>1. n \in Nat /\ DOMAIN b = 1 .. n + 1 /\ Len(b) = n + 1
    BY <1>2 DEF ResultsLast
  <2>2. b[1].kind = "text" /\ \A i \in 2 .. n + 1 : b[i].kind = "result"
    BY <1>2, <2>1 DEF ResultsLast
  <2> HIDE DEF n
  <2>3. OfKind(b, "text") = Span(b, 0, 1)
    <3>1. Together(b, "text", 0, 1)
      BY <2>1, <2>2 DEF Together
    <3>2. QED
      BY <3>1, PicksSpan DEF Picked
  <2>4. OfKind(b, "result") = Span(b, 1, n)
    <3>1. Together(b, "result", 1, n)
      BY <2>1, <2>2 DEF Together
    <3>2. QED
      BY <2>1, <3>1, PicksSpan DEF Picked
  <2>5. Rotated(Span(b, 1, n) \o Span(b, 0, 1), b)
    <3> DEFINE s == Span(b, 1, n)
               t == Span(b, 0, 1)
    <3>1. s \in Seq(BlockType) /\ Len(s) = n /\ \A i \in 1 .. n : s[i] = b[1 + i]
      BY <2>1, SpanIsSeq
    <3>2. t \in Seq(BlockType) /\ Len(t) = 1 /\ t[1] = b[1]
      BY <2>1, SpanOne
    <3>3. /\ s \o t \in Seq(BlockType)
          /\ Len(s \o t) = Len(s) + Len(t)
          /\ \A i \in 1 .. Len(s) : (s \o t)[i] = s[i]
          /\ \A i \in 1 .. Len(t) : (s \o t)[Len(s) + i] = t[i]
      BY <3>1, <3>2, JoinOf
    <3> HIDE DEF s, t
    <3>4. \A i \in 1 .. n : (s \o t)[i] = b[i + 1]
      BY <2>1, <3>1, <3>3
    <3>5. (s \o t)[n + 1] = b[1]
      BY <2>1, <3>1, <3>2, <3>3
    <3>6. Len(s \o t) = n + 1
      BY <3>1, <3>2, <3>3
    <3>7. Rotated(s \o t, b)
      BY <2>1, <3>3, <3>4, <3>5, <3>6 DEF Rotated
    <3>8. QED
      BY <3>7 DEF s, t
  <2>6. QED
    BY <2>3, <2>4, <2>5 DEF ConvertUserBlocks
<1>3. ASSUME Picture(b)
      PROVE  /\ ConvertUserBlocks(b) \in Seq(BlockType)
             /\ Len(ConvertUserBlocks(b)) = 1
             /\ ConvertUserBlocks(b)[1] = b[1]
  <2>1. Len(b) = 2 /\ b[1].kind = "text" /\ b[2].kind = "image"
    BY <1>3 DEF Picture
  <2>2. OfKind(b, "text") = Span(b, 0, 1)
    <3>1. Together(b, "text", 0, 1)
      BY <1>0, <2>1 DEF Together
    <3>2. QED
      BY <3>1, PicksSpan DEF Picked
  <2>3. OfKind(b, "result") = <<>>
    BY <1>0, <2>1, PicksNone
  <2>4. /\ Span(b, 0, 1) \in Seq(BlockType)
        /\ Len(Span(b, 0, 1)) = 1
        /\ Span(b, 0, 1)[1] = b[1]
    BY <2>1, SpanOne
  <2>5. ConvertUserBlocks(b) = Span(b, 0, 1)
    BY <2>2, <2>3, <2>4 DEF ConvertUserBlocks
  <2>6. QED
    BY <2>4, <2>5
<1>4. QED
  BY <1>1, <1>2, <1>3

-----------------------------------------------------------------------------
(***************************************************************************)
(* The translations as wholes.                                             *)
(***************************************************************************)
\* A turn of the client on the wire, its text moved behind its results.
Turned(p, w, b) ==
    /\ Len(w) = Len(b)
    /\ \A i \in 1 .. Len(b) - 1 : Carries(p, w[i], b[i + 1])
    /\ Carries(p, w[Len(b)], b[1])

BridgedAs(w, b) ==
    /\ Answering(b) \/ ResultsFirst(b) => SameOrder("chatgpt", w, b)
    /\ ResultsLast(b) => Turned("chatgpt", w, b)
    /\ Picture(b) => Len(w) = 1 /\ Carries("chatgpt", w[1], b[1])

WireAs(c, p, w, h) ==
    /\ Len(w) = Len(h) /\ DOMAIN w = 1 .. Len(h)
    /\ \A m \in 1 .. Len(h) :
         /\ w[m].blocks \in Seq(BlockType)
         /\ IF c = "messages" /\ p = "chatgpt"
            THEN BridgedAs(w[m].blocks, h[m].blocks)
            ELSE SameOrder(p, w[m].blocks, h[m].blocks)

LEMMA MessageFields ==
    ASSUME NEW m \in MessageType
    PROVE  m.role \in Roles /\ m.blocks \in Seq(BlockType)
BY DEF MessageType

LEMMA MessageIsTyped ==
    ASSUME NEW r \in Roles, NEW b \in Seq(BlockType)
    PROVE  /\ Message(r, b) \in MessageType
           /\ Message(r, b).role = r
           /\ Message(r, b).blocks = b
BY DEF Message, MessageType

LEMMA MessageHas ==
    ASSUME NEW r, NEW b
    PROVE  Message(r, b).role = r /\ Message(r, b).blocks = b
BY DEF Message

\* What the bridge hands to the ChatGPT client.
LEMMA ConvertedMessages ==
    ASSUME NEW h, Ordered("messages", h)
    PROVE  LET w == [i \in DOMAIN h |-> ConvertMessage(h[i])]
           IN /\ w \in Seq(MessageType) /\ Len(w) = Len(h)
              /\ \A m \in 1 .. Len(h) :
                   /\ h[m].blocks \in Seq(BlockType)
                   /\ w[m].role = h[m].role
                   /\ Answering(h[m].blocks) /\ h[m].role = "assistant" =>
                        w[m].blocks = h[m].blocks
                   /\ h[m].role # "assistant" =>
                        w[m].blocks = ConvertUserBlocks(h[m].blocks)
<1> DEFINE w == [i \in DOMAIN h |-> ConvertMessage(h[i])]
<1>1. /\ h \in Seq(MessageType)
      /\ \A m \in 1 .. Len(h) : Shaped("messages", h[m])
  BY DEF Ordered
<1>2. Len(h) \in Nat /\ DOMAIN h = 1 .. Len(h) /\ \A m \in 1 .. Len(h) : h[m] \in MessageType
  BY <1>1
<1>3. ASSUME NEW m \in 1 .. Len(h)
      PROVE  /\ ConvertMessage(h[m]) \in MessageType
             /\ h[m].blocks \in Seq(BlockType)
             /\ ConvertMessage(h[m]).role = h[m].role
             /\ Answering(h[m].blocks) /\ h[m].role = "assistant" =>
                  ConvertMessage(h[m]).blocks = h[m].blocks
             /\ h[m].role # "assistant" =>
                  ConvertMessage(h[m]).blocks = ConvertUserBlocks(h[m].blocks)
  <2> DEFINE b == h[m].blocks
             r == h[m].role
  <2>1. r \in Roles /\ b \in Seq(BlockType)
    BY <1>2, MessageFields
  <2>2. \/ r = "assistant" /\ Answering(b)
        \/ r # "assistant" /\ (Picture(b) \/ ResultsFirst(b) \/ ResultsLast(b))
    <3>1. Shaped("messages", h[m])
      BY <1>1
    <3>2. QED
      BY <3>1 DEF Shaped
  <2>3. ConvertMessage(h[m]) = Message(r, IF r = "assistant" THEN ConvertAssistantBlocks(b)
                                          ELSE ConvertUserBlocks(b))
    BY DEF ConvertMessage
  <2> HIDE DEF b, r
  <2>4. CASE r = "assistant"
    <3>1. ConvertMessage(h[m]) = Message(r, b)
      BY <2>1, <2>2, <2>3, <2>4, ConvertedAnswer
    <3>2. QED
      BY <2>1, <2>4, <3>1, MessageIsTyped DEF b, r
  <2>5. CASE r # "assistant"
    <3>1. ConvertUserBlocks(b) \in Seq(BlockType)
      BY <2>1, <2>2, <2>5, ConvertedTurn DEF Rotated
    <3>2. ConvertMessage(h[m]) = Message(r, ConvertUserBlocks(b))
      BY <2>3, <2>5
    <3>3. QED
      BY <2>1, <2>5, <3>1, <3>2, MessageIsTyped DEF b, r
  <2>6. QED
    BY <2>4, <2>5
<1>4. w \in Seq(MessageType) /\ Len(w) = Len(h) /\ \A m \in 1 .. Len(h) : w[m] = ConvertMessage(h[m])
  BY <1>2, <1>3
<1>5. QED
  BY <1>3, <1>4

LEMMA BridgeWire ==
    ASSUME NEW h, Ordered("messages", h)
    PROVE  WireAs("messages", "chatgpt",
                  EachBlock([i \in DOMAIN h |-> ConvertMessage(h[i])], ChatGPTBlock), h)
<1> DEFINE w == [i \in DOMAIN h |-> ConvertMessage(h[i])]
           e == EachBlock(w, ChatGPTBlock)
<1>1. /\ w \in Seq(MessageType) /\ Len(w) = Len(h)
      /\ \A m \in 1 .. Len(h) :
           /\ h[m].blocks \in Seq(BlockType)
           /\ Answering(h[m].blocks) /\ h[m].role = "assistant" =>
                w[m].blocks = h[m].blocks
           /\ h[m].role # "assistant" =>
                w[m].blocks = ConvertUserBlocks(h[m].blocks)
  BY ConvertedMessages
<1>2. DOMAIN e = DOMAIN w
  BY DEF EachBlock
<1> HIDE DEF w
<1>3. Len(e) = Len(w) /\ \A m \in 1 .. Len(w) : SameOrder("chatgpt", e[m].blocks, w[m].blocks)
  BY <1>1, EachBlockOf
<1> HIDE DEF e
<1>4. \A m \in 1 .. Len(h) : Shaped("messages", h[m])
  BY DEF Ordered
<1>5. ASSUME NEW m \in 1 .. Len(h)
      PROVE  e[m].blocks \in Seq(BlockType) /\ BridgedAs(e[m].blocks, h[m].blocks)
  <2> DEFINE b == h[m].blocks
             x == w[m].blocks
             y == e[m].blocks
  <2>1. SameOrder("chatgpt", y, x) /\ b \in Seq(BlockType)
    BY <1>1, <1>3
  <2>2. \/ h[m].role = "assistant" /\ Answering(b) /\ x = b
        \/ /\ h[m].role # "assistant" /\ x = ConvertUserBlocks(b)
           /\ Picture(b) \/ ResultsFirst(b) \/ ResultsLast(b)
    BY <1>1, <1>4 DEF Shaped
  <2> HIDE DEF b, x, y
  <2>3. y \in Seq(BlockType) /\ Len(y) = Len(x) /\ \A i \in 1 .. Len(x) : Carries("chatgpt", y[i], x[i])
    BY <2>1 DEF SameOrder
  <2>4. Answering(b) => b[1].kind = "text" /\ \A i \in 2 .. Len(b) : b[i].kind = "call"
    BY DEF Answering
  <2>5. Len(b) \in Nat
    BY <2>1
  <2>6. CASE x = b /\ Answering(b)
    <3>1. ResultsLast(b) => Len(b) = 1
      <4>1. SUFFICES ASSUME ResultsLast(b), Len(b) # 1 PROVE FALSE
        OBVIOUS
      <4>2. Len(b) >= 1 /\ \A i \in 2 .. Len(b) : b[i].kind = "result"
        BY <4>1 DEF ResultsLast
      <4>3. 2 \in 2 .. Len(b)
        <5>1. Len(b) >= 1 /\ Len(b) # 1
          BY <4>1, <4>2
        <5>2. \A l \in Nat : l >= 1 /\ l # 1 => 2 \in 2 .. l
          OBVIOUS
        <5>3. QED
          BY <2>5, <5>1, <5>2, Zenon
      <4>4. b[2].kind = "result" /\ b[2].kind = "call"
        BY <2>4, <2>6, <4>2, <4>3
      <4>5. QED
        BY <4>4
    <3>2. ~Picture(b)
      BY <2>4, <2>6 DEF Picture
    <3>3. ResultsLast(b) => Turned("chatgpt", y, b)
      BY <2>3, <2>6, <3>1, SMTT(30) DEF Turned
    <3>4. QED
      BY <2>1, <2>3, <2>6, <3>2, <3>3 DEF BridgedAs, b, x, y
  <2>7. CASE x = ConvertUserBlocks(b) /\ (Picture(b) \/ ResultsFirst(b) \/ ResultsLast(b))
    <3>1. Answering(b) => ResultsFirst(b)
      <4>1. CASE Picture(b)
        BY <2>4, <4>1 DEF Picture
      <4>2. CASE ResultsFirst(b)
        BY <4>2
      <4>3. CASE ResultsLast(b)
        BY <2>4, <2>5, <4>3 DEF ResultsLast, ResultsFirst
      <4>4. QED
        BY <2>7, <4>1, <4>2, <4>3
    <3>2. ResultsFirst(b) => SameOrder("chatgpt", y, b)
      BY <2>1, <2>7, ConvertedTurn
    <3>3. ResultsLast(b) => Turned("chatgpt", y, b)
      <4>1. SUFFICES ASSUME ResultsLast(b) PROVE Turned("chatgpt", y, b)
        OBVIOUS
      <4>2. Rotated(x, b)
        BY <2>1, <2>7, <4>1, ConvertedTurn
      <4>3. Len(b) >= 1
        BY <4>1 DEF ResultsLast
      <4>4. QED
        BY <2>3, <2>5, <4>2, <4>3 DEF Rotated, Turned
    <3>4. Picture(b) => Len(y) = 1 /\ Carries("chatgpt", y[1], b[1])
      BY <2>1, <2>3, <2>7, ConvertedTurn
    <3>5. QED
      BY <2>3, <3>1, <3>2, <3>3, <3>4 DEF BridgedAs, b, x, y
  <2>8. QED
    BY <2>2, <2>3, <2>6, <2>7 DEF b, x, y
<1>6. DOMAIN e = 1 .. Len(h)
  BY <1>1, <1>2
<1>7. WireAs("messages", "chatgpt", e, h)
  BY <1>1, <1>3, <1>5, <1>6 DEF WireAs
<1>8. QED
  BY <1>7 DEF e, w

-----------------------------------------------------------------------------
Upstreams == {"anthropic", "chatgpt", "openai", "gemini"}

\* Every translation sends on each message, block by block, or as the bridge does.
LEMMA TranslatedAs ==
    ASSUME client \in {"chat", "messages"}, Ordered(client, hist), NEW p \in Reaches
    PROVE  /\ Translated(p).to = p
           /\ WireAs(client, p, Translated(p).msgs, hist)
<1>1. p \in Upstreams /\ (client = "messages" => p \in {"anthropic", "chatgpt"})
  BY ConversationAssumption DEF Reaches, Upstreams
<1>2. hist \in Seq(MessageType)
  BY DEF Ordered
<1>3. DOMAIN hist = 1 .. Len(hist) /\ Len(hist) \in Nat
  BY <1>2
<1>4. /\ Len(EachBlock(hist, ChatGPTBlock)) = Len(hist)
      /\ Len(EachBlock(hist, SanitizeMessages)) = Len(hist)
      /\ Len(EachBlock(hist, GeminiBlock)) = Len(hist)
      /\ \A m \in 1 .. Len(hist) :
           /\ SameOrder("chatgpt", EachBlock(hist, ChatGPTBlock)[m].blocks, hist[m].blocks)
           /\ SameOrder("openai", EachBlock(hist, SanitizeMessages)[m].blocks, hist[m].blocks)
           /\ SameOrder("gemini", EachBlock(hist, GeminiBlock)[m].blocks, hist[m].blocks)
           /\ SameOrder("anthropic", hist[m].blocks, hist[m].blocks)
  BY <1>2, EachBlockOf
<1>5. /\ DOMAIN EachBlock(hist, ChatGPTBlock) = 1 .. Len(hist)
      /\ DOMAIN EachBlock(hist, SanitizeMessages) = 1 .. Len(hist)
      /\ DOMAIN EachBlock(hist, GeminiBlock) = 1 .. Len(hist)
  BY <1>3 DEF EachBlock
<1>6. CASE p = "anthropic" /\ client = "messages"
  <2>1. Translated(p).to = p /\ Translated(p).msgs = hist
    BY <1>6 DEF Translated, PreparePassthroughBody
  <2>2. \A m \in 1 .. Len(hist) : hist[m].blocks \in Seq(BlockType)
    BY <1>4 DEF SameOrder
  <2>3. WireAs(client, p, hist, hist)
    BY <1>3, <1>4, <1>6, <2>2 DEF WireAs
  <2>4. QED
    BY <2>1, <2>3
<1>7. CASE p = "anthropic" /\ client = "chat"
  <2> DEFINE w == [m \in DOMAIN hist |-> ToAnthropicMessage(hist[m])]
  <2>1. Translated(p).to = p /\ Translated(p).msgs = w
    BY <1>7 DEF Translated, ToAnthropicReq
  <2>2. DOMAIN w = 1 .. Len(hist) /\ Len(w) = Len(hist)
    BY <1>3
  <2>3. ASSUME NEW m \in 1 .. Len(hist) PROVE w[m].blocks = hist[m].blocks
    BY <1>3, MessageHas DEF ToAnthropicMessage
  <2> HIDE DEF w
  <2>4. \A m \in 1 .. Len(hist) : hist[m].blocks \in Seq(BlockType)
    BY <1>4 DEF SameOrder
  <2>5. WireAs(client, p, w, hist)
    BY <1>4, <1>7, <2>2, <2>3, <2>4 DEF WireAs
  <2>6. QED
    BY <2>1, <2>5
<1>8. CASE p = "chatgpt" /\ client = "chat"
  <2> DEFINE w == EachBlock(hist, ChatGPTBlock)
  <2>1. Translated(p).to = p /\ Translated(p).msgs = w
    BY <1>8 DEF Translated, ChatGPTRequest, Messages
  <2> HIDE DEF w
  <2>2. WireAs(client, p, w, hist)
    BY <1>4, <1>5, <1>8 DEF WireAs, SameOrder, w
  <2>3. QED
    BY <2>1, <2>2
<1>9. CASE p = "chatgpt" /\ client = "messages"
  <2> DEFINE w == EachBlock([i \in DOMAIN hist |-> ConvertMessage(hist[i])], ChatGPTBlock)
  <2>1. Translated(p).to = p /\ Translated(p).msgs = w
    BY <1>9 DEF Translated, ChatGPTRequest, Messages, AnthropicToChatRequest
  <2>2. WireAs("messages", "chatgpt", w, hist)
    BY <1>9, BridgeWire
  <2>3. QED
    BY <1>9, <2>1, <2>2
<1>10. CASE p = "openai" /\ client = "chat"
  <2> DEFINE w == EachBlock(hist, SanitizeMessages)
  <2>1. Translated(p).to = p /\ Translated(p).msgs = w
    BY <1>10 DEF Translated, OpenAIRequest
  <2> HIDE DEF w
  <2>2. WireAs(client, p, w, hist)
    BY <1>4, <1>5, <1>10 DEF WireAs, SameOrder, w
  <2>3. QED
    BY <2>1, <2>2
<1>11. CASE p = "gemini" /\ client = "chat"
  <2> DEFINE w == EachBlock(hist, GeminiBlock)
  <2>1. Translated(p).to = p /\ Translated(p).msgs = w
    BY <1>11 DEF Translated, GeminiRequest
  <2> HIDE DEF w
  <2>2. WireAs(client, p, w, hist)
    BY <1>4, <1>5, <1>11 DEF WireAs, SameOrder, w
  <2>3. QED
    BY <2>1, <2>2
<1>12. QED
  BY <1>1, <1>6, <1>7, <1>8, <1>9, <1>10, <1>11 DEF Upstreams

-----------------------------------------------------------------------------
(***************************************************************************)
(* What follows for the request on the wire.                               *)
(***************************************************************************)
LEMMA ShapeOf ==
    ASSUME NEW c, NEW h, Ordered(c, h), NEW m \in 1 .. Len(h)
    PROVE  /\ h[m].blocks \in Seq(BlockType)
           /\ Shaped(c, h[m])
           /\ ResultsAnswer(h, m)
<1>1. h[m] \in MessageType
  BY DEF Ordered
<1>2. QED
  BY <1>1, MessageFields DEF Ordered

\* Results of an answer stand in a turn of the client, with text and nothing else.
LEMMA ResultsStand ==
    ASSUME NEW c, NEW m, Shaped(c, m), NEW j \in 1 .. Len(m.blocks),
           m.blocks \in Seq(BlockType), m.blocks[j].kind = "result"
    PROVE  /\ m.role # "assistant"
           /\ \/ c = "messages" /\ (ResultsFirst(m.blocks) \/ ResultsLast(m.blocks))
              \/ c = "chat" /\ Sole(m.blocks, "result")
<1> DEFINE b == m.blocks
<1>1. Len(b) \in Nat
  OBVIOUS
<1>2. ~Answering(b)
  <2>1. SUFFICES ASSUME Answering(b) PROVE FALSE
    OBVIOUS
  <2>2. b[1].kind = "text" /\ \A i \in 2 .. Len(b) : b[i].kind = "call"
    BY <2>1 DEF Answering
  <2>3. j = 1 \/ j \in 2 .. Len(b)
    BY <1>1
  <2>4. QED
    BY <2>2, <2>3
<1>3. ~Picture(b)
  <2>1. SUFFICES ASSUME Picture(b) PROVE FALSE
    OBVIOUS
  <2>2. b[1].kind = "text" /\ b[2].kind = "image" /\ j \in 1 .. 2
    BY <2>1 DEF Picture
  <2>3. j = 1 \/ j = 2
    BY <2>2
  <2>4. QED
    BY <2>2, <2>3
<1>4. ~Sole(b, "text")
  <2>1. SUFFICES ASSUME Sole(b, "text") PROVE FALSE
    OBVIOUS
  <2>2. b[1].kind = "text" /\ j \in 1 .. 1
    BY <2>1 DEF Sole
  <2>3. j = 1
    BY <2>2
  <2>4. QED
    BY <2>2, <2>3
<1>5. QED
  BY <1>2, <1>3, <1>4 DEF Shaped

\* Where a result on the wire comes from, and what stands ahead of it there.
LEMMA ResultOrigin ==
    ASSUME NEW c, NEW p, NEW w, NEW h, Ordered(c, h), WireAs(c, p, w, h),
           c = "messages" => p \in {"anthropic", "chatgpt"},
           NEW m \in 1 .. Len(h), NEW i \in 1 .. Len(w[m].blocks),
           w[m].blocks[i].kind = "result"
    PROVE  /\ \E j \in 1 .. Len(h[m].blocks) : Carries(p, w[m].blocks[i], h[m].blocks[j])
           /\ \A y \in 1 .. i - 1 :
                \/ w[m].blocks[y].kind = "result"
                \/ c = "messages" /\ p = "anthropic" /\ w[m].blocks[y].kind # "call"
<1> DEFINE b == h[m].blocks
           x == w[m].blocks
<1>1. b \in Seq(BlockType) /\ Shaped(c, h[m]) /\ x \in Seq(BlockType)
  BY ShapeOf DEF WireAs
<1>2. Len(b) \in Nat /\ Len(x) \in Nat
  BY <1>1
<1>3. CASE c = "messages" /\ p = "chatgpt"
  <2>1. BridgedAs(x, b)
    BY <1>3 DEF WireAs
  <2>2. CASE Answering(b)
    <3>1. SameOrder("chatgpt", x, b)
      BY <2>1, <2>2 DEF BridgedAs
    <3>2. i \in 1 .. Len(b) /\ b[i].kind = "result"
      BY <3>1 DEF SameOrder, Carries
    <3>3. i = 1 \/ i \in 2 .. Len(b)
      BY <1>2, <3>2
    <3>4. QED
      BY <2>2, <3>2, <3>3 DEF Answering
  <2>3. CASE Picture(b)
    <3>1. Len(x) = 1 /\ x[1].kind = b[1].kind /\ b[1].kind = "text"
      BY <2>1, <2>3 DEF BridgedAs, Carries, Picture
    <3>2. i = 1
      BY <3>1
    <3>3. QED
      BY <3>1, <3>2
  <2>4. CASE ResultsFirst(b)
    <3>1. SameOrder("chatgpt", x, b)
      BY <2>1, <2>4 DEF BridgedAs
    <3>2. /\ Len(x) = Len(b)
          /\ \A k \in 1 .. Len(b) : Carries(p, x[k], b[k])
      BY <1>3, <3>1 DEF SameOrder
    <3>3. \A k \in 1 .. Len(b) - 1 : b[k].kind = "result"
      BY <2>4 DEF ResultsFirst
    <3>4. ASSUME NEW y \in 1 .. i - 1 PROVE x[y].kind = "result"
      <4>1. y \in 1 .. Len(b) - 1 /\ y \in 1 .. Len(b)
        BY <1>2, <3>2
      <4>2. QED
        BY <3>2, <3>3, <4>1 DEF Carries
    <3>5. QED
      BY <3>2, <3>4
  <2>5. CASE ResultsLast(b)
    <3>1. Turned("chatgpt", x, b)
      BY <2>1, <2>5 DEF BridgedAs
    <3>2. /\ Len(x) = Len(b)
          /\ \A k \in 1 .. Len(b) - 1 : Carries(p, x[k], b[k + 1])
          /\ Carries(p, x[Len(b)], b[1])
      BY <1>3, <3>1 DEF Turned
    <3>3. Len(b) >= 1 /\ b[1].kind = "text" /\ \A k \in 2 .. Len(b) : b[k].kind = "result"
      BY <2>5 DEF ResultsLast
    <3>4. i # Len(b)
      BY <3>2, <3>3 DEF Carries
    <3>5. i \in 1 .. Len(b) - 1 /\ i + 1 \in 1 .. Len(b)
      BY <1>2, <3>2, <3>4
    <3>6. ASSUME NEW y \in 1 .. i - 1 PROVE x[y].kind = "result"
      <4>1. y \in 1 .. Len(b) - 1 /\ y + 1 \in 2 .. Len(b)
        BY <1>2, <3>5
      <4>2. QED
        BY <3>2, <3>3, <4>1 DEF Carries
    <3>7. QED
      BY <3>2, <3>5, <3>6
  <2>6. QED
    BY <1>1, <1>3, <2>2, <2>3, <2>4, <2>5 DEF Shaped
<1>4. CASE ~(c = "messages" /\ p = "chatgpt")
  <2>1. SameOrder(p, x, b)
    BY <1>4 DEF WireAs
  <2>2. Len(x) = Len(b) /\ \A k \in 1 .. Len(b) : Carries(p, x[k], b[k])
    BY <2>1 DEF SameOrder
  <2>3. i \in 1 .. Len(b) /\ b[i].kind = "result"
    BY <2>2 DEF Carries
  <2>4. \/ c = "messages" /\ (ResultsFirst(b) \/ ResultsLast(b))
        \/ c = "chat" /\ Sole(b, "result")
    BY <1>1, <2>3, ResultsStand
  <2>5. ASSUME NEW y \in 1 .. i - 1
        PROVE  \/ x[y].kind = "result"
               \/ c = "messages" /\ p = "anthropic" /\ x[y].kind # "call"
    <3>1. y \in 1 .. Len(b) - 1 /\ y \in 1 .. Len(b)
      BY <1>2, <2>3
    <3>2. CASE c = "chat" /\ Sole(b, "result")
      BY <3>1, <3>2 DEF Sole
    <3>3. CASE c = "messages" /\ (ResultsFirst(b) \/ ResultsLast(b))
      <4>1. y = 1 \/ y \in 2 .. Len(b)
        BY <1>2, <3>1
      <4>2. b[y].kind \in {"text", "result"}
        BY <3>1, <3>3, <4>1 DEF ResultsFirst, ResultsLast
      <4>3. x[y].kind # "call" /\ p = "anthropic"
        BY <1>4, <2>2, <3>1, <3>3, <4>2 DEF Carries
      <4>4. QED
        BY <3>3, <4>3
    <3>4. QED
      BY <2>4, <3>2, <3>3
  <2>6. QED
    BY <2>2, <2>3, <2>5
<1>5. QED
  BY <1>3, <1>4

\* A message that says one thing is sent on as it is.
LEMMA SoleSent ==
    ASSUME NEW c, NEW p, NEW w, NEW h, Ordered(c, h), WireAs(c, p, w, h),
           NEW m \in 1 .. Len(h), h[m].role # "assistant", Sole(h[m].blocks, "result")
    PROVE  Len(w[m].blocks) = 1 /\ w[m].blocks[1].kind = "result"
<1> DEFINE b == h[m].blocks
<1>1. b \in Seq(BlockType) /\ Shaped(c, h[m]) /\ Len(b) = 1 /\ b[1].kind = "result"
  BY ShapeOf DEF Sole
<1>2. c = "chat"
  BY <1>1 DEF Shaped, Picture, ResultsFirst, ResultsLast
<1>3. SameOrder(p, w[m].blocks, b)
  BY <1>2 DEF WireAs
<1>4. QED
  BY <1>1, <1>3 DEF SameOrder, Carries

\* An answer is sent on as it is.
LEMMA AnswerSent ==
    ASSUME NEW c, NEW p, NEW w, NEW h, Ordered(c, h), WireAs(c, p, w, h),
           NEW m \in 1 .. Len(h), h[m].role = "assistant"
    PROVE  Answering(h[m].blocks) /\ SameOrder(p, w[m].blocks, h[m].blocks)
<1>1. Shaped(c, h[m])
  BY ShapeOf
<1>2. Answering(h[m].blocks)
  BY <1>1 DEF Shaped
<1>3. QED
  BY <1>2 DEF WireAs, BridgedAs

LEMMA PlaceIn ==
    ASSUME NEW w, NEW m \in DOMAIN w, w[m].blocks \in Seq(BlockType),
           NEW i \in 1 .. Len(w[m].blocks)
    PROVE  <<m, i>> \in Places(w) /\ At(w, <<m, i>>) = w[m].blocks[i]
<1>1. DOMAIN w[m].blocks = 1 .. Len(w[m].blocks)
  OBVIOUS
<1>2. <<m, i>> \in {m} \X DOMAIN w[m].blocks
  BY <1>1
<1>3. <<m, i>> \in Places(w)
  BY <1>2 DEF Places
<1>4. QED
  BY <1>3 DEF At

LEMMA PlacesOf ==
    ASSUME NEW w, NEW n \in Nat, DOMAIN w = 1 .. n,
           \A m \in 1 .. n : w[m].blocks \in Seq(BlockType)
    PROVE  /\ \A m \in 1 .. n : \A i \in 1 .. Len(w[m].blocks) :
                <<m, i>> \in Places(w) /\ At(w, <<m, i>>) = w[m].blocks[i]
           /\ \A k \in Places(w) :
                /\ k = <<k[1], k[2]>>
                /\ k[1] \in 1 .. n
                /\ k[2] \in 1 .. Len(w[k[1]].blocks)
                /\ At(w, k) = w[k[1]].blocks[k[2]]
<1>1. \A m \in 1 .. n : DOMAIN w[m].blocks = 1 .. Len(w[m].blocks)
  OBVIOUS
<1>2. ASSUME NEW k \in Places(w)
      PROVE  /\ k = <<k[1], k[2]>>
             /\ k[1] \in 1 .. n
             /\ k[2] \in 1 .. Len(w[k[1]].blocks)
  <2>1. PICK m \in 1 .. n : k \in {m} \X (1 .. Len(w[m].blocks))
    BY <1>1 DEF Places
  <2>2. QED
    BY <2>1
<1>3. ASSUME NEW m \in 1 .. n, NEW i \in 1 .. Len(w[m].blocks)
      PROVE  <<m, i>> \in Places(w)
  <2>1. <<m, i>> \in {m} \X DOMAIN w[m].blocks
    BY <1>1
  <2>2. QED
    BY <2>1 DEF Places
<1>4. QED
  BY <1>2, <1>3 DEF At

LEMMA Matched ==
    ASSUME NEW c, NEW p \in Upstreams, NEW w, NEW h, Ordered(c, h), WireAs(c, p, w, h),
           c = "messages" => p \in {"anthropic", "chatgpt"}, p # "gemini",
           NEW r \in Places(w), At(w, r).kind = "result"
    PROVE  Answered(w, r, c = "messages" /\ p = "anthropic")
<1> DEFINE v == c = "messages" /\ p = "anthropic"
           n == Len(h)
<1>1. n \in Nat /\ DOMAIN w = 1 .. n /\ \A m \in 1 .. n : w[m].blocks \in Seq(BlockType)
  BY DEF Ordered, WireAs
<1>2. /\ \A m \in 1 .. n : \A i \in 1 .. Len(w[m].blocks) :
           <<m, i>> \in Places(w) /\ At(w, <<m, i>>) = w[m].blocks[i]
      /\ \A k \in Places(w) :
           /\ k = <<k[1], k[2]>>
           /\ k[1] \in 1 .. n
           /\ k[2] \in 1 .. Len(w[k[1]].blocks)
           /\ At(w, k) = w[k[1]].blocks[k[2]]
  BY <1>1, PlacesOf
<1>3. PICK m \in 1 .. n : \E i \in 1 .. Len(w[m].blocks) :
        r = <<m, i>> /\ At(w, r) = w[m].blocks[i]
  BY <1>2
<1>0. PICK i \in 1 .. Len(w[m].blocks) : r = <<m, i>> /\ At(w, r) = w[m].blocks[i]
  BY <1>3
<1>4. w[m].blocks[i].kind = "result"
  BY <1>0
<1>5. /\ \E j \in 1 .. Len(h[m].blocks) : Carries(p, w[m].blocks[i], h[m].blocks[j])
      /\ \A y \in 1 .. i - 1 :
           w[m].blocks[y].kind = "result" \/ (v /\ w[m].blocks[y].kind # "call")
  BY <1>4, ResultOrigin
<1>6. PICK j \in 1 .. Len(h[m].blocks) : Carries(p, w[m].blocks[i], h[m].blocks[j])
  BY <1>5
<1>7. h[m].blocks \in Seq(BlockType) /\ ResultsAnswer(h, m) /\ h[m].blocks[j].kind = "result"
  BY <1>4, <1>6, ShapeOf DEF Carries
<1>8. PICK a \in 1 .. m - 1 : AnsweredIn(h, a, m, j)
  BY <1>7 DEF ResultsAnswer
<1>9. PICK q \in 2 .. Len(h[a].blocks) :
        /\ h[a].blocks[q].id = h[m].blocks[j].id
        /\ h[a].blocks[q].label = h[m].blocks[j].label
  BY <1>8 DEF AnsweredIn
<1>10. a \in 1 .. n /\ h[a].role = "assistant" /\ a < m
  BY <1>1, <1>8 DEF AnsweredIn
<1>11. Answering(h[a].blocks) /\ SameOrder(p, w[a].blocks, h[a].blocks)
  BY <1>10, AnswerSent
<1>12. /\ Len(w[a].blocks) = Len(h[a].blocks)
       /\ \A k \in 1 .. Len(h[a].blocks) : Carries(p, w[a].blocks[k], h[a].blocks[k])
       /\ \A k \in 2 .. Len(h[a].blocks) :
            h[a].blocks[k].kind = "call" /\ h[a].blocks[k].id.n = k - 1
  BY <1>11 DEF SameOrder, Answering
<1>13. h[a].blocks \in Seq(BlockType) /\ Len(h[a].blocks) \in Nat
  BY <1>10, ShapeOf
<1>14. \A k \in 1 .. Len(h[a].blocks) : h[a].blocks[k].id \in IdType
  <2>1. \A k \in 1 .. Len(h[a].blocks) : h[a].blocks[k] \in BlockType
    BY <1>13
  <2>2. QED
    BY <2>1, BlockFields
<1>15. \A k \in 2 .. Len(h[a].blocks) :
         k \in 1 .. Len(w[a].blocks) /\ Carries(p, w[a].blocks[k], h[a].blocks[k])
  BY <1>12, <1>13
<1> DEFINE call == <<a, q>>
<1>16. /\ call \in Places(w) /\ Ahead(call, r)
       /\ At(w, call) = w[a].blocks[q]
       /\ At(w, call).kind = "call"
       /\ At(w, call).id = At(w, r).id /\ At(w, call).label = At(w, r).label
  <2>1. call \in Places(w) /\ At(w, call) = w[a].blocks[q]
    BY <1>2, <1>10, <1>15
  <2>2. Ahead(call, r)
    BY <1>0, <1>10 DEF Ahead
  <2>3. At(w, call).kind = "call"
    BY <1>12, <1>15, <2>1 DEF Carries
  <2>4. At(w, call).id = At(w, r).id /\ At(w, call).label = At(w, r).label
    BY <1>0, <1>6, <1>9, <1>15, <2>1 DEF Carries
  <2>5. QED
    BY <2>1, <2>2, <2>3, <2>4
<1>17. ASSUME NEW k \in Between(w, call, r)
       PROVE  \/ At(w, k).kind = "result"
              \/ At(w, k).kind = "call" /\ At(w, k).id # At(w, r).id
              \/ v /\ At(w, k).kind # "call"
  <2>1. k \in Places(w) /\ Ahead(call, k) /\ Ahead(k, r)
    BY DEF Between
  <2>0. PICK x \in 1 .. n : \E y \in 1 .. Len(w[x].blocks) :
          k = <<x, y>> /\ At(w, k) = w[x].blocks[y]
    BY <1>2, <2>1
  <2>2. PICK y \in 1 .. Len(w[x].blocks) : k = <<x, y>> /\ At(w, k) = w[x].blocks[y]
    BY <2>0
  <2>3. /\ a < x \/ (a = x /\ q < y)
        /\ x < m \/ (x = m /\ y < i)
    BY <1>0, <2>1, <2>2 DEF Ahead
  <2>4. CASE a = x /\ q < y
    <3>1. y \in 2 .. Len(h[a].blocks)
      BY <1>12, <1>13, <2>2, <2>4
    <3>2. Carries(p, w[a].blocks[y], h[a].blocks[y]) /\ h[a].blocks[y].kind = "call"
      BY <1>12, <1>15, <3>1
    <3>3. h[a].blocks[y].id.n # h[a].blocks[q].id.n
      <4>1. y \in Nat /\ q \in Nat /\ y - 1 # q - 1
        BY <1>13, <2>4, <3>1
      <4>2. h[a].blocks[y].id.n = y - 1 /\ h[a].blocks[q].id.n = q - 1
        BY <1>12, <3>1, Zenon
      <4>3. QED
        BY <4>1, <4>2
    <3>4. /\ Wired(p, h[a].blocks[y].id).n = h[a].blocks[y].id.n
          /\ Wired(p, h[a].blocks[q].id).n = h[a].blocks[q].id.n
      <4>1. h[a].blocks[y].id \in IdType /\ h[a].blocks[q].id \in IdType
        <5>1. y \in 1 .. Len(h[a].blocks) /\ q \in 1 .. Len(h[a].blocks)
          BY <1>13, <3>1
        <5>2. QED
          BY <1>14, <5>1, Zenon
      <4>2. QED
        BY <4>1, WiredKeepsNumber
    <3>5. w[a].blocks[q].id = Wired(p, h[a].blocks[q].id)
      BY <1>15 DEF Carries
    <3>6. w[a].blocks[y].id # w[a].blocks[q].id /\ w[a].blocks[y].kind = "call"
      BY <3>2, <3>3, <3>4, <3>5 DEF Carries
    <3>7. QED
      BY <1>16, <2>2, <2>4, <3>6
  <2>5. CASE a < x /\ x < m
    <3>1. h[x].role # "assistant" /\ Sole(h[x].blocks, "result")
      <4>1. x \in a + 1 .. m - 1
        BY <1>10, <2>5
      <4>2. QED
        BY <1>8, <4>1 DEF AnsweredIn
    <3>2. Len(w[x].blocks) = 1 /\ w[x].blocks[1].kind = "result"
      BY <3>1, SoleSent, SMTT(30)
    <3>3. y = 1
      BY <2>2, <3>2
    <3>4. QED
      BY <2>2, <3>2, <3>3
  <2>6. CASE x = m /\ y < i
    <3>1. y \in 1 .. i - 1
      BY <1>0, <2>2, <2>6
    <3>2. QED
      BY <1>5, <2>2, <2>6, <3>1
  <2>7. QED
    BY <1>10, <2>3, <2>4, <2>5, <2>6
<1>18. QED
  BY <1>16, <1>17 DEF Answered

-----------------------------------------------------------------------------
LEMMA UpTo ==
    ASSUME NEW n \in Nat
    PROVE  IsFiniteSet(1 .. n) /\ Cardinality(1 .. n) = n
<1>1. PICK z \in Nat : z = 0
  OBVIOUS
<1>2. z + 1 .. z + n = 1 .. n
  BY <1>1
<1>3. QED
  BY <1>1, <1>2, SpanSize

\* Every block is on the wire, once, unless it is left out on purpose.
LEMMA AllSaid ==
    ASSUME client \in {"chat", "messages"}, NEW p \in Reaches, sent.to = p,
           NEW w, Ordered(client, hist), WireAs(client, p, w, hist),
           NEW m \in 1 .. Len(hist)
    PROVE  SaysAll(w[m].blocks, hist[m].blocks)
<1> DEFINE b == hist[m].blocks
           x == w[m].blocks
           kept == {i \in DOMAIN b : ~LeavesOut(b[i])}
<1>1. b \in Seq(BlockType) /\ Shaped(client, hist[m]) /\ x \in Seq(BlockType)
  BY ShapeOf DEF WireAs
<1>2. /\ Len(b) \in Nat /\ DOMAIN b = 1 .. Len(b)
      /\ Len(x) \in Nat /\ DOMAIN x = 1 .. Len(x)
  BY <1>1
<1>3. ASSUME SameOrder(p, x, b), kept = 1 .. Len(b)
      PROVE  SaysAll(x, b)
  <2>1. Len(x) = Len(b) /\ \A i \in 1 .. Len(b) : x[i].kind = b[i].kind /\ x[i].label = b[i].label
    BY <1>3 DEF SameOrder, Carries
  <2>2. Len(x) = Cardinality(kept)
    BY <1>2, <1>3, <2>1, UpTo
  <2> HIDE DEF kept
  <2>3. {<<x[i].kind, x[i].label>> : i \in DOMAIN x} = {<<b[i].kind, b[i].label>> : i \in kept}
    BY <1>2, <1>3, <2>1
  <2>4. QED
    BY <2>2, <2>3 DEF SaysAll, kept
<1>4. CASE client = "messages" /\ p = "chatgpt"
  <2>1. BridgedAs(x, b)
    BY <1>4 DEF WireAs
  <2>2. \A i \in DOMAIN b : LeavesOut(b[i]) <=> b[i].kind = "image"
    BY <1>4 DEF LeavesOut
  <2>3. CASE Picture(b)
    <3>1. Len(b) = 2 /\ b[1].kind = "text" /\ b[2].kind = "image"
      BY <2>3 DEF Picture
    <3>2. Len(x) = 1 /\ x[1].kind = b[1].kind /\ x[1].label = b[1].label
      BY <2>1, <2>3 DEF BridgedAs, Carries
    <3>3. kept = {1}
      BY <1>2, <2>2, <3>1
    <3>4. Cardinality({1}) = 1
      BY FS_Singleton
    <3>5. DOMAIN x = {1}
      BY <1>2, <3>2
    <3> HIDE DEF kept
    <3>6. {<<x[i].kind, x[i].label>> : i \in DOMAIN x} = {<<b[i].kind, b[i].label>> : i \in kept}
      BY <3>2, <3>3, <3>5
    <3>7. QED
      BY <3>2, <3>3, <3>4, <3>6 DEF SaysAll, kept
  <2>4. CASE Answering(b) \/ ResultsFirst(b)
    <3>1. SameOrder(p, x, b)
      BY <1>4, <2>1, <2>4 DEF BridgedAs
    <3>2. \A i \in 1 .. Len(b) : b[i].kind \in {"text", "call", "result"}
      <4>1. ASSUME NEW i \in 1 .. Len(b) PROVE b[i].kind \in {"text", "call", "result"}
        <5>1. (i = 1 \/ i \in 2 .. Len(b)) /\ (i = Len(b) \/ i \in 1 .. Len(b) - 1)
          BY <1>2
        <5>2. QED
          BY <2>4, <5>1 DEF Answering, ResultsFirst
      <4>2. QED
        BY <4>1
    <3>3. kept = 1 .. Len(b)
      BY <1>2, <2>2, <3>2
    <3>4. QED
      BY <1>3, <3>1, <3>3
  <2>5. CASE ResultsLast(b)
    <3>1. Turned(p, x, b)
      BY <1>4, <2>1, <2>5 DEF BridgedAs
    <3>2. Len(b) >= 1 /\ b[1].kind = "text" /\ \A i \in 2 .. Len(b) : b[i].kind = "result"
      BY <2>5 DEF ResultsLast
    <3>3. kept = 1 .. Len(b)
      <4>1. \A i \in 1 .. Len(b) : i = 1 \/ i \in 2 .. Len(b)
        BY <1>2
      <4>2. QED
        BY <1>2, <2>2, <3>2, <4>1
    <3> DEFINE l == Len(b)
               said(i) == <<b[i].kind, b[i].label>>
               wire(i) == <<x[i].kind, x[i].label>>
    <3>4. /\ Len(x) = l
          /\ \A i \in 1 .. l - 1 : wire(i) = said(i + 1)
          /\ wire(l) = said(1)
      BY <3>1 DEF Turned, Carries
    <3>5. Len(x) = Cardinality(kept)
      BY <1>2, <3>3, <3>4, UpTo
    <3>6. l \in Nat /\ l >= 1 /\ DOMAIN x = 1 .. l
      BY <1>2, <3>2, <3>4
    <3> HIDE DEF l, said, wire, kept
    <3>7. \A i \in 1 .. l : \E k \in 1 .. l : wire(i) = said(k)
      <4>1. ASSUME NEW i \in 1 .. l PROVE \E k \in 1 .. l : wire(i) = said(k)
        <5>1. CASE i = l
          BY <3>4, <3>6, <5>1
        <5>2. CASE i # l
          <6>1. i \in 1 .. l - 1 /\ i + 1 \in 1 .. l
            BY <3>6, <5>2
          <6>2. QED
            BY <3>4, <6>1
        <5>3. QED
          BY <5>1, <5>2
      <4>2. QED
        BY <4>1
    <3>8. \A k \in 1 .. l : \E i \in 1 .. l : wire(i) = said(k)
      <4>1. ASSUME NEW k \in 1 .. l PROVE \E i \in 1 .. l : wire(i) = said(k)
        <5>1. CASE k = 1
          BY <3>4, <3>6, <5>1
        <5>2. CASE k # 1
          <6>1. k - 1 \in 1 .. l - 1 /\ k - 1 \in 1 .. l /\ (k - 1) + 1 = k
            BY <3>6, <5>2
          <6>2. wire(k - 1) = said((k - 1) + 1)
            BY <3>4, <6>1
          <6>3. QED
            BY <6>1, <6>2
        <5>3. QED
          BY <5>1, <5>2
      <4>2. QED
        BY <4>1
    <3>9. {wire(i) : i \in DOMAIN x} = {said(i) : i \in kept}
      BY <3>3, <3>6, <3>7, <3>8 DEF l
    <3>10. QED
      BY <3>5, <3>9 DEF SaysAll, said, wire, kept
  <2>6. QED
    BY <1>1, <1>4, <2>3, <2>4, <2>5 DEF Shaped
<1>5. CASE ~(client = "messages" /\ p = "chatgpt")
  <2>1. \A i \in DOMAIN b : ~LeavesOut(b[i])
    BY <1>5 DEF LeavesOut
  <2>2. kept = 1 .. Len(b)
    BY <1>2, <2>1
  <2>3. SameOrder(p, x, b)
    BY <1>5 DEF WireAs
  <2>4. QED
    BY <1>3, <2>2, <2>3
<1>6. QED
  BY <1>4, <1>5

-----------------------------------------------------------------------------
(***************************************************************************)
(* The answer and the next turn keep the history in order.                 *)
(***************************************************************************)
LEMMA OrderedGrows ==
    ASSUME NEW c, NEW h, Ordered(c, h), NEW g \in Seq(MessageType), Len(g) >= Len(h),
           \A m \in 1 .. Len(h) : g[m] = h[m],
           \A m \in Len(h) + 1 .. Len(g) : Shaped(c, g[m]) /\ ResultsAnswer(g, m)
    PROVE  Ordered(c, g)
<1>1. /\ Len(h) \in Nat /\ Len(g) \in Nat /\ Len(h) >= 1 /\ Opens(h[1])
      /\ \A m \in 1 .. Len(h) : Shaped(c, h[m]) /\ ResultsAnswer(h, m)
  BY DEF Ordered
<1>2. ASSUME NEW m \in 1 .. Len(h) PROVE ResultsAnswer(g, m)
  <2>1. ASSUME NEW i \in DOMAIN g[m].blocks, g[m].blocks[i].kind = "result"
        PROVE  \E a \in 1 .. m - 1 : AnsweredIn(g, a, m, i)
    <3>1. g[m] = h[m]
      OBVIOUS
    <3>2. PICK a \in 1 .. m - 1 : AnsweredIn(h, a, m, i)
      BY <1>1, <2>1, <3>1 DEF ResultsAnswer
    <3>3. g[a] = h[a] /\ \A x \in a + 1 .. m - 1 : g[x] = h[x]
      BY <1>1
    <3>4. AnsweredIn(g, a, m, i)
      BY <3>1, <3>2, <3>3 DEF AnsweredIn
    <3>5. QED
      BY <3>4
  <2>2. QED
    BY <2>1 DEF ResultsAnswer
<1>3. \A m \in 1 .. Len(g) : Shaped(c, g[m]) /\ ResultsAnswer(g, m)
  <2>1. ASSUME NEW m \in 1 .. Len(g) PROVE Shaped(c, g[m]) /\ ResultsAnswer(g, m)
    <3>1. m \in 1 .. Len(h) \/ m \in Len(h) + 1 .. Len(g)
      BY <1>1
    <3>2. QED
      BY <1>1, <1>2, <3>1
  <2>2. QED
    BY <2>1
<1>4. 1 \in 1 .. Len(h)
  BY <1>1
<1>5. Opens(g[1]) /\ Len(g) >= 1
  BY <1>1, <1>4
<1>6. QED
  BY <1>3, <1>5 DEF Ordered

LEMMA Minted ==
    ASSUME turn \in Nat, NEW p \in Upstreams, NEW item \in BOOLEAN, NEW n \in Nat
    PROVE  MintedBy(p, n, item) \in IdType /\ MintedBy(p, n, item).n = n
<1> DEFINE t == IF p = "gemini" THEN 0 ELSE turn
           b == p = "chatgpt" /\ item
<1>1. t \in Nat /\ b \in BOOLEAN /\ p \in Makers
  BY DEF Upstreams, Makers
<1>2. MintedBy(p, n, item) = Id(p, t, n, b)
  BY DEF MintedBy
<1> HIDE DEF t, b
<1>3. QED
  BY <1>1, <1>2, IdIsTyped

LEMMA TextBlock ==
    ASSUME NEW label \in Label, NEW mark \in BOOLEAN
    PROVE  /\ TextOf(label, mark) \in BlockType
           /\ TextOf(label, mark).kind = "text"
           /\ TextOf(label, mark).mark = mark
           /\ TextOf(label, mark).label = label
<1>1. NoId \in IdType /\ "text" \in BlockKinds
  BY DEF NoId, Id, IdType, Makers, BlockKinds
<1>2. QED
  BY <1>1, BlockIsTyped DEF TextOf

LEMMA Labels ==
    ASSUME NEW t \in Nat
    PROVE  /\ <<t, "next">> \in Label /\ <<t, "answer">> \in Label /\ <<t, "image">> \in Label
           /\ \A n \in Nat : <<t, n>> \in Label
BY DEF Label

\* A call of an answer, or the result of one.
Called(kind, p, n, item) == Block(kind, <<turn, n>>, MintedBy(p, n, item), FALSE)

LEMMA NumberedBlock ==
    ASSUME turn \in Nat, NEW p \in Upstreams, NEW item \in BOOLEAN, NEW n \in Nat,
           NEW kind \in BlockKinds
    PROVE  /\ Called(kind, p, n, item) \in BlockType
           /\ Called(kind, p, n, item).kind = kind
           /\ Called(kind, p, n, item).label = <<turn, n>>
           /\ Called(kind, p, n, item).id = MintedBy(p, n, item)
           /\ Called(kind, p, n, item).id.n = n
           /\ ~Called(kind, p, n, item).mark
<1>1. <<turn, n>> \in Label
  BY Labels
<1>2. MintedBy(p, n, item) \in IdType /\ MintedBy(p, n, item).n = n
  BY Minted
<1>3. PICK f \in BOOLEAN : f = FALSE
  OBVIOUS
<1>4. LET b == Block(kind, <<turn, n>>, MintedBy(p, n, item), f)
      IN /\ b \in BlockType /\ b.kind = kind /\ b.label = <<turn, n>>
         /\ b.id = MintedBy(p, n, item) /\ b.mark = f
  BY <1>1, <1>2, BlockIsTyped
<1>5. Called(kind, p, n, item) = Block(kind, <<turn, n>>, MintedBy(p, n, item), f)
  BY <1>3 DEF Called
<1>6. QED
  BY <1>2, <1>3, <1>4, <1>5

\* The blocks of an answer.
LEMMA AnswerShape ==
    ASSUME turn \in Nat, NEW p \in Upstreams, NEW item \in BOOLEAN, NEW calls \in Nat,
           NEW m, m = AnswerOf(p, calls, item)
    PROVE  /\ m \in MessageType /\ m.role = "assistant" /\ Answering(m.blocks)
           /\ Len(m.blocks) = calls + 1
           /\ \A i \in 1 .. Len(m.blocks) : ~m.blocks[i].mark
           /\ \A k \in 1 .. calls :
                /\ m.blocks[k + 1].id = MintedBy(p, k, item)
                /\ m.blocks[k + 1].label = <<turn, k>>
<1> DEFINE text == TextOf(<<turn, "answer">>, FALSE)
           block(n) == Called("call", p, n, item)
           s == <<text>>
           t == [n \in 1 .. calls |-> block(n)]
           b == s \o t
<1>1. text \in BlockType /\ text.kind = "text" /\ ~text.mark
  <2>1. <<turn, "answer">> \in Label
    BY Labels
  <2>2. PICK f \in BOOLEAN : f = FALSE
    OBVIOUS
  <2>3. /\ TextOf(<<turn, "answer">>, f) \in BlockType
        /\ TextOf(<<turn, "answer">>, f).kind = "text"
        /\ TextOf(<<turn, "answer">>, f).mark = f
    BY <2>1, TextBlock
  <2>4. QED
    BY <2>2, <2>3
<1>2. ASSUME NEW n \in 1 .. calls
      PROVE  /\ block(n) \in BlockType /\ block(n).kind = "call" /\ block(n).label = <<turn, n>>
             /\ block(n).id = MintedBy(p, n, item) /\ block(n).id.n = n
             /\ ~block(n).mark
  <2>1. n \in Nat
    OBVIOUS
  <2>2. PICK kind \in BlockKinds : kind = "call"
    BY DEF BlockKinds
  <2>3. QED
    BY <2>1, <2>2, NumberedBlock
<1>3. m = Message("assistant", b)
  BY DEF AnswerOf, Called
<1> HIDE DEF text, block, b
<1>4. s \in Seq(BlockType) /\ Len(s) = 1 /\ s[1] = text
  BY <1>1
<1>5. t \in Seq(BlockType) /\ Len(t) = calls /\ \A k \in 1 .. calls : t[k] = block(k)
  BY <1>2
<1> HIDE DEF s, t
<1>6. /\ b \in Seq(BlockType)
      /\ Len(b) = Len(s) + Len(t)
      /\ \A i \in 1 .. Len(s) : b[i] = s[i]
      /\ \A i \in 1 .. Len(t) : b[Len(s) + i] = t[i]
  <2>1. s \in Seq(BlockType) /\ t \in Seq(BlockType)
    BY <1>4, <1>5
  <2>2. /\ s \o t \in Seq(BlockType)
        /\ Len(s \o t) = Len(s) + Len(t)
        /\ \A i \in 1 .. Len(s) : (s \o t)[i] = s[i]
        /\ \A i \in 1 .. Len(t) : (s \o t)[Len(s) + i] = t[i]
    BY <2>1, JoinOf
  <2>3. QED
    BY <2>2 DEF b
<1>7. Len(b) = calls + 1
  BY <1>4, <1>5, <1>6
<1>8. b[1] = text
  <2>1. 1 \in 1 .. Len(s)
    BY <1>4
  <2>2. QED
    BY <1>4, <1>6, <2>1
<1>9. ASSUME NEW k \in 1 .. calls PROVE b[k + 1] = block(k)
  <2>1. k \in 1 .. Len(t) /\ Len(s) + k = k + 1
    BY <1>4, <1>5
  <2>2. QED
    BY <1>5, <1>6, <2>1
<1>10. ASSUME NEW i \in 2 .. calls + 1 PROVE i - 1 \in 1 .. calls /\ b[i] = block(i - 1)
  <2>1. i - 1 \in 1 .. calls /\ (i - 1) + 1 = i
    OBVIOUS
  <2>2. b[(i - 1) + 1] = block(i - 1)
    BY <1>9, <2>1
  <2>3. QED
    BY <2>1, <2>2
<1>11. Answering(b)
  <2>1. \A i \in 2 .. Len(b) : b[i].kind = "call" /\ b[i].id.n = i - 1
    BY <1>2, <1>7, <1>10
  <2>2. Len(b) >= 1
    BY <1>7
  <2>3. QED
    BY <1>1, <1>8, <2>1, <2>2 DEF Answering
<1>12. ASSUME NEW i \in 1 .. Len(b) PROVE ~b[i].mark
  <2>1. i = 1 \/ i \in 2 .. calls + 1
    BY <1>7
  <2>2. CASE i = 1
    BY <1>1, <1>8, <2>2
  <2>3. CASE i \in 2 .. calls + 1
    BY <1>2, <1>10, <2>3
  <2>4. QED
    BY <2>1, <2>2, <2>3
<1>13. m \in MessageType /\ m.role = "assistant" /\ m.blocks = b
  <2>1. PICK r \in Roles : r = "assistant"
    BY DEF Roles
  <2>2. QED
    BY <1>3, <1>6, <2>1, MessageIsTyped
<1>14. \A k \in 1 .. calls : b[k + 1].id = MintedBy(p, k, item) /\ b[k + 1].label = <<turn, k>>
  BY <1>2, <1>9
<1>15. QED
  BY <1>7, <1>11, <1>12, <1>13, <1>14

\* The results the client sends.
LEMMA ResultsShape ==
    ASSUME turn \in Nat, NEW p \in Upstreams, NEW item \in BOOLEAN, NEW calls \in Nat,
           NEW order \in Orders(calls), NEW s, s = Results(p, calls, item, order)
    PROVE  /\ s \in Seq(BlockType) /\ Len(s) = calls
           /\ \A k \in 1 .. calls :
                /\ s[k].kind = "result" /\ ~s[k].mark
                /\ order[k] \in 1 .. calls
                /\ s[k].id = MintedBy(p, order[k], item)
                /\ s[k].label = <<turn, order[k]>>
<1> DEFINE block(n) == Called("result", p, n, item)
<1>1. \A k \in 1 .. calls : order[k] \in 1 .. calls
  BY DEF Orders
<1>2. ASSUME NEW n \in 1 .. calls
      PROVE  /\ block(n) \in BlockType /\ block(n).kind = "result"
             /\ block(n).label = <<turn, n>> /\ block(n).id = MintedBy(p, n, item)
             /\ ~block(n).mark
  <2>1. n \in Nat
    OBVIOUS
  <2>2. PICK kind \in BlockKinds : kind = "result"
    BY DEF BlockKinds
  <2>3. QED
    BY <2>1, <2>2, NumberedBlock
<1>3. s = [k \in 1 .. calls |-> block(order[k])]
  BY DEF Results, Called
<1> HIDE DEF block
<1>4. \A k \in 1 .. calls : s[k] = block(order[k]) /\ s[k] \in BlockType
  BY <1>1, <1>2, <1>3
<1>5. s \in Seq(BlockType) /\ Len(s) = calls
  BY <1>3, <1>4
<1>6. QED
  BY <1>1, <1>2, <1>4, <1>5

\* The messages of the client's next turn.
LEMMA NextTurnShape ==
    ASSUME client \in {"chat", "messages"}, turn \in Nat, NEW mark \in BOOLEAN,
           NEW s \in Seq(BlockType),
           \A k \in 1 .. Len(s) : s[k].kind = "result" /\ ~s[k].mark,
           NEW more \in NextTurn(s, mark)
    PROVE  /\ more \in Seq(MessageType) /\ Len(more) >= 1
           /\ \A y \in 1 .. Len(more) : Shaped(client, more[y]) /\ more[y].role # "assistant"
           /\ \A y \in 1 .. Len(more) - 1 : Sole(more[y].blocks, "result")
           /\ \A y \in 1 .. Len(more) : \A i \in 1 .. Len(more[y].blocks) :
                more[y].blocks[i].kind = "result" =>
                    \E k \in 1 .. Len(s) : more[y].blocks[i] = s[k]
           /\ \E z : \A y \in 1 .. Len(more) : \A i \in 1 .. Len(more[y].blocks) :
                more[y].blocks[i].mark => mark /\ <<y, i>> = z
<1> DEFINE text == TextOf(<<turn, "next">>, mark)
           t == <<text>>
           n == Len(s)
<1>1. text \in BlockType /\ text.kind = "text" /\ text.mark = mark
  BY Labels, TextBlock
<1>2. \/ client = "messages" /\ more = <<Message("user", s \o t)>>
      \/ client = "messages" /\ more = <<Message("user", t \o s)>>
      \/ /\ client = "chat"
         /\ more = [k \in DOMAIN s |-> Message("tool", <<s[k]>>)] \o <<Message("user", t)>>
  BY DEF NextTurn
<1> HIDE DEF text
<1>3. t \in Seq(BlockType) /\ Len(t) = 1 /\ t[1] = text
  BY <1>1
<1>4. n \in Nat /\ DOMAIN s = 1 .. n
  OBVIOUS
<1> HIDE DEF t
<1>5. "user" \in Roles /\ "tool" \in Roles /\ "user" # "assistant" /\ "tool" # "assistant"
  BY DEF Roles
<1>6. ASSUME NEW b \in Seq(BlockType), more = <<Message("user", b)>>,
             client = "messages", ResultsFirst(b) \/ ResultsLast(b),
             NEW z \in Nat, Len(b) = n + 1, b[z] = text,
             \A i \in 1 .. n + 1 : i # z => \E k \in 1 .. n : b[i] = s[k]
      PROVE  /\ more \in Seq(MessageType) /\ Len(more) >= 1
             /\ \A y \in 1 .. Len(more) : Shaped(client, more[y]) /\ more[y].role # "assistant"
             /\ \A y \in 1 .. Len(more) - 1 : Sole(more[y].blocks, "result")
             /\ \A y \in 1 .. Len(more) : \A i \in 1 .. Len(more[y].blocks) :
                  more[y].blocks[i].kind = "result" =>
                      \E k \in 1 .. Len(s) : more[y].blocks[i] = s[k]
             /\ \E x : \A y \in 1 .. Len(more) : \A i \in 1 .. Len(more[y].blocks) :
                  more[y].blocks[i].mark => mark /\ <<y, i>> = x
  <2> DEFINE m == Message("user", b)
  <2>1. m \in MessageType /\ m.role = "user" /\ m.blocks = b
    BY <1>5, MessageIsTyped
  <2> HIDE DEF m
  <2>2. more = <<m>>
    BY <1>6 DEF m
  <2>3. more \in Seq(MessageType) /\ Len(more) = 1 /\ more[1] = m
    BY <2>1, <2>2
  <2>4. \A y \in 1 .. Len(more) : y = 1
    BY <2>3
  <2>5. Shaped(client, m) /\ m.role # "assistant"
    BY <1>5, <1>6, <2>1 DEF Shaped
  <2>6. ASSUME NEW i \in 1 .. n + 1, b[i].kind = "result"
        PROVE  \E k \in 1 .. n : b[i] = s[k]
    BY <1>1, <1>6, <2>6
  <2>7. ASSUME NEW i \in 1 .. n + 1, b[i].mark PROVE mark /\ i = z
    <3>1. i = z
      BY <1>6, <2>7
    <3>2. QED
      BY <1>1, <1>6, <2>7, <3>1
  <2>8. \A y \in 1 .. Len(more) : \A i \in 1 .. Len(more[y].blocks) :
          more[y].blocks[i].mark => mark /\ <<y, i>> = <<1, z>>
    BY <1>6, <2>1, <2>3, <2>4, <2>7
  <2>9. \A y \in 1 .. Len(more) : \A i \in 1 .. Len(more[y].blocks) :
          more[y].blocks[i].kind = "result" =>
              \E k \in 1 .. Len(s) : more[y].blocks[i] = s[k]
    BY <1>6, <2>1, <2>3, <2>4, <2>6
  <2>10. \A y \in 1 .. Len(more) : Shaped(client, more[y]) /\ more[y].role # "assistant"
    BY <2>3, <2>4, <2>5
  <2>11. \A y \in 1 .. Len(more) - 1 : FALSE
    BY <2>3
  <2>12. \A y \in 1 .. Len(more) - 1 : Sole(more[y].blocks, "result")
    BY <2>11
  <2>13. \E x : \A y \in 1 .. Len(more) : \A i \in 1 .. Len(more[y].blocks) :
           more[y].blocks[i].mark => mark /\ <<y, i>> = x
    BY <2>8, Zenon
  <2>14. Len(more) >= 1
    BY <2>3
  <2>15. QED
    BY <2>3, <2>9, <2>10, <2>12, <2>13, <2>14, Zenon
<1>7. CASE client = "messages" /\ more = <<Message("user", s \o t)>>
  <2> DEFINE b == s \o t
  <2>1. /\ b \in Seq(BlockType)
        /\ Len(b) = Len(s) + Len(t)
        /\ \A i \in 1 .. Len(s) : b[i] = s[i]
        /\ \A i \in 1 .. Len(t) : b[Len(s) + i] = t[i]
    <3>1. s \in Seq(BlockType) /\ t \in Seq(BlockType)
      BY <1>3
    <3>2. QED
      BY <3>1, JoinOf
  <2> HIDE DEF b
  <2>2. Len(b) = n + 1
    BY <1>3, <2>1
  <2>3. b[n + 1] = text
    <3>1. 1 \in 1 .. Len(t)
      BY <1>3
    <3>2. QED
      BY <1>3, <2>1, <3>1
  <2>4. \A i \in 1 .. n + 1 : i # n + 1 => i \in 1 .. n /\ b[i] = s[i]
    BY <1>4, <2>1
  <2>5. ResultsFirst(b)
    BY <1>1, <1>4, <2>2, <2>3, <2>4 DEF ResultsFirst
  <2>6. more = <<Message("user", b)>> /\ n + 1 \in Nat
    BY <1>4, <1>7 DEF b
  <2>7. \A i \in 1 .. n + 1 : i # n + 1 => \E k \in 1 .. n : b[i] = s[k]
    BY <2>4
  <2>8. QED
    BY <1>6, <1>7, <2>1, <2>2, <2>3, <2>5, <2>6, <2>7
<1>8. CASE client = "messages" /\ more = <<Message("user", t \o s)>>
  <2> DEFINE b == t \o s
  <2>1. /\ b \in Seq(BlockType)
        /\ Len(b) = Len(t) + Len(s)
        /\ \A i \in 1 .. Len(t) : b[i] = t[i]
        /\ \A i \in 1 .. Len(s) : b[Len(t) + i] = s[i]
    <3>1. s \in Seq(BlockType) /\ t \in Seq(BlockType)
      BY <1>3
    <3>2. QED
      BY <3>1, JoinOf
  <2> HIDE DEF b
  <2>2. Len(b) = n + 1
    BY <1>3, <1>4, <2>1
  <2>3. b[1] = text
    <3>1. 1 \in 1 .. Len(t)
      BY <1>3
    <3>2. QED
      BY <1>3, <2>1, <3>1
  <2>4. ASSUME NEW i \in 2 .. n + 1 PROVE i - 1 \in 1 .. n /\ b[i] = s[i - 1]
    <3>1. i - 1 \in 1 .. n /\ Len(t) + (i - 1) = i
      BY <1>3, <1>4
    <3>2. b[Len(t) + (i - 1)] = s[i - 1]
      BY <2>1, <3>1
    <3>3. QED
      BY <3>1, <3>2
  <2>5. ResultsLast(b)
    <3>1. \A i \in 2 .. Len(b) : b[i].kind = "result"
      BY <2>2, <2>4
    <3>2. Len(b) >= 1
      BY <1>4, <2>2
    <3>3. QED
      BY <1>1, <2>3, <3>1, <3>2 DEF ResultsLast
  <2>6. more = <<Message("user", b)>>
    BY <1>8 DEF b
  <2>7. PICK e \in Nat : e = 1
    OBVIOUS
  <2>8. \A i \in 1 .. n + 1 : i # e => \E k \in 1 .. n : b[i] = s[k]
    <3>1. \A i \in 1 .. n + 1 : i # e => i \in 2 .. n + 1
      BY <1>4, <2>7
    <3>2. QED
      BY <2>4, <3>1
  <2>9. b[e] = text
    BY <2>3, <2>7
  <2>10. QED
    BY <1>6, <1>8, <2>1, <2>2, <2>5, <2>6, <2>8, <2>9
<1>9. CASE /\ client = "chat"
           /\ more = [k \in DOMAIN s |-> Message("tool", <<s[k]>>)] \o <<Message("user", t)>>
  <2> DEFINE u == [k \in 1 .. n |-> Message("tool", <<s[k]>>)]
             v == <<Message("user", t)>>
  <2>1. more = u \o v
    BY <1>4, <1>9
  <2>2. ASSUME NEW k \in 1 .. n
        PROVE  /\ Message("tool", <<s[k]>>) \in MessageType
               /\ Message("tool", <<s[k]>>).role = "tool"
               /\ Message("tool", <<s[k]>>).blocks = <<s[k]>>
    <3>1. <<s[k]>> \in Seq(BlockType)
      OBVIOUS
    <3>2. QED
      BY <1>5, <3>1, MessageIsTyped
  <2>3. Message("user", t) \in MessageType /\ Message("user", t).role = "user" /\
        Message("user", t).blocks = t
    BY <1>3, <1>5, MessageIsTyped
  <2>4. u \in Seq(MessageType) /\ Len(u) = n /\ \A k \in 1 .. n : u[k] = Message("tool", <<s[k]>>)
    BY <1>4, <2>2
  <2>5. v \in Seq(MessageType) /\ Len(v) = 1 /\ v[1] = Message("user", t)
    BY <2>3
  <2> HIDE DEF u, v
  <2>6. u \in Seq(MessageType) /\ v \in Seq(MessageType)
    BY <2>4, <2>5
  <2>7. /\ u \o v \in Seq(MessageType)
        /\ Len(u \o v) = Len(u) + Len(v)
        /\ \A i \in 1 .. Len(u) : (u \o v)[i] = u[i]
        /\ \A i \in 1 .. Len(v) : (u \o v)[Len(u) + i] = v[i]
    BY <2>6, JoinOf
  <2>8. more \in Seq(MessageType) /\ Len(more) = n + 1
    BY <2>1, <2>4, <2>5, <2>7
  <2>9. ASSUME NEW k \in 1 .. n
        PROVE  /\ more[k].role = "tool" /\ Len(more[k].blocks) = 1
               /\ more[k].blocks[1] = s[k]
    <3>1. more[k] = u[k]
      BY <2>1, <2>4, <2>7
    <3>2. more[k].role = "tool" /\ more[k].blocks = <<s[k]>>
      BY <2>2, <2>4, <3>1
    <3>3. QED
      BY <3>2
  <2>10. /\ more[n + 1].role = "user" /\ Len(more[n + 1].blocks) = 1
         /\ more[n + 1].blocks[1] = text
    <3>1. 1 \in 1 .. Len(v)
      BY <2>5
    <3>2. more[n + 1] = v[1]
      BY <2>1, <2>4, <2>7, <3>1
    <3>3. QED
      BY <1>3, <2>3, <2>5, <3>2
  <2>11. \A y \in 1 .. n + 1 : y \in 1 .. n \/ y = n + 1
    BY <1>4
  <2>12. ASSUME NEW y \in 1 .. n + 1
         PROVE  Shaped(client, more[y]) /\ more[y].role # "assistant"
    <3>1. CASE y \in 1 .. n
      BY <1>5, <1>9, <2>9, <3>1 DEF Shaped, Sole
    <3>2. CASE y = n + 1
      BY <1>1, <1>5, <1>9, <2>10, <3>2 DEF Shaped, Sole
    <3>3. QED
      BY <2>11, <3>1, <3>2
  <2>13. \A y \in 1 .. n : Sole(more[y].blocks, "result")
    BY <2>9 DEF Sole
  <2>14. ASSUME NEW y \in 1 .. n + 1, NEW i \in 1 .. Len(more[y].blocks)
         PROVE  i = 1
    <3>1. Len(more[y].blocks) = 1
      BY <2>9, <2>10, <2>11
    <3>2. QED
      BY <3>1
  <2>15. ASSUME NEW y \in 1 .. n + 1, NEW i \in 1 .. Len(more[y].blocks),
                more[y].blocks[i].kind = "result"
         PROVE  \E k \in 1 .. n : more[y].blocks[i] = s[k]
    <3>1. CASE y \in 1 .. n
      BY <2>9, <2>14, <3>1
    <3>2. CASE y = n + 1
      BY <1>1, <2>10, <2>14, <2>15, <3>2
    <3>3. QED
      BY <2>11, <3>1, <3>2
  <2>16. ASSUME NEW y \in 1 .. n + 1, NEW i \in 1 .. Len(more[y].blocks),
                more[y].blocks[i].mark
         PROVE  mark /\ <<y, i>> = <<n + 1, 1>>
    <3>1. CASE y \in 1 .. n
      BY <2>9, <2>14, <2>16, <3>1
    <3>2. CASE y = n + 1
      BY <1>1, <2>10, <2>14, <2>16, <3>2
    <3>3. QED
      BY <2>11, <3>1, <3>2
  <2>17. Len(more) - 1 = n /\ Len(more) >= 1
    BY <1>4, <2>8
  <2>18. \A y \in 1 .. Len(more) : \A i \in 1 .. Len(more[y].blocks) :
           more[y].blocks[i].mark => mark /\ <<y, i>> = <<n + 1, 1>>
    BY <2>8, <2>16
  <2>19. \A y \in 1 .. Len(more) : \A i \in 1 .. Len(more[y].blocks) :
           more[y].blocks[i].kind = "result" =>
               \E k \in 1 .. Len(s) : more[y].blocks[i] = s[k]
    BY <2>8, <2>15
  <2>20. \A y \in 1 .. Len(more) : Shaped(client, more[y]) /\ more[y].role # "assistant"
    BY <2>8, <2>12
  <2>21. \A y \in 1 .. Len(more) - 1 : Sole(more[y].blocks, "result")
    BY <2>13, <2>17
  <2>22. QED
    BY <2>8, <2>17, <2>18, <2>19, <2>20, <2>21
<1>10. QED
  BY <1>2, <1>7, <1>8, <1>9

\* One block at most of what was added is marked, and only if the client marks one.
AddsOneMark(h, g, mark) ==
    \E z : \A m \in Len(h) + 1 .. Len(g) : \A i \in 1 .. Len(g[m].blocks) :
      g[m].blocks[i].mark => mark /\ <<m, i>> = z

\* Whatever provider answers and whatever the client says next.
LEMMA ReplyKeepsOrder ==
    ASSUME client \in {"chat", "messages"}, turn \in Nat, Ordered(client, hist),
           NEW p \in Upstreams, NEW calls \in Nat, NEW item \in BOOLEAN,
           NEW mark \in BOOLEAN, NEW order \in Orders(calls),
           NEW more \in NextTurn(Results(p, calls, item, order), mark),
           NEW g, g = Append(hist, AnswerOf(p, calls, item)) \o more
    PROVE  /\ Ordered(client, g) /\ Len(g) > Len(hist)
           /\ \A m \in 1 .. Len(hist) : g[m] = hist[m]
           /\ AddsOneMark(hist, g, mark)
<1>0. PICK answer : answer = AnswerOf(p, calls, item)
  OBVIOUS
<1> DEFINE n == Len(hist)
           s == Results(p, calls, item, order)
           f == Append(hist, answer)
<1>1. hist \in Seq(MessageType) /\ n \in Nat
  BY DEF Ordered
<1>2. /\ answer \in MessageType /\ answer.role = "assistant" /\ Answering(answer.blocks)
      /\ Len(answer.blocks) = calls + 1
      /\ \A i \in 1 .. Len(answer.blocks) : ~answer.blocks[i].mark
      /\ \A k \in 1 .. calls :
           /\ answer.blocks[k + 1].id = MintedBy(p, k, item)
           /\ answer.blocks[k + 1].label = <<turn, k>>
  <2>1. answer \in MessageType /\ answer.role = "assistant" /\ Answering(answer.blocks)
    BY <1>0, AnswerShape
  <2>2. Len(answer.blocks) = calls + 1
    BY <1>0, AnswerShape
  <2>3. \A i \in 1 .. Len(answer.blocks) : ~answer.blocks[i].mark
    BY <1>0, AnswerShape
  <2>4. \A k \in 1 .. calls :
          /\ answer.blocks[k + 1].id = MintedBy(p, k, item)
          /\ answer.blocks[k + 1].label = <<turn, k>>
    BY <1>0, AnswerShape
  <2>5. QED
    BY <2>1, <2>2, <2>3, <2>4
<1>3. /\ s \in Seq(BlockType) /\ Len(s) = calls
      /\ \A k \in 1 .. calls :
           /\ s[k].kind = "result" /\ ~s[k].mark
           /\ order[k] \in 1 .. calls
           /\ s[k].id = MintedBy(p, order[k], item)
           /\ s[k].label = <<turn, order[k]>>
  BY ResultsShape
<1>4. more \in NextTurn(s, mark) /\ g = f \o more
  BY <1>0
<1> HIDE DEF s
<1>5. /\ more \in Seq(MessageType) /\ Len(more) >= 1
      /\ \A y \in 1 .. Len(more) : Shaped(client, more[y]) /\ more[y].role # "assistant"
      /\ \A y \in 1 .. Len(more) - 1 : Sole(more[y].blocks, "result")
      /\ \A y \in 1 .. Len(more) : \A i \in 1 .. Len(more[y].blocks) :
           more[y].blocks[i].kind = "result" =>
               \E k \in 1 .. Len(s) : more[y].blocks[i] = s[k]
      /\ \E z : \A y \in 1 .. Len(more) : \A i \in 1 .. Len(more[y].blocks) :
           more[y].blocks[i].mark => mark /\ <<y, i>> = z
  BY <1>3, <1>4, NextTurnShape
<1>6. /\ f \in Seq(MessageType) /\ Len(f) = n + 1 /\ f[n + 1] = answer
      /\ \A m \in 1 .. n : f[m] = hist[m]
  BY <1>1, <1>2
<1> HIDE DEF f
<1>7. /\ g \in Seq(MessageType)
      /\ Len(g) = Len(f) + Len(more)
      /\ \A i \in 1 .. Len(f) : g[i] = f[i]
      /\ \A i \in 1 .. Len(more) : g[Len(f) + i] = more[i]
  <2>1. f \in Seq(MessageType) /\ more \in Seq(MessageType)
    BY <1>5, <1>6
  <2>2. /\ f \o more \in Seq(MessageType)
        /\ Len(f \o more) = Len(f) + Len(more)
        /\ \A i \in 1 .. Len(f) : (f \o more)[i] = f[i]
        /\ \A i \in 1 .. Len(more) : (f \o more)[Len(f) + i] = more[i]
    BY <2>1, JoinOf
  <2>3. QED
    BY <1>4, <2>2
<1> DEFINE l == Len(more)
<1>8. l \in Nat /\ l >= 1 /\ Len(g) = n + 1 + l
  BY <1>1, <1>5, <1>6, <1>7
<1>9. (\A m \in 1 .. n : g[m] = hist[m]) /\ g[n + 1] = answer
  <2>1. \A m \in 1 .. n + 1 : g[m] = f[m]
    BY <1>6, <1>7
  <2>2. \A m \in 1 .. n : m \in 1 .. n + 1
    BY <1>1
  <2>3. n + 1 \in 1 .. n + 1
    BY <1>1
  <2>4. QED
    BY <1>6, <2>1, <2>2, <2>3
<1>10. \A y \in 1 .. l : g[n + 1 + y] = more[y]
  BY <1>6, <1>7
<1>11. \A m \in n + 1 .. Len(g) :
         m = n + 1 \/ (m - (n + 1) \in 1 .. l /\ n + 1 + (m - (n + 1)) = m)
  BY <1>1, <1>8
<1> HIDE DEF l
<1>12. ASSUME NEW m \in n + 1 .. Len(g), m # n + 1
       PROVE  m - (n + 1) \in 1 .. l /\ g[m] = more[m - (n + 1)]
  <2>1. m - (n + 1) \in 1 .. l /\ n + 1 + (m - (n + 1)) = m
    BY <1>11, <1>12
  <2>2. g[n + 1 + (m - (n + 1))] = more[m - (n + 1)]
    BY <1>10, <2>1
  <2>3. QED
    BY <2>1, <2>2
<1>13. ASSUME NEW m \in n + 1 .. Len(g)
       PROVE  Shaped(client, g[m]) /\ ResultsAnswer(g, m)
  <2>1. CASE m = n + 1
    <3>1. Shaped(client, g[m])
      BY <1>2, <1>9, <2>1 DEF Shaped
    <3>2. g[m] \in MessageType
      BY <1>2, <1>9, <2>1
    <3>3. g[m].blocks \in Seq(BlockType)
      BY <3>2, MessageFields
    <3>4. \A i \in DOMAIN g[m].blocks : g[m].blocks[i].kind # "result"
      <4>1. ASSUME NEW i \in DOMAIN g[m].blocks, g[m].blocks[i].kind = "result"
            PROVE  FALSE
        <5>1. i \in 1 .. Len(g[m].blocks)
          BY <3>3
        <5>2. g[m].role # "assistant"
          BY <3>1, <3>3, <4>1, <5>1, ResultsStand
        <5>3. QED
          BY <1>2, <1>9, <2>1, <5>2
      <4>2. QED
        BY <4>1
    <3>5. QED
      BY <3>1, <3>4 DEF ResultsAnswer
  <2>2. CASE m # n + 1
    <3> DEFINE y == m - (n + 1)
    <3>1. y \in 1 .. l /\ g[m] = more[y]
      BY <1>12, <2>2
    <3>2. m = n + 1 + y /\ n + 1 \in 1 .. m - 1 /\ m \in Nat
      BY <1>1, <1>8, <3>1
    <3> HIDE DEF y
    <3>3. Shaped(client, g[m])
      BY <1>5, <3>1, SMTT(30) DEF l
    <3>4. ASSUME NEW i \in DOMAIN g[m].blocks, g[m].blocks[i].kind = "result"
          PROVE  AnsweredIn(g, n + 1, m, i)
      <4>1. i \in 1 .. Len(more[y].blocks) /\ more[y].blocks[i].kind = "result"
        <5>1. more[y] \in MessageType
          BY <1>5, <3>1 DEF l
        <5>2. more[y].blocks \in Seq(BlockType)
          BY <5>1, MessageFields
        <5>3. QED
          BY <3>1, <3>4, <5>2
      <4>2. PICK k \in 1 .. Len(s) : more[y].blocks[i] = s[k]
        BY <1>5, <3>1, <4>1 DEF l
      <4>3. /\ order[k] \in 1 .. calls
            /\ g[m].blocks[i].id = MintedBy(p, order[k], item)
            /\ g[m].blocks[i].label = <<turn, order[k]>>
        <5>1. k \in 1 .. calls /\ g[m].blocks[i] = s[k]
          BY <1>3, <3>1, <4>2
        <5>2. QED
          BY <1>3, <5>1
      <4>4. /\ order[k] + 1 \in 2 .. Len(g[n + 1].blocks)
            /\ g[n + 1].blocks[order[k] + 1].id = g[m].blocks[i].id
            /\ g[n + 1].blocks[order[k] + 1].label = g[m].blocks[i].label
        <5>1. order[k] + 1 \in 2 .. calls + 1
          BY <4>3
        <5>2. QED
          BY <1>2, <1>9, <4>3, <5>1
      <4>5. ASSUME NEW x \in (n + 1) + 1 .. m - 1
            PROVE  g[x].role # "assistant" /\ Sole(g[x].blocks, "result")
        <5>1. x \in n + 1 .. Len(g) /\ x # n + 1 /\ x - (n + 1) < y /\ x - (n + 1) \in Int
          BY <1>1, <1>8, <3>1, <3>2, SMTT(30)
        <5>2. x - (n + 1) \in 1 .. l /\ g[x] = more[x - (n + 1)]
          BY <1>12, <5>1
        <5>3. x - (n + 1) \in 1 .. l - 1
          BY <1>8, <3>1, <5>1, <5>2
        <5>4. QED
          BY <1>5, <5>2, <5>3 DEF l
      <4>6. g[n + 1].role = "assistant"
        BY <1>2, <1>9
      <4>7. QED
        BY <4>4, <4>5, <4>6 DEF AnsweredIn
    <3>5. ResultsAnswer(g, m)
      BY <3>2, <3>4 DEF ResultsAnswer
    <3>6. QED
      BY <3>3, <3>5
  <2>3. QED
    BY <2>1, <2>2
<1>14. Len(g) > n
  BY <1>1, <1>8
<1>15. Ordered(client, g)
  <2>1. Len(g) >= n
    BY <1>1, <1>8
  <2>2. QED
    BY <1>7, <1>9, <1>13, <2>1, OrderedGrows
<1>16. \E z : \A m \in n + 1 .. Len(g) : \A i \in 1 .. Len(g[m].blocks) :
         g[m].blocks[i].mark => mark /\ <<m, i>> = z
  <2>1. PICK z : \A y \in 1 .. l : \A i \in 1 .. Len(more[y].blocks) :
          more[y].blocks[i].mark => mark /\ <<y, i>> = z
    BY <1>5 DEF l
  <2>2. ASSUME NEW m \in n + 1 .. Len(g), NEW i \in 1 .. Len(g[m].blocks), g[m].blocks[i].mark
        PROVE  mark /\ <<m, i>> = <<n + 1 + z[1], z[2]>>
    <3>1. m # n + 1
      BY <1>2, <1>9, <2>2
    <3> DEFINE y == m - (n + 1)
    <3>2. y \in 1 .. l /\ g[m] = more[y]
      BY <1>12, <3>1
    <3>3. m = n + 1 + y
      BY <1>1, <3>2
    <3> HIDE DEF y
    <3>4. mark /\ <<y, i>> = z
      BY <2>1, <2>2, <3>2
    <3>5. z[1] = y /\ z[2] = i
      BY <3>4
    <3>6. QED
      BY <3>3, <3>4, <3>5
  <2>3. QED
    BY <2>2
<1>17. QED
  BY <1>9, <1>14, <1>15, <1>16 DEF AddsOneMark

-----------------------------------------------------------------------------
(***************************************************************************)
(* Cache markers.                                                          *)
(***************************************************************************)
MarkedPlaces(h) == {k \in Places(h) : At(h, k).mark}

Bit(b) == IF b THEN 1 ELSE 0

LEMMA MarksGrow ==
    ASSUME NEW g \in Seq(MessageType), NEW h \in Seq(MessageType), Len(g) >= Len(h),
           \A m \in 1 .. Len(h) : g[m] = h[m],
           NEW mark \in BOOLEAN,
           AddsOneMark(h, g, mark),
           IsFiniteSet(MarkedPlaces(h))
    PROVE  /\ IsFiniteSet(MarkedPlaces(g))
           /\ MarkedIn(h) \in Nat /\ MarkedIn(g) \in Nat
           /\ MarkedIn(g) <= MarkedIn(h) + Bit(mark)
<1>1. Len(h) \in Nat /\ Len(g) \in Nat
  OBVIOUS
<1>2. PICK z : \A m \in Len(h) + 1 .. Len(g) : \A i \in 1 .. Len(g[m].blocks) :
        g[m].blocks[i].mark => mark /\ <<m, i>> = z
  BY DEF AddsOneMark
<1>3. /\ DOMAIN h = 1 .. Len(h) /\ \A m \in 1 .. Len(h) : h[m].blocks \in Seq(BlockType)
      /\ DOMAIN g = 1 .. Len(g) /\ \A m \in 1 .. Len(g) : g[m].blocks \in Seq(BlockType)
  <2>1. \A m \in 1 .. Len(h) : h[m] \in MessageType
    OBVIOUS
  <2>2. \A m \in 1 .. Len(g) : g[m] \in MessageType
    OBVIOUS
  <2>3. QED
    BY <2>1, <2>2, MessageFields
<1>4. \A k \in Places(g) :
        /\ k = <<k[1], k[2]>>
        /\ k[1] \in 1 .. Len(g)
        /\ k[2] \in 1 .. Len(g[k[1]].blocks)
        /\ At(g, k) = g[k[1]].blocks[k[2]]
  BY <1>1, <1>3, PlacesOf
<1>5. \A m \in 1 .. Len(h) : \A i \in 1 .. Len(h[m].blocks) :
        <<m, i>> \in Places(h) /\ At(h, <<m, i>>) = h[m].blocks[i]
  <2>1. ASSUME NEW m \in 1 .. Len(h), NEW i \in 1 .. Len(h[m].blocks)
        PROVE  <<m, i>> \in Places(h) /\ At(h, <<m, i>>) = h[m].blocks[i]
    <3>1. m \in DOMAIN h /\ h[m].blocks \in Seq(BlockType)
      BY <1>3
    <3>2. QED
      BY <3>1, PlaceIn, Zenon
  <2>2. QED
    BY <2>1
<1>6. ASSUME NEW k \in MarkedPlaces(g)
      PROVE  k \in MarkedPlaces(h) \/ (mark /\ k = z)
  <2>1. k \in Places(g) /\ At(g, k).mark
    BY DEF MarkedPlaces
  <2>2. /\ k = <<k[1], k[2]>>
        /\ k[1] \in 1 .. Len(g)
        /\ k[2] \in 1 .. Len(g[k[1]].blocks)
        /\ g[k[1]].blocks[k[2]].mark
    BY <1>4, <2>1
  <2>3. CASE k[1] \in 1 .. Len(h)
    <3>1. k \in Places(h) /\ At(h, k).mark
      BY <1>5, <2>2, <2>3
    <3>2. QED
      BY <3>1 DEF MarkedPlaces
  <2>4. CASE k[1] \in Len(h) + 1 .. Len(g)
    BY <1>2, <2>2, <2>4
  <2>5. QED
    BY <1>1, <2>2, <2>3, <2>4
<1>7. MarkedIn(h) = Cardinality(MarkedPlaces(h)) /\ MarkedIn(g) = Cardinality(MarkedPlaces(g))
  BY DEF MarkedIn, MarkedPlaces
<1> DEFINE old == MarkedPlaces(h)
<1> HIDE DEF old
<1>8. IsFiniteSet(old) /\ Cardinality(old) \in Nat
  BY FS_CardinalityType DEF old
<1>9. CASE mark
  <2>1. MarkedPlaces(g) \subseteq old \cup {z}
    BY <1>6 DEF old
  <2>2. IsFiniteSet(old \cup {z}) /\ Cardinality(old \cup {z}) <= Cardinality(old) + 1
    <3>1. /\ IsFiniteSet(old \cup {z})
          /\ Cardinality(old \cup {z}) = IF z \in old THEN Cardinality(old) ELSE Cardinality(old) + 1
      BY <1>8, FS_AddElement
    <3>2. QED
      BY <1>8, <3>1
  <2>3. IsFiniteSet(MarkedPlaces(g)) /\ Cardinality(MarkedPlaces(g)) <= Cardinality(old \cup {z})
    BY <2>1, <2>2, FS_Subset
  <2>4. Cardinality(MarkedPlaces(g)) \in Nat /\ Cardinality(old \cup {z}) \in Nat
    BY <2>2, <2>3, FS_CardinalityType
  <2>5. QED
    BY <1>7, <1>8, <1>9, <2>2, <2>3, <2>4 DEF Bit, old
<1>10. CASE ~mark
  <2>1. MarkedPlaces(g) \subseteq old
    BY <1>6, <1>10 DEF old
  <2>2. IsFiniteSet(MarkedPlaces(g)) /\ Cardinality(MarkedPlaces(g)) <= Cardinality(old)
    BY <1>8, <2>1, FS_Subset
  <2>3. Cardinality(MarkedPlaces(g)) \in Nat
    BY <2>2, FS_CardinalityType
  <2>4. QED
    BY <1>7, <1>8, <1>10, <2>2, <2>3 DEF Bit, old
<1>11. QED
  BY <1>9, <1>10

LEMMA SameMarks ==
    ASSUME NEW w, NEW h, DOMAIN w = DOMAIN h, \A m \in DOMAIN h : w[m].blocks = h[m].blocks
    PROVE  MarkedIn(w) = MarkedIn(h)
<1>1. Places(w) = Places(h)
  BY DEF Places
<1>2. \A k \in Places(h) : k[1] \in DOMAIN h
  BY DEF Places
<1>3. \A k \in Places(h) : At(w, k) = At(h, k)
  BY <1>2 DEF At
<1>4. {k \in Places(w) : At(w, k).mark} = {k \in Places(h) : At(h, k).mark}
  BY <1>1, <1>3
<1>5. QED
  BY <1>4 DEF MarkedIn

PromptBlock ==
    [kind : {"text"}, label : {"system", "identity", "more"}, id : {NoId}, mark : BOOLEAN]

LEMMA PromptText ==
    ASSUME NEW l \in {"system", "identity", "more"}, NEW mark \in BOOLEAN
    PROVE  TextOf(l, mark) \in PromptBlock /\ TextOf(l, mark).mark = mark
BY DEF TextOf, Block, PromptBlock

LEMMA Plain ==
    ASSUME NEW l \in {"system", "identity", "more"}
    PROVE  TextOf(l, FALSE) \in PromptBlock /\ ~TextOf(l, FALSE).mark
<1>1. PICK f \in BOOLEAN : f = FALSE
  OBVIOUS
<1>2. TextOf(l, f) \in PromptBlock /\ TextOf(l, f).mark = f
  BY PromptText
<1>3. QED
  BY <1>1, <1>2

LEMMA MarkedType ==
    ASSUME NEW S, NEW x \in Seq(S)
    PROVE  /\ IsFiniteSet({i \in DOMAIN x : x[i].mark})
           /\ Marked(x) \in Nat
<1>1. DOMAIN x = 1 .. Len(x) /\ Len(x) \in Nat
  OBVIOUS
<1>2. IsFiniteSet(1 .. Len(x))
  BY <1>1, UpTo
<1>3. {i \in DOMAIN x : x[i].mark} \subseteq 1 .. Len(x)
  BY <1>1
<1>4. IsFiniteSet({i \in DOMAIN x : x[i].mark})
  BY <1>2, <1>3, FS_Subset
<1>5. QED
  BY <1>4, FS_CardinalityType DEF Marked

\* The identity in front brings no marker.
LEMMA IdentityAhead ==
    ASSUME NEW x \in Seq(PromptBlock)
    PROVE  /\ <<Identity>> \o x \in Seq(PromptBlock)
           /\ Marked(<<Identity>> \o x) <= Marked(x)
<1> DEFINE s == <<Identity>>
           y == s \o x
           a == {i \in DOMAIN x : x[i].mark}
           b == {i \in DOMAIN y : y[i].mark}
           f == [i \in a |-> i + 1]
<1>1. Identity \in PromptBlock /\ ~Identity.mark
  <2>1. "identity" \in {"system", "identity", "more"}
    OBVIOUS
  <2>2. QED
    BY <2>1, Plain DEF Identity
<1>2. s \in Seq(PromptBlock) /\ Len(s) = 1 /\ s[1] = Identity
  BY <1>1
<1> HIDE DEF s
<1>3. /\ s \o x \in Seq(PromptBlock)
      /\ Len(s \o x) = Len(s) + Len(x)
      /\ \A i \in 1 .. Len(s) : (s \o x)[i] = s[i]
      /\ \A i \in 1 .. Len(x) : (s \o x)[Len(s) + i] = x[i]
  <2>1. s \in Seq(PromptBlock) /\ x \in Seq(PromptBlock)
    BY <1>2
  <2>2. QED
    BY <2>1, JoinOf
<1>4. y \in Seq(PromptBlock) /\ Len(y) = 1 + Len(x) /\ DOMAIN y = 1 .. 1 + Len(x)
  BY <1>2, <1>3
<1>5. DOMAIN x = 1 .. Len(x) /\ Len(x) \in Nat
  OBVIOUS
<1>6. y[1] = Identity
  <2>1. 1 \in 1 .. Len(s)
    BY <1>2
  <2>2. QED
    BY <1>2, <1>3, <2>1
<1>7. \A i \in 1 .. Len(x) : y[i + 1] = x[i]
  BY <1>2, <1>3
<1> HIDE DEF y
<1>8. ASSUME NEW i \in b PROVE i - 1 \in a /\ (i - 1) + 1 = i
  <2>1. i \in 1 .. 1 + Len(x) /\ y[i].mark
    BY <1>4
  <2>2. i # 1
    BY <1>1, <1>6, <2>1
  <2>3. i - 1 \in 1 .. Len(x) /\ (i - 1) + 1 = i
    BY <1>5, <2>1, <2>2
  <2>4. y[(i - 1) + 1] = x[i - 1]
    BY <1>7, <2>3
  <2>5. x[i - 1].mark
    BY <2>1, <2>3, <2>4
  <2>6. QED
    BY <1>5, <2>3, <2>5
<1>9. \A i \in a : i + 1 \in b
  BY <1>4, <1>5, <1>7
<1> HIDE DEF a, b
<1>10. f \in Surjection(a, b)
  <2>1. f \in [a -> b]
    BY <1>9
  <2>2. \A i \in b : \E k \in a : f[k] = i
    BY <1>8
  <2>3. QED
    BY <2>1, <2>2 DEF Surjection
<1>11. IsFiniteSet(a) /\ Marked(x) = Cardinality(a)
  BY MarkedType DEF a, Marked
<1>12. Cardinality(b) <= Cardinality(a)
  BY <1>10, <1>11, FS_Surjection
<1>13. Marked(y) = Cardinality(b)
  BY DEF b, Marked
<1>14. QED
  BY <1>4, <1>11, <1>12, <1>13 DEF y, s

LEMMA MarkedLastAdds ==
    ASSUME NEW x \in Seq(PromptBlock), x # <<>>
    PROVE  MarkedLast(x) \in Seq(PromptBlock) /\ Marked(MarkedLast(x)) <= Marked(x) + 1
<1> DEFINE n == Len(x)
           y == MarkedLast(x)
           a == {i \in DOMAIN x : x[i].mark}
           b == {i \in DOMAIN y : y[i].mark}
<1>1. n \in Nat /\ n \in 1 .. n /\ DOMAIN x = 1 .. n
  OBVIOUS
<1>2. y = [x EXCEPT ![n] = [x[n] EXCEPT !.mark = TRUE]]
  BY DEF MarkedLast
<1>3. [x[n] EXCEPT !.mark = TRUE] \in PromptBlock
  <2>1. x[n] \in PromptBlock
    BY <1>1
  <2>2. QED
    BY <2>1 DEF PromptBlock
<1> HIDE DEF y
<1>4. y \in Seq(PromptBlock) /\ DOMAIN y = DOMAIN x /\ \A i \in 1 .. n : i # n => y[i] = x[i]
  BY <1>1, <1>2, <1>3
<1>5. b \subseteq a \cup {n}
  BY <1>1, <1>4
<1> HIDE DEF a, b, n
<1>6. IsFiniteSet(a) /\ Marked(x) = Cardinality(a) /\ Cardinality(a) \in Nat
  BY MarkedType DEF a, Marked
<1>7. /\ IsFiniteSet(a \cup {n})
      /\ Cardinality(a \cup {n}) = IF n \in a THEN Cardinality(a) ELSE Cardinality(a) + 1
  BY <1>6, FS_AddElement
<1>8. IsFiniteSet(b) /\ Cardinality(b) <= Cardinality(a \cup {n})
  BY <1>5, <1>7, FS_Subset
<1>9. Cardinality(b) \in Nat
  BY <1>8, FS_CardinalityType
<1>10. Marked(y) = Cardinality(b)
  BY DEF b, Marked
<1>11. QED
  BY <1>4, <1>6, <1>7, <1>8, <1>9, <1>10 DEF y

LEMMA WithIdentityMarks ==
    ASSUME NEW x \in Seq(PromptBlock), NEW room \in BOOLEAN
    PROVE  Marked(WithIdentity(x, room)) \in Nat /\ Marked(WithIdentity(x, room)) <= Marked(x) + Bit(room)
<1>1. Marked(x) \in Nat
  BY MarkedType
<1>2. CASE x # <<>> /\ room
  <2>1. MarkedLast(x) \in Seq(PromptBlock) /\ Marked(MarkedLast(x)) <= Marked(x) + 1
    BY <1>2, MarkedLastAdds
  <2> DEFINE y == MarkedLast(x)
  <2>2. WithIdentity(x, room) = <<Identity>> \o y
    BY <1>2 DEF WithIdentity
  <2> HIDE DEF y
  <2>3. y \in Seq(PromptBlock) /\ Marked(y) <= Marked(x) + 1
    BY <2>1 DEF y
  <2>4. <<Identity>> \o y \in Seq(PromptBlock) /\ Marked(<<Identity>> \o y) <= Marked(y)
    BY <2>3, IdentityAhead
  <2>5. Marked(y) \in Nat /\ Marked(<<Identity>> \o y) \in Nat
    BY <2>3, <2>4, MarkedType
  <2>6. Bit(room) = 1
    BY <1>2 DEF Bit
  <2> DEFINE z == <<Identity>> \o y
  <2> HIDE DEF z
  <2>7. Marked(z) <= Marked(y) /\ Marked(z) \in Nat
    BY <2>4, <2>5 DEF z
  <2>8. Marked(z) <= Marked(x) + 1
    BY <1>1, <2>3, <2>5, <2>7
  <2>9. QED
    BY <2>2, <2>6, <2>7, <2>8 DEF z
<1>3. CASE ~(x # <<>> /\ room)
  <2>1. WithIdentity(x, room) = <<Identity>> \o x
    BY <1>3 DEF WithIdentity
  <2>2. <<Identity>> \o x \in Seq(PromptBlock) /\ Marked(<<Identity>> \o x) <= Marked(x)
    BY IdentityAhead
  <2>3. Marked(<<Identity>> \o x) \in Nat
    BY <2>2, MarkedType
  <2>4. QED
    BY <1>1, <2>1, <2>2, <2>3 DEF Bit
<1>4. QED
  BY <1>2, <1>3

LEMMA FewAreSeq ==
    ASSUME NEW S, NEW x \in S, NEW y \in S
    PROVE  <<x>> \in Seq(S) /\ <<x, y>> \in Seq(S)
OBVIOUS

LEMMA PromptHas ==
    ASSUME NEW form, NEW blocks
    PROVE  Prompt(form, blocks).blocks = blocks
BY DEF Prompt

LEMMA PromptTypes ==
    ASSUME NEW s \in Prompts
    PROVE  /\ s.blocks \in Seq(PromptBlock)
           /\ Joined(s) \in Seq(PromptBlock) /\ Marked(Joined(s)) = 0
<1>1. s.blocks \in Seq(PromptBlock)
  <2> DEFINE bits == BOOLEAN
             names == {"system", "identity"}
             string(l) == Prompt("string", <<TextOf(l, FALSE)>>)
             block(l, mark) == Prompt("blocks", <<TextOf(l, FALSE), TextOf("more", mark)>>)
             strings == {string(l) : l \in names}
             blocks == {block(l, mark) : l \in names, mark \in bits}
  <2>1. Prompts = {NoPrompt} \cup strings \cup blocks
    BY DEF Prompts
  <2> HIDE DEF bits, names, string, block
  <2>2. CASE s = NoPrompt
    <3>1. s.blocks = <<>>
      BY <2>2 DEF NoPrompt, Prompt
    <3>2. QED
      BY <3>1
  <2>3. CASE s \in strings
    <3>1. PICK l \in names : s = string(l)
      BY <2>3
    <3>2. s.blocks = <<TextOf(l, FALSE)>>
      BY <3>1, PromptHas, Zenon DEF string
    <3>3. l \in {"system", "identity", "more"}
      BY DEF names
    <3>4. TextOf(l, FALSE) \in PromptBlock
      BY <3>3, Plain, Zenon
    <3>5. QED
      BY <3>2, <3>4, FewAreSeq, Zenon
  <2>4. CASE s \in blocks
    <3>1. PICK l \in names, mark \in bits : s = block(l, mark)
      BY <2>4
    <3>2. s.blocks = <<TextOf(l, FALSE), TextOf("more", mark)>>
      BY <3>1, PromptHas, Zenon DEF block
    <3>3. /\ l \in {"system", "identity", "more"}
          /\ "more" \in {"system", "identity", "more"}
      BY DEF names
    <3>4. TextOf(l, FALSE) \in PromptBlock
      BY <3>3, Plain, Zenon
    <3>5. mark \in BOOLEAN
      BY DEF bits
    <3>6. TextOf("more", mark) \in PromptBlock
      BY <3>3, <3>5, PromptText, Zenon
    <3>7. QED
      BY <3>2, <3>4, <3>6, FewAreSeq, Zenon
  <2>5. QED
    BY <2>1, <2>2, <2>3, <2>4
<1>2. "system" \in {"system", "identity", "more"}
  OBVIOUS
<1> DEFINE t == TextOf("system", FALSE)
<1>3. t \in PromptBlock /\ ~t.mark
  BY <1>2, Plain, Zenon
<1>4. Joined(s) = <<>> \/ Joined(s) = <<t>>
  BY DEF Joined
<1> HIDE DEF t
<1>5. <<>> \in Seq(PromptBlock) /\ <<t>> \in Seq(PromptBlock)
  BY <1>3
<1>6. {i \in DOMAIN Joined(s) : Joined(s)[i].mark} = {}
  <2>1. CASE Joined(s) = <<>>
    BY <2>1
  <2>2. CASE Joined(s) = <<t>>
    <3>1. {i \in DOMAIN <<t>> : <<t>>[i].mark} = {}
      BY <1>3
    <3>2. QED
      BY <2>2, <3>1
  <2>3. QED
    BY <1>4, <2>1, <2>2
<1>7. Marked(Joined(s)) = 0
  BY <1>6, FS_EmptySet DEF Marked
<1>8. QED
  BY <1>1, <1>4, <1>5, <1>7, Zenon

\* A request to Anthropic keeps the limit if the client does.
LEMMA BreakpointsFit ==
    ASSUME client \in {"chat", "messages"}, system \in Prompts, toolMark \in BOOLEAN,
           Ordered(client, hist), IsFiniteSet(MarkedPlaces(hist)),
           ClientMarks <= MaxBreakpoints,
           NEW T, T = Translated("anthropic")
    PROVE  Marked(T.system) + MarkedIn(T.msgs) + (IF T.toolMark THEN 1 ELSE 0)
             <= MaxBreakpoints
<1> DEFINE a == Marked(system.blocks)
           n == MarkedIn(hist)
<1>1. system.blocks \in Seq(PromptBlock) /\ a \in Nat
  BY PromptTypes, MarkedType
<1>2. n \in Nat
  BY FS_CardinalityType DEF MarkedIn, MarkedPlaces
<1>3. ClientMarks = a + n + Bit(toolMark) /\ Bit(toolMark) \in {0, 1} /\ MaxBreakpoints \in Nat
  BY ConversationAssumption DEF ClientMarks, Bit
<1>4. a + n + Bit(toolMark) <= MaxBreakpoints
  BY <1>3
<1> DEFINE total == Marked(T.system) + MarkedIn(T.msgs) + Bit(T.toolMark)
<1>5. SUFFICES total <= MaxBreakpoints
  BY DEF Bit
<1>6. CASE client = "messages"
  <2> DEFINE room == RoomForMark(ClientMarks)
             x == WithIdentity(system.blocks, room)
  <2>1. /\ T.msgs = hist /\ T.toolMark = toolMark
        /\ T.system = x \/ T.system = system.blocks
    BY <1>6 DEF Translated, PreparePassthroughBody
  <2>2. room \in BOOLEAN /\ (room => a + n + Bit(toolMark) < MaxBreakpoints)
    BY <1>3 DEF RoomForMark
  <2> HIDE DEF room
  <2>3. Marked(x) \in Nat /\ Marked(x) <= a + Bit(room)
    BY <1>1, <2>2, WithIdentityMarks
  <2> HIDE DEF x, a, n
  <2>4. CASE T.system = x
    <3>1. total = Marked(x) + n + Bit(toolMark)
      BY <2>1, <2>4 DEF n
    <3>2. Bit(room) = 0 \/ (room /\ Bit(room) = 1)
      BY <2>2 DEF Bit
    <3> HIDE DEF total
    <3>3. QED
      BY <1>1, <1>2, <1>3, <1>4, <2>2, <2>3, <3>1, <3>2
  <2>5. CASE T.system = system.blocks
    <3>1. total = a + n + Bit(toolMark)
      BY <2>1, <2>5 DEF a, n
    <3>2. QED
      BY <1>4, <3>1
  <2>6. QED
    BY <2>1, <2>4, <2>5
<1>7. CASE client = "chat"
  <2> DEFINE room == RoomForMark(Marked(system.blocks) + MarkedIn(hist))
             s == SplitSystem
             x == WithIdentity(s, room)
             w == [m \in DOMAIN hist |-> ToAnthropicMessage(hist[m])]
  <2>1. /\ T.msgs = w /\ T.toolMark = FALSE
        /\ T.system = x \/ T.system = s
    BY <1>7 DEF Translated, ToAnthropicReq
  <2>2. room \in BOOLEAN /\ (room => a + n < MaxBreakpoints)
    BY DEF RoomForMark
  <2>3. MarkedIn(w) = n
    <3>1. DOMAIN w = DOMAIN hist /\ \A m \in DOMAIN hist : w[m].blocks = hist[m].blocks
      BY MessageHas DEF ToAnthropicMessage
    <3>2. QED
      BY <3>1, SameMarks
  <2>4. s \in Seq(PromptBlock) /\ Marked(s) \in Nat /\ Marked(s) <= a
    <3>1. Joined(system) \in Seq(PromptBlock) /\ Marked(Joined(system)) = 0
      BY PromptTypes
    <3>2. CASE a = 0
      <4>1. s = Joined(system)
        BY <3>2 DEF SplitSystem
      <4>2. QED
        BY <1>1, <3>1, <4>1
    <3>3. CASE a # 0
      <4>1. s = system.blocks
        BY <3>3 DEF SplitSystem
      <4>2. QED
        BY <1>1, <4>1
    <3>4. QED
      BY <3>2, <3>3
  <2> HIDE DEF room, s, w
  <2>5. Marked(x) \in Nat /\ Marked(x) <= Marked(s) + Bit(room)
    BY <2>2, <2>4, WithIdentityMarks
  <2> HIDE DEF x, a, n
  <2>6. Bit(T.toolMark) = 0
    BY <2>1 DEF Bit
  <2>7. Bit(room) = 0 \/ (room /\ Bit(room) = 1)
    BY <2>2 DEF Bit
  <2>8. MarkedIn(T.msgs) = n
    BY <2>1, <2>3
  <2>9. CASE T.system = x
    <3>1. total = Marked(x) + n
      BY <1>2, <2>5, <2>6, <2>8, <2>9
    <3> HIDE DEF total
    <3>2. QED
      BY <1>1, <1>2, <1>3, <1>4, <2>2, <2>4, <2>5, <2>7, <3>1
  <2>10. CASE T.system = s
    <3>1. total = Marked(s) + n
      BY <1>2, <2>4, <2>6, <2>8, <2>10
    <3> HIDE DEF total
    <3>2. QED
      BY <1>1, <1>2, <1>3, <1>4, <2>4, <3>1
  <2>11. QED
    BY <2>1, <2>9, <2>10
<1>8. QED
  BY <1>6, <1>7

-----------------------------------------------------------------------------
(***************************************************************************)
(* The session.                                                            *)
(***************************************************************************)
TheSession == <<Joined(system), "user", <<0, "next">>>>

LEMMA SessionIs ==
    ASSUME client \in {"chat", "messages"}, Ordered(client, hist)
    PROVE  SessionOf(Messages) = TheSession
<1>1. Opens(hist[1]) /\ 1 \in 1 .. Len(hist)
  BY DEF Ordered
<1>2. CASE client = "chat"
  <2>1. Messages = hist
    BY <1>2 DEF Messages
  <2>2. QED
    BY <1>1, <2>1 DEF SessionOf, TheSession, Opens
<1>3. CASE client = "messages"
  <2> DEFINE w == [i \in DOMAIN hist |-> ConvertMessage(hist[i])]
             b == hist[1].blocks
  <2>1. Messages = w
    BY <1>3 DEF Messages, AnthropicToChatRequest
  <2>2. /\ hist[1].blocks \in Seq(BlockType)
        /\ w[1].role = hist[1].role
        /\ hist[1].role # "assistant" => w[1].blocks = ConvertUserBlocks(hist[1].blocks)
    BY <1>1, <1>3, ConvertedMessages
  <2>3. hist[1].role = "user" /\ b[1].label = <<0, "next">> /\ (Sole(b, "text") \/ Picture(b))
    BY <1>1 DEF Opens
  <2>4. w[1].blocks = ConvertUserBlocks(b) /\ w[1].role = "user"
    BY <2>2, <2>3
  <2> HIDE DEF w, b
  <2>5. Sole(b, "text") => ResultsFirst(b)
    BY DEF Sole, ResultsFirst
  <2>6. ConvertUserBlocks(b)[1] = b[1]
    BY <2>2, <2>3, <2>5, ConvertedTurn DEF b
  <2>7. QED
    BY <2>1, <2>3, <2>4, <2>6 DEF SessionOf, TheSession
<1>4. QED
  BY <1>2, <1>3

(***************************************************************************)
(* Usage.                                                                  *)
(***************************************************************************)
LEMMA LedgerOf ==
    ASSUME client \in {"chat", "messages"}, NEW p \in Upstreams, NEW n \in Tallies,
           NEW u, u = IF p = "anthropic" THEN n ELSE Reported(n.input + n.read, n.read, 0)
    PROVE  ToLedger(p, u) = IF p = "anthropic" THEN WholePrompt(u) ELSE u
<1>1. n.input \in Nat /\ n.read \in Nat /\ n.write \in Nat
  BY ConversationAssumption
<1>2. CASE p = "anthropic"
  BY <1>2 DEF ToLedger
<1>3. CASE p # "anthropic" /\ client = "messages"
  <2>1. ToLedger(p, u) = WholePrompt(UsageToAnthropic(u))
    BY <1>3 DEF ToLedger
  <2>2. u = [input |-> n.input + n.read, read |-> n.read, write |-> 0]
    BY <1>3 DEF Reported
  <2>3. UsageToAnthropic(u) = [input |-> n.input, read |-> n.read, write |-> 0]
    BY <1>1, <2>2 DEF UsageToAnthropic, Reported
  <2>4. WholePrompt([input |-> n.input, read |-> n.read, write |-> 0]) = u
    BY <1>1, <2>2 DEF WholePrompt, Reported
  <2>5. QED
    BY <1>3, <2>1, <2>3, <2>4
<1>4. CASE p # "anthropic" /\ client # "messages"
  BY <1>4 DEF ToLedger
<1>5. QED
  BY <1>2, <1>3, <1>4

-----------------------------------------------------------------------------
(***************************************************************************)
(* The invariant: the history is in order and within the limit of markers, *)
(* what is at an upstream is a translation of it, and every session the    *)
(* backend has seen is the one of its first message.                       *)
(***************************************************************************)
ConvTyped ==
    /\ client \in {"chat", "messages"}
    /\ system \in Prompts
    /\ toolMark \in BOOLEAN
    /\ turn \in Nat

InTransit ==
    IF phase = "asked" THEN \E p \in Reaches : sent = Translated(p) ELSE sent = NoRequest

MarksFit == IsFiniteSet(MarkedPlaces(hist)) /\ ClientMarks <= MaxBreakpoints

OneSession == \A x \in sessions : x = TheSession

Conversing ==
    /\ ConvTyped
    /\ Ordered(client, hist)
    /\ InTransit
    /\ MarksFit
    /\ OneSession

LEMMA AskedIsTranslated ==
    ASSUME Conversing, phase = "asked"
    PROVE  \E p \in Reaches :
             /\ p \in Upstreams /\ (client = "messages" => p \in {"anthropic", "chatgpt"})
             /\ sent = Translated(p) /\ sent.to = p
             /\ WireAs(client, p, sent.msgs, hist)
<1>1. PICK p \in Reaches : sent = Translated(p)
  BY DEF Conversing, InTransit
<1>2. sent.to = p /\ WireAs(client, p, sent.msgs, hist)
  BY <1>1, TranslatedAs DEF Conversing, ConvTyped
<1>3. p \in Upstreams /\ (client = "messages" => p \in {"anthropic", "chatgpt"})
  BY ConversationAssumption DEF Reaches, Upstreams
<1>4. QED
  BY <1>1, <1>2, <1>3

\* The first message of a conversation.
LEMMA FirstOrdered ==
    ASSUME client \in {"chat", "messages"}, NEW image \in BOOLEAN, NEW mark \in BOOLEAN,
           NEW h, h = First(image, mark)
    PROVE  Ordered(client, h) /\ IsFiniteSet(MarkedPlaces(h))
<1> DEFINE text == TextOf(<<0, "next">>, mark)
           pic == Block("image", <<0, "image">>, NoId, FALSE)
           picture == IF image THEN <<pic>> ELSE <<>>
           s == <<text>>
           b == s \o picture
           m == Message("user", b)
<1>1. PICK z \in Nat : z = 0
  OBVIOUS
<1>2. <<0, "next">> \in Label /\ <<0, "image">> \in Label
  BY <1>1, Labels
<1>3. /\ text \in BlockType /\ text.kind = "text" /\ text.label = <<0, "next">>
  BY <1>2, TextBlock
<1>4. pic \in BlockType /\ pic.kind = "image"
  <2>1. PICK f \in BOOLEAN : f = FALSE
    OBVIOUS
  <2>2. NoId \in IdType /\ "image" \in BlockKinds
    BY DEF NoId, Id, IdType, Makers, BlockKinds
  <2>3. Block("image", <<0, "image">>, NoId, f) \in BlockType
        /\ Block("image", <<0, "image">>, NoId, f).kind = "image"
    BY <1>2, <2>2, BlockIsTyped
  <2>4. QED
    BY <2>1, <2>3
<1>5. h = <<m>>
  BY DEF First
<1> HIDE DEF text, pic
<1>6. /\ b \in Seq(BlockType)
      /\ image => Len(b) = 2 /\ b[1] = text /\ b[2] = pic
      /\ ~image => Len(b) = 1 /\ b[1] = text
  <2>1. s \in Seq(BlockType) /\ Len(s) = 1 /\ s[1] = text
    BY <1>3
  <2>2. /\ picture \in Seq(BlockType)
        /\ image => Len(picture) = 1 /\ picture[1] = pic
        /\ ~image => Len(picture) = 0
    BY <1>4
  <2> HIDE DEF s, picture
  <2>3. s \in Seq(BlockType) /\ picture \in Seq(BlockType)
    BY <2>1, <2>2
  <2>4. /\ s \o picture \in Seq(BlockType)
        /\ Len(s \o picture) = Len(s) + Len(picture)
        /\ \A i \in 1 .. Len(s) : (s \o picture)[i] = s[i]
        /\ \A i \in 1 .. Len(picture) : (s \o picture)[Len(s) + i] = picture[i]
    BY <2>3, JoinOf
  <2> HIDE DEF b
  <2>5. /\ b \in Seq(BlockType) /\ Len(b) = 1 + Len(picture)
        /\ \A i \in 1 .. Len(s) : b[i] = s[i]
        /\ \A i \in 1 .. Len(picture) : b[1 + i] = picture[i]
    BY <2>1, <2>4 DEF b
  <2>6. b[1] = text
    <3>1. 1 \in 1 .. Len(s)
      BY <2>1
    <3>2. QED
      BY <2>1, <2>5, <3>1
  <2>7. ASSUME image PROVE Len(b) = 2 /\ b[2] = pic
    <3>1. Len(picture) = 1 /\ picture[1] = pic
      BY <2>2, <2>7, Zenon
    <3>2. 1 \in 1 .. Len(picture)
      BY <3>1
    <3>3. b[1 + 1] = picture[1]
      BY <2>5, <3>2
    <3>4. QED
      BY <2>5, <3>1, <3>3
  <2>8. QED
    BY <2>2, <2>5, <2>6, <2>7
<1> HIDE DEF b
<1>7. m \in MessageType /\ m.role = "user" /\ m.blocks = b
  <2>1. "user" \in Roles
    BY DEF Roles
  <2>2. QED
    BY <1>6, <2>1, MessageIsTyped
<1> HIDE DEF m
<1>8. h \in Seq(MessageType) /\ Len(h) = 1 /\ h[1] = m
  BY <1>5, <1>7
<1>9. Sole(b, "text") \/ Picture(b)
  BY <1>3, <1>4, <1>6 DEF Sole, Picture
<1>10. Opens(m)
  BY <1>3, <1>6, <1>7, <1>9 DEF Opens
<1>11. Shaped(client, m)
  <2>1. Sole(b, "text") => ResultsFirst(b)
    BY DEF Sole, ResultsFirst
  <2>2. m.role # "assistant"
    BY <1>7
  <2>3. QED
    BY <1>7, <1>9, <2>1, <2>2 DEF Shaped
<1>12. \A i \in DOMAIN b : b[i].kind # "result"
  <2>1. DOMAIN b = 1 .. Len(b)
    BY <1>6
  <2>2. CASE image
    <3>1. \A i \in 1 .. 2 : i = 1 \/ i = 2
      OBVIOUS
    <3>2. QED
      BY <1>3, <1>4, <1>6, <2>1, <2>2, <3>1
  <2>3. CASE ~image
    <3>1. \A i \in 1 .. 1 : i = 1
      OBVIOUS
    <3>2. QED
      BY <1>3, <1>6, <2>1, <2>3, <3>1
  <2>4. QED
    BY <2>2, <2>3
<1>13. \A x \in 1 .. Len(h) : x = 1
  BY <1>8
<1>14. Ordered(client, h)
  <2>1. ASSUME NEW x \in 1 .. Len(h) PROVE Shaped(client, h[x]) /\ ResultsAnswer(h, x)
    <3>1. h[x] = m
      BY <1>8, <1>13
    <3>2. ResultsAnswer(h, x)
      BY <1>7, <1>12, <3>1 DEF ResultsAnswer
    <3>3. QED
      BY <1>11, <3>1, <3>2
  <2>2. Len(h) >= 1
    BY <1>8
  <2>3. QED
    BY <1>8, <1>10, <2>1, <2>2 DEF Ordered
<1>15. IsFiniteSet(MarkedPlaces(h))
  <2>1. DOMAIN h = 1 .. Len(h) /\ Len(h) \in Nat /\ \A x \in 1 .. Len(h) : h[x].blocks \in Seq(BlockType)
    BY <1>6, <1>7, <1>8, <1>13
  <2>2. \A k \in Places(h) :
          /\ k = <<k[1], k[2]>>
          /\ k[1] \in 1 .. Len(h)
          /\ k[2] \in 1 .. Len(h[k[1]].blocks)
    BY <2>1, PlacesOf
  <2>3. MarkedPlaces(h) \subseteq {1} \X (1 .. Len(b))
    <3>1. ASSUME NEW k \in Places(h) PROVE k \in {1} \X (1 .. Len(b))
      <4>1. k = <<k[1], k[2]>> /\ k[1] = 1 /\ k[2] \in 1 .. Len(b)
        BY <1>7, <1>8, <1>13, <2>2
      <4>2. QED
        BY <4>1
    <3>2. QED
      BY <3>1 DEF MarkedPlaces
  <2>4. IsFiniteSet({1}) /\ IsFiniteSet(1 .. Len(b))
    BY <1>6, FS_Singleton, UpTo
  <2>5. IsFiniteSet({1} \X (1 .. Len(b)))
    BY <2>4, FS_Product
  <2>6. QED
    BY <2>3, <2>5, FS_Subset
<1>16. QED
  BY <1>14, <1>15

LEMMA ConversingInit == ConvInit => Conversing
<1>1. SUFFICES ASSUME ConvInit PROVE Conversing
  OBVIOUS
<1>2. client \in {"chat", "messages"} /\ system \in Prompts /\ turn = 1
  BY <1>1 DEF ConvInit
<1>3. toolMark \in BOOLEAN
  BY <1>1 DEF ConvInit
<1>4. sent = NoRequest /\ phase = "asking" /\ sessions = {} /\ ClientMarks <= MaxBreakpoints
  BY <1>1 DEF ConvInit
<1>5. PICK image \in BOOLEAN, mark \in BOOLEAN : hist = First(image, mark)
  BY <1>1 DEF ConvInit
<1>6. Ordered(client, hist) /\ IsFiniteSet(MarkedPlaces(hist))
  BY <1>2, <1>5, FirstOrdered
<1>7. QED
  BY <1>2, <1>3, <1>4, <1>6 DEF Conversing, ConvTyped, InTransit, MarksFit, OneSession

\* What an answer leaves.
LEMMA ConversingReply ==
    ASSUME Conversing, Reply
    PROVE  Conversing'
<1>1. phase = "asked"
  BY DEF Reply
<1>2. /\ turn' = turn + 1 /\ phase' = "asking" /\ sent' = NoRequest
      /\ client' = client /\ system' = system /\ toolMark' = toolMark /\ sessions' = sessions
  BY DEF Reply
<1>3. /\ client \in {"chat", "messages"} /\ system \in Prompts
      /\ toolMark \in BOOLEAN /\ turn \in Nat
      /\ Ordered(client, hist) /\ IsFiniteSet(MarkedPlaces(hist))
      /\ ClientMarks <= MaxBreakpoints
  BY DEF Conversing, ConvTyped, MarksFit
<1>4. sent.to \in Upstreams
  BY <1>1, AskedIsTranslated
<1>5. PICK calls \in 0 .. MaxCalls, item \in BOOLEAN, mark \in BOOLEAN :
        \E order \in Orders(calls) :
          /\ mark => RoomForMark(ClientMarks)
          /\ \E more \in NextTurn(Results(sent.to, calls, item, order), mark) :
               hist' = Append(hist, AnswerOf(sent.to, calls, item)) \o more
  BY DEF Reply
<1>6. PICK order \in Orders(calls) :
        /\ mark => RoomForMark(ClientMarks)
        /\ \E more \in NextTurn(Results(sent.to, calls, item, order), mark) :
             hist' = Append(hist, AnswerOf(sent.to, calls, item)) \o more
  BY <1>5
<1>7. PICK more \in NextTurn(Results(sent.to, calls, item, order), mark) :
        hist' = Append(hist, AnswerOf(sent.to, calls, item)) \o more
  BY <1>6
<1>8. calls \in Nat
  BY ConversationAssumption
<1>9. /\ Ordered(client, hist') /\ Len(hist') > Len(hist)
      /\ \A m \in 1 .. Len(hist) : hist'[m] = hist[m]
      /\ AddsOneMark(hist, hist', mark)
  <2>1. PICK p \in Upstreams : p = sent.to
    BY <1>4
  <2>2. PICK g : g = hist'
    OBVIOUS
  <2>3. /\ more \in NextTurn(Results(p, calls, item, order), mark)
        /\ g = Append(hist, AnswerOf(p, calls, item)) \o more
    BY <1>7, <2>1, <2>2
  <2>4. Ordered(client, g)
    BY <1>3, <1>8, <2>3, ReplyKeepsOrder
  <2>5. Len(g) > Len(hist)
    BY <1>3, <1>8, <2>3, ReplyKeepsOrder
  <2>6. \A m \in 1 .. Len(hist) : g[m] = hist[m]
    BY <1>3, <1>8, <2>3, ReplyKeepsOrder
  <2>7. AddsOneMark(hist, g, mark)
    BY <1>3, <1>8, <2>3, ReplyKeepsOrder
  <2>8. QED
    BY <2>2, <2>4, <2>5, <2>6, <2>7
<1>10. hist \in Seq(MessageType) /\ hist' \in Seq(MessageType)
  BY <1>3, <1>9 DEF Ordered
<1>11. Len(hist') >= Len(hist)
  BY <1>9, <1>10
<1>12. /\ IsFiniteSet(MarkedPlaces(hist'))
       /\ MarkedIn(hist) \in Nat /\ MarkedIn(hist') \in Nat
       /\ MarkedIn(hist') <= MarkedIn(hist) + Bit(mark)
  BY <1>3, <1>9, <1>10, <1>11, MarksGrow
<1>13. ClientMarks' <= MaxBreakpoints
  <2> DEFINE a == Marked(system.blocks)
             n == MarkedIn(hist)
             k == MarkedIn(hist')
             c == Bit(toolMark)
  <2>1. a \in Nat
    BY <1>3, PromptTypes, MarkedType
  <2>2. c \in Nat /\ MaxBreakpoints \in Nat
    BY ConversationAssumption DEF Bit
  <2>3. ClientMarks = a + n + c
    BY DEF ClientMarks, Bit
  <2>4. ClientMarks' = a + k + c
    BY <1>2 DEF ClientMarks, Bit
  <2>5. Bit(mark) = 0 \/ (Bit(mark) = 1 /\ a + n + c < MaxBreakpoints)
    BY <1>6, <2>3 DEF Bit, RoomForMark
  <2>6. a + n + c <= MaxBreakpoints
    BY <1>3, <2>3
  <2> HIDE DEF a, n, k, c
  <2>7. n \in Nat /\ k \in Nat /\ k <= n + Bit(mark)
    BY <1>12 DEF n, k
  <2>8. a + k + c <= MaxBreakpoints
    BY <2>1, <2>2, <2>5, <2>6, <2>7
  <2>9. QED
    BY <2>4, <2>8
<1>14. ConvTyped'
  BY <1>2, <1>3 DEF ConvTyped
<1>15. InTransit'
  BY <1>2 DEF InTransit
<1>16. MarksFit'
  BY <1>12, <1>13 DEF MarksFit, MarkedPlaces, Places, At
<1>17. OneSession'
  BY <1>2 DEF OneSession, TheSession, Joined, Conversing
<1>18. Ordered(client, hist)'
  BY <1>2, <1>9
<1>19. QED
  BY <1>14, <1>15, <1>16, <1>17, <1>18 DEF Conversing

LEMMA ConversingStep == Conversing /\ [ConvNext]_convVars => Conversing'
<1>1. SUFFICES ASSUME Conversing, [ConvNext]_convVars PROVE Conversing'
  OBVIOUS
<1>2. ASSUME /\ client' = client /\ mode' = mode /\ system' = system /\ toolMark' = toolMark
             /\ hist' = hist /\ turn' = turn
      PROVE  /\ ConvTyped' /\ Ordered(client, hist)' /\ MarksFit'
             /\ TheSession' = TheSession
             /\ Reaches' = Reaches
             /\ \A p \in Reaches : Translated(p)' = Translated(p)
  <2>1. ConvTyped' /\ Ordered(client, hist)'
    BY <1>1, <1>2 DEF Conversing, ConvTyped
  <2>2. ClientMarks' = ClientMarks /\ MarkedPlaces(hist)' = MarkedPlaces(hist)
    BY <1>2 DEF ClientMarks
  <2>3. MarksFit'
    BY <1>1, <2>2 DEF Conversing, MarksFit
  <2>4. TheSession' = TheSession /\ Reaches' = Reaches
    BY <1>2 DEF TheSession, Reaches
  <2>5. /\ PreparePassthroughBody' = PreparePassthroughBody
        /\ ToAnthropicReq' = ToAnthropicReq
        /\ OpenAIRequest' = OpenAIRequest
        /\ GeminiRequest' = GeminiRequest
        /\ ChatGPTRequest(Messages)' = ChatGPTRequest(Messages)
    BY <1>2, <2>2 DEF PreparePassthroughBody, ToAnthropicReq, OpenAIRequest, GeminiRequest,
       ChatGPTRequest, Messages, SplitSystem, AnthropicToChatRequest
  <2>6. \A p \in Reaches : Translated(p)' = Translated(p)
    BY <1>2, <2>5 DEF Translated
  <2>7. QED
    BY <2>1, <2>3, <2>4, <2>6
<1>3. ASSUME NEW p \in Reaches, Send(p) PROVE Conversing'
  <2>1. /\ client' = client /\ mode' = mode /\ system' = system /\ toolMark' = toolMark
        /\ hist' = hist /\ turn' = turn /\ phase' = "asked" /\ sent' = Translated(p)
        /\ sessions' = IF p = "chatgpt" THEN sessions \cup {SessionOf(Messages)} ELSE sessions
    BY <1>3 DEF Send
  <2>2. SessionOf(Messages) = TheSession
    BY <1>1, SessionIs DEF Conversing, ConvTyped
  <2>3. OneSession'
    BY <1>1, <1>2, <2>1, <2>2 DEF Conversing, OneSession
  <2>4. InTransit'
    BY <1>2, <2>1 DEF InTransit
  <2>5. QED
    BY <1>2, <2>1, <2>3, <2>4 DEF Conversing
<1>4. ASSUME NEW p \in Reaches, Refuse(p) PROVE Conversing'
  <2>1. /\ client' = client /\ mode' = mode /\ system' = system /\ toolMark' = toolMark
        /\ hist' = hist /\ turn' = turn /\ phase = "asking" /\ phase' = "refused" /\ sent' = sent
        /\ sessions' = sessions
    BY <1>4 DEF Refuse
  <2>2. OneSession'
    BY <1>1, <1>2, <2>1 DEF Conversing, OneSession
  <2>3. InTransit'
    BY <1>1, <2>1 DEF Conversing, InTransit
  <2>4. QED
    BY <1>2, <2>1, <2>2, <2>3 DEF Conversing
<1>5. ASSUME FailOver PROVE Conversing'
  <2>1. /\ client' = client /\ mode' = mode /\ system' = system /\ toolMark' = toolMark
        /\ hist' = hist /\ turn' = turn /\ phase' = "asking" /\ sent' = NoRequest
        /\ sessions' = sessions
    BY <1>5 DEF FailOver
  <2>2. OneSession'
    BY <1>1, <1>2, <2>1 DEF Conversing, OneSession
  <2>3. InTransit'
    BY <2>1 DEF InTransit
  <2>4. QED
    BY <1>2, <2>1, <2>2, <2>3 DEF Conversing
<1>6. ASSUME Reply PROVE Conversing'
  BY <1>1, <1>6, ConversingReply
<1>7. ASSUME UNCHANGED convVars PROVE Conversing'
  <2>1. /\ client' = client /\ mode' = mode /\ system' = system /\ toolMark' = toolMark
        /\ hist' = hist /\ turn' = turn /\ phase' = phase /\ sent' = sent
        /\ sessions' = sessions
    BY <1>7 DEF convVars
  <2>2. OneSession'
    BY <1>1, <1>2, <2>1 DEF Conversing, OneSession
  <2>3. InTransit'
    BY <1>1, <1>2, <2>1 DEF Conversing, InTransit
  <2>4. QED
    BY <1>2, <2>1, <2>2, <2>3 DEF Conversing
<1>8. QED
  BY <1>1, <1>3, <1>4, <1>5, <1>6, <1>7 DEF ConvNext

LEMMA ConversationHolds == ConvSpec => []Conversing
<1>1. QED
  BY ConversingInit, ConversingStep, PTL DEF ConvSpec

-----------------------------------------------------------------------------
\* Every result in a translated request names the call it answers, whichever
\* providers answered the earlier turns and in whatever order the client sends
\* its results: the identifiers the translations leave tell the calls apart.
THEOREM ResultsMatched == ConvSpec => []ResultsStayMatched
<1>1. Conversing => ResultsStayMatched
  <2>1. SUFFICES ASSUME Conversing, sent.to # "gemini", NEW r \in Places(sent.msgs),
                        At(sent.msgs, r).kind = "result"
                 PROVE  Answered(sent.msgs, r, Passthrough)
    BY DEF ResultsStayMatched
  <2>2. phase = "asked"
    <3>1. sent # NoRequest
      <4>1. ASSUME sent.msgs = <<>> PROVE FALSE
        BY <2>1, <4>1 DEF Places
      <4>2. QED
        BY <4>1 DEF NoRequest
    <3>2. QED
      BY <2>1, <3>1 DEF Conversing, InTransit
  <2>3. PICK p \in Upstreams :
          /\ client = "messages" => p \in {"anthropic", "chatgpt"}
          /\ sent.to = p /\ WireAs(client, p, sent.msgs, hist)
    BY <2>1, <2>2, AskedIsTranslated
  <2>4. Ordered(client, hist)
    BY <2>1 DEF Conversing
  <2>5. Answered(sent.msgs, r, client = "messages" /\ p = "anthropic")
    BY <2>1, <2>3, <2>4, Matched
  <2>6. QED
    BY <2>3, <2>5 DEF Passthrough
<1>2. QED
  BY <1>1, ConversationHolds, PTL

\* A request at an upstream says all that the client has said, message by message
\* and once; only the bridge leaves images out.
THEOREM NothingIsLost == ConvSpec => []NothingLost
<1>1. Conversing => NothingLost
  <2>1. SUFFICES ASSUME Conversing, sent # NoRequest
                 PROVE  /\ Len(sent.msgs) = Len(hist)
                        /\ \A m \in DOMAIN hist : SaysAll(sent.msgs[m].blocks, hist[m].blocks)
    BY DEF NothingLost
  <2>2. phase = "asked"
    BY <2>1 DEF Conversing, InTransit
  <2>3. PICK p \in Reaches : sent.to = p /\ WireAs(client, p, sent.msgs, hist)
    BY <2>1, <2>2, AskedIsTranslated
  <2>4. client \in {"chat", "messages"} /\ Ordered(client, hist)
    BY <2>1 DEF Conversing, ConvTyped
  <2>5. DOMAIN hist = 1 .. Len(hist)
    BY <2>4 DEF Ordered
  <2>6. ASSUME NEW m \in 1 .. Len(hist)
        PROVE  SaysAll(sent.msgs[m].blocks, hist[m].blocks)
    BY <2>3, <2>4, AllSaid
  <2>7. Len(sent.msgs) = Len(hist)
    BY <2>3 DEF WireAs
  <2>8. QED
    BY <2>5, <2>6, <2>7
<1>2. QED
  BY <1>1, ConversationHolds, PTL

\* No request to Anthropic carries more cache markers than it takes: the one the
\* gateway adds to the system prompt of a subscription is added only in time.
THEOREM BreakpointsKept == ConvSpec => []WithinBreakpoints
<1>1. Conversing => WithinBreakpoints
  <2>1. SUFFICES ASSUME Conversing, sent.to = "anthropic"
                 PROVE  Marked(sent.system) + MarkedIn(sent.msgs)
                          + (IF sent.toolMark THEN 1 ELSE 0) <= MaxBreakpoints
    BY DEF WithinBreakpoints
  <2>2. phase = "asked"
    BY <2>1 DEF Conversing, InTransit, NoRequest
  <2>3. sent = Translated("anthropic")
    BY <2>1, <2>2, AskedIsTranslated
  <2>4. /\ client \in {"chat", "messages"} /\ system \in Prompts /\ toolMark \in BOOLEAN
        /\ Ordered(client, hist) /\ IsFiniteSet(MarkedPlaces(hist))
        /\ ClientMarks <= MaxBreakpoints
    BY <2>1 DEF Conversing, ConvTyped, MarksFit
  <2>5. QED
    BY <2>3, <2>4, BreakpointsFit
<1>2. QED
  BY <1>1, ConversationHolds, PTL

\* However the turns of a conversation were answered, the ChatGPT backend sees one
\* session.
THEOREM OneSessionId == ConvSpec => []SessionPinned
<1>1. Conversing => SessionPinned
  BY DEF Conversing, OneSession, SessionPinned
<1>2. QED
  BY <1>1, ConversationHolds, PTL

\* What reaches the ledger is the whole prompt, counted once, with its cached part
\* kept apart, on either endpoint and through the bridge.
THEOREM TokensCountedOnce == ConvSpec => []LedgerCountsOnce
<1>1. ConvInit => LedgerCountsOnce
  BY DEF ConvInit, NoUsage, LedgerCountsOnce
<1>2. Conversing /\ LedgerCountsOnce /\ [ConvNext]_convVars => LedgerCountsOnce'
  <2>1. SUFFICES ASSUME Conversing, LedgerCountsOnce, [ConvNext]_convVars
                 PROVE  LedgerCountsOnce'
    OBVIOUS
  <2>2. ASSUME usage' = usage PROVE LedgerCountsOnce'
    BY <2>1, <2>2 DEF LedgerCountsOnce
  <2>3. ASSUME NEW p \in Reaches, Send(p) PROVE LedgerCountsOnce'
    BY <2>3 DEF Send, NoUsage, LedgerCountsOnce
  <2>4. ASSUME Reply PROVE LedgerCountsOnce'
    <3>1. phase = "asked"
      BY <2>4 DEF Reply
    <3>2. PICK p \in Upstreams : p = sent.to
      BY <2>1, <3>1, AskedIsTranslated
    <3>3. PICK n \in Tallies :
            LET u == IF sent.to = "anthropic" THEN n ELSE Reported(n.input + n.read, n.read, 0)
            IN usage' = [by |-> sent.to, upstream |-> u, ledger |-> ToLedger(sent.to, u)]
      BY <2>4 DEF Reply
    <3>4. PICK u : u = IF p = "anthropic" THEN n ELSE Reported(n.input + n.read, n.read, 0)
      OBVIOUS
    <3>5. usage' = [by |-> p, upstream |-> u, ledger |-> ToLedger(p, u)]
      BY <3>2, <3>3, <3>4
    <3>6. ToLedger(p, u) = IF p = "anthropic" THEN WholePrompt(u) ELSE u
      BY <2>1, <3>4, LedgerOf DEF Conversing, ConvTyped
    <3>7. usage'.by = p /\ usage'.upstream = u /\ usage'.ledger = ToLedger(p, u)
      BY <3>5
    <3>8. QED
      BY <3>6, <3>7 DEF LedgerCountsOnce, WholePrompt
  <2>5. QED
    BY <2>1, <2>2, <2>3, <2>4 DEF ConvNext, Refuse, FailOver, convVars
<1>3. QED
  BY <1>1, <1>2, ConversationHolds, PTL DEF ConvSpec
===============================================================================
