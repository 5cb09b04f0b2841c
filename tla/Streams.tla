------------------------------- MODULE Streams --------------------------------
(* A streamed answer on its way through the gateway: a provider's event parser *)
(* turns the upstream's events into chunks, and a frontend turns the chunks    *)
(* into what the client, the audit row and the content log get. Everything up  *)
(* to the client is pulled by one goroutine (the bridge adds a pipe, which     *)
(* keeps the order), so one step is one upstream event all the way through.    *)
(*                                                                             *)
(* Text, arguments and usage are counted, not spelled: what matters is which   *)
(* fragment reaches which block or call.                                       *)
EXTENDS Integers, Sequences

CONSTANTS
    Paths,          \* the pairs <<provider, frontend>> that occur
    MaxText, MaxTools, MaxArgs, \* bounds of what the upstream says in one attempt
    StreamRetries   \* fresh attempts of the ChatGPT client

\* The ChatGPT client has a Complete of its own, folded from its stream; the
\* bridge of /v1/messages stands in front of providers that lack the endpoint.
AllPaths == {<<"anthropic", "chat">>, <<"anthropic", "messages">>, <<"chatgpt", "chat">>,
             <<"chatgpt", "messages">>, <<"chatgpt", "complete">>, <<"gemini", "chat">>,
             <<"openai", "chat">>}

ASSUME StreamsAssumption ==
    /\ Paths \subseteq AllPaths
    /\ {MaxText, MaxTools, StreamRetries} \subseteq Nat
    /\ MaxArgs \in Nat \ {0}

VARIABLES
    path,           \* <<provider, frontend>> of this request
    up,             \* history: what the upstream has said in this attempt
    ps,             \* the provider's parser
    br,             \* the bridge's stream writer
    acc,            \* the answer reassembled from fragments
    view,           \* what the client was told
    row,            \* the audit row: "none", "ok" or "error", and its usage
    pc              \* "open", "backoff" or "done"

vars == <<path, up, ps, br, acc, view, row, pc>>

Provider == path[1]
Frontend == path[2]
Bridged == path = <<"chatgpt", "messages">>
Verbatim == path = <<"anthropic", "messages">>

\* last: 0 after text, n after a part of call n. whole: each of Gemini's chunks
\* repeats the text so far; flowing: its last chunk had text; garbled: the text
\* was one its deltas get wrong.
NewUp == [text |-> 0, args |-> <<>>, last |-> 0, interleaved |-> FALSE, usage |-> FALSE,
          error |-> FALSE, failed |-> FALSE, completed |-> FALSE, stopped |-> FALSE,
          whole |-> FALSE, flowing |-> FALSE, garbled |-> FALSE]
\* prev: whether Gemini's prevText is not empty
NewParser == [tools |-> <<>>, finish |-> "", emitted |-> FALSE, attempt |-> 0, prev |-> FALSE]
NewWriter == [kind |-> "", tool |-> -1, index |-> 0, next |-> 0, stop |-> "stop", usage |-> FALSE]
NewAcc == [text |-> 0, calls |-> <<>>]
NewView == [open |-> -1, next |-> 0, broken |-> FALSE, finish |-> "", end |-> "", gone |-> FALSE]

-----------------------------------------------------------------------------
(* Upstream events. "tool" starts the next tool call, "args" is a fragment of   *)
(* call n; Gemini sends a call whole. "error" is an error object or event,      *)
(* "odd" an event that cannot be decoded, "strange" one of no known type,       *)
(* "orphan" a fragment of a call that never started, "stop" Anthropic's         *)
(* message_stop, "blocked" Gemini's verdict on a prompt, and an "echo" a        *)
(* fragment that begins with the one before it.                                *)

Ev(kind, n, reason) == [kind |-> kind, n |-> n, reason |-> reason]
Reasons == CASE Provider = "anthropic" -> {"end_turn", "tool_use", "max_tokens"}
             [] Provider = "chatgpt" -> {"completed"}
             [] Provider = "gemini" -> {"STOP", "MAX_TOKENS"}
             [] Provider = "openai" -> {"stop", "tool_calls", "length"}
Fragments == {n \in 1..Len(up.args) : up.args[n] < MaxArgs}

Events ==
    {Ev(k, 0, "") : k \in {"error", "odd", "strange", "close", "drop"}}
    \cup {Ev("reason", 0, r) : r \in Reasons}
    \cup (IF up.text < MaxText THEN {Ev("text", 0, "")} ELSE {})
    \cup (IF up.text < MaxText /\ up.flowing /\ ~up.whole THEN {Ev("text", 0, "echo")} ELSE {})
    \cup {Ev("tool", n, "") : n \in {Len(up.args) + 1} \cap 1..MaxTools}
    \cup (IF Provider = "gemini" THEN {} ELSE {Ev("args", n, "") : n \in Fragments})
    \cup (IF Provider \in {"gemini", "openai"} THEN {Ev("usage", 0, "")} ELSE {Ev("orphan", 0, "")})
    \cup (IF Provider = "gemini" THEN {Ev("blocked", 0, "")} ELSE {})
    \cup (IF Provider = "anthropic" /\ up.completed THEN {Ev("stop", 0, "")} ELSE {})

\* Text that follows a chunk without any, or begins with what came before it.
Garbles(e) == e.kind = "text" /\ IF up.whole THEN ~up.flowing /\ up.text > 0 ELSE e.reason = "echo"
Opened(e) == IF e.kind = "tool" THEN <<IF Provider = "gemini" THEN 1 ELSE 0>> ELSE <<>>
Said(e) ==
    [text |-> IF e.kind = "text" THEN up.text + 1 ELSE up.text,
     args |-> IF e.kind = "args" THEN [up.args EXCEPT ![e.n] = @ + 1] ELSE up.args \o Opened(e),
     last |-> IF e.kind \in {"text", "tool", "args"} THEN e.n ELSE up.last,
     interleaved |-> up.interleaved \/ (e.kind = "args" /\ up.last # e.n),
     usage |-> up.usage \/ e.kind = (IF Provider = "openai" THEN "usage" ELSE "reason"),
     error |-> up.error \/ e.kind = "error",
     failed |-> up.failed \/ e.kind \in {"drop", "blocked"} \/ (e.kind = "odd" /\ ~Verbatim),
     completed |-> up.completed \/ e.kind = "reason",
     stopped |-> up.stopped \/ e.kind = "stop",
     whole |-> up.whole,
     flowing |-> Provider = "gemini" /\ e.kind \notin {"tool", "reason"} /\ (up.flowing \/ e.kind = "text"),
     garbled |-> up.garbled \/ Garbles(e)]

-----------------------------------------------------------------------------
(* Chunks, and what a provider's parser makes of an event: its next state, the  *)
(* chunk it yields and whether the stream goes on, ends well, fails or may be   *)
(* tried again.                                                                *)

\* One event carries one fragment of one call at most.
Fragment(idx, named, args) == [idx |-> idx, named |-> named, args |-> args]
NoCall == Fragment(-2, FALSE, 0)
Chunk(text, call, finish, usage) ==
    [text |-> text, call |-> call, finish |-> finish, usage |-> usage]
NoChunk == Chunk(0, NoCall, "", FALSE)
Text == Chunk(1, NoCall, "", FALSE)
Calls(call) == Chunk(0, call, "", FALSE)
Counts == Chunk(0, NoCall, "", TRUE)
Stops(reason) == Chunk(0, NoCall, reason, FALSE)
Finish_Uncounted(reason) == Chunk(0, NoCall, reason, FALSE)
Finish(reason) == Chunk(0, NoCall, reason, TRUE)

Out(parser, chunk, fate) == [ps |-> parser, chunk |-> chunk, fate |-> fate]
Silent(parser) == Out(parser, NoChunk, "quiet")
Yields(parser, chunk) == Out([parser EXCEPT !.emitted = TRUE], chunk, "goes on")
Fails == Out(ps, NoChunk, "failed")
Ends(chunk) == Out(ps, chunk, "ended")
WithTool(e) == [ps EXCEPT !.tools = Append(@, e.n)]

AnthropicReason(s) == CASE s = "tool_use" -> "tool_calls"
                        [] s = "max_tokens" -> "length"
                        [] OTHER -> "stop"
GeminiReason(s) == IF s = "MAX_TOKENS" THEN "length" ELSE "stop"

\* Tool indexes are dense and their own, whatever the upstream numbers its blocks.
HandleSSE(e) ==
    CASE e.kind = "text" -> Yields(ps, Text)
      [] e.kind = "tool" -> Yields(WithTool(e), Calls(Fragment(Len(ps.tools), TRUE, 0)))
      [] e.kind = "args" -> Yields(ps, Calls(Fragment(e.n - 1, FALSE, 1)))
      [] e.kind \in {"orphan", "strange", "stop"} -> Silent(ps)
      [] e.kind = "reason" -> Silent([ps EXCEPT !.finish = AnthropicReason(e.reason)])
      [] OTHER -> Fails

\* The last chunk comes when the body ends, whatever was said before.
StreamSSE(e) ==
    CASE e.kind = "close" -> Ends(Finish(ps.finish))
      [] e.kind = "drop" -> Fails
      [] OTHER -> HandleSSE(e)

Retryable_AfterOutput == ps.attempt < StreamRetries
Retryable_OnceMore == ~ps.emitted /\ ps.attempt <= StreamRetries
\* A drop before the first chunk may be tried again; a verdict may not.
Retryable == ~ps.emitted /\ ps.attempt < StreamRetries
Completed == Ends(Finish(IF ps.tools # <<>> THEN "tool_calls" ELSE "stop"))
ResponseEvent(e) ==
    CASE e.kind = "text" -> Yields(ps, Text)
      [] e.kind = "tool" -> Yields(WithTool(e), Calls(Fragment(Len(ps.tools), TRUE, 0)))
      [] e.kind = "args" -> Yields(ps, Calls(Fragment(e.n - 1, FALSE, 1)))
      [] e.kind = "reason" -> Completed
      [] e.kind = "strange" -> Silent(ps)
      [] OTHER -> Fails
ConsumeStream(e) ==
    IF e.kind \notin {"close", "drop"} THEN ResponseEvent(e)
    ELSE IF Retryable THEN Out(ps, NoChunk, "retry") ELSE Fails

\* The text of a chunk, less the text of the chunk before where that begins it.
Trimmed(e) == CASE up.whole -> IF ps.prev THEN 1 ELSE up.text + 1
                [] OTHER -> IF ps.prev /\ e.reason = "echo" THEN 0 ELSE 1
After(hasText) == [ps EXCEPT !.prev = hasText]
\* A call comes whole and without an index; an error object has no field to go to.
GeminiStream(e) ==
    CASE e.kind = "text" -> Yields(After(TRUE), Chunk(Trimmed(e), NoCall, "", FALSE))
      [] e.kind = "tool" -> Yields(After(FALSE), Calls(Fragment(-1, TRUE, 1)))
      [] e.kind = "reason" -> Yields(After(FALSE), Finish(GeminiReason(e.reason)))
      [] e.kind = "usage" -> Yields(ps, Counts)
      [] e.kind \in {"error", "strange"} -> Silent(ps)
      [] e.kind = "close" -> Ends(NoChunk)
      [] OTHER -> Fails

OpenAIStream_SwallowsError(e) ==
    CASE e.kind = "text" -> Yields(ps, Text)
      [] e.kind = "tool" -> Yields(ps, Calls(Fragment(e.n - 1, TRUE, 0)))
      [] e.kind = "args" -> Yields(ps, Calls(Fragment(e.n - 1, FALSE, 1)))
      [] e.kind = "reason" -> Yields(ps, Stops(e.reason))
      [] e.kind = "usage" -> Yields(ps, Counts)
      [] e.kind \in {"error", "strange"} -> Yields(ps, NoChunk)
      [] e.kind = "close" -> Ends(NoChunk)
      [] OTHER -> Fails

OpenAIStream(e) ==
    CASE e.kind = "text" -> Yields(ps, Text)
      [] e.kind = "tool" -> Yields(ps, Calls(Fragment(e.n - 1, TRUE, 0)))
      [] e.kind = "args" -> Yields(ps, Calls(Fragment(e.n - 1, FALSE, 1)))
      [] e.kind = "reason" -> Yields(ps, Stops(e.reason))
      [] e.kind = "usage" -> Yields(ps, Counts)
      [] e.kind = "strange" -> Yields(ps, NoChunk)
      [] e.kind = "close" -> Ends(NoChunk)
      [] OTHER -> Fails

Parsed(e) == CASE Provider = "anthropic" -> StreamSSE(e)
               [] Provider = "chatgpt" -> ConsumeStream(e)
               [] Provider = "gemini" -> GeminiStream(e)
               [] Provider = "openai" -> OpenAIStream(e)

-----------------------------------------------------------------------------
(* Reassembly.                                                                 *)

\* Adds a fragment to the call kept under key, which the first one creates.
Merged(calls, key, args) ==
    IF \E i \in DOMAIN calls : calls[i].key = key
    THEN [i \in DOMAIN calls |-> IF calls[i].key = key
                                 THEN [calls[i] EXCEPT !.args = @ + args] ELSE calls[i]]
    ELSE Append(calls, [key |-> key, args |-> args])

\* The content log's accumulator takes a missing index for 0, Complete's for a new call.
ChatKey(call, calls) == IF call.idx = -1 THEN 0 ELSE call.idx
CompleteKey(call, calls) == IF call.idx = -1 THEN Len(calls) ELSE call.idx
KeyOf(call, calls) == IF Frontend = "complete" THEN CompleteKey(call, calls) ELSE ChatKey(call, calls)
Added(a, chunk) ==
    [text |-> a.text + chunk.text,
     calls |-> IF chunk.call = NoCall THEN a.calls
               ELSE Merged(a.calls, KeyOf(chunk.call, a.calls), chunk.call.args)]

\* The assembler of /v1/messages: a fragment of a block that never started is skipped.
Fed(a, ev) ==
    CASE ev.type = "start" /\ ev.what = "tool" ->
            [a EXCEPT !.calls = Append(@, [key |-> ev.index, args |-> 0])]
      [] ev.type = "delta" /\ ev.what = "text" -> [a EXCEPT !.text = @ + 1]
      [] ev.type = "delta" /\ ev.what = "tool" /\ (\E i \in DOMAIN a.calls : a.calls[i].key = ev.index) ->
            [a EXCEPT !.calls = Merged(@, ev.index, 1)]
      [] OTHER -> a

-----------------------------------------------------------------------------
(* Server-sent events on their way to the client: each is forwarded, and read   *)
(* on the side.  A client that left is noticed when a write fails (late); the    *)
(* event of that write is still read, and no other after it.                    *)

BlockEvent(type, index, what) == [type |-> type, index |-> index, what |-> what]

\* A client of the Anthropic protocol: one open block at a time, numbered in
\* order, fragments only in it, and nothing open at an end.
Seen(v, ev) ==
    CASE ev.type = "start" -> [v EXCEPT !.broken = @ \/ v.open # -1 \/ ev.index # v.next,
                                        !.open = ev.index, !.next = ev.index + 1]
      [] ev.type = "delta" -> [v EXCEPT !.broken = @ \/ v.open # ev.index]
      [] ev.type = "stop" -> [v EXCEPT !.broken = @ \/ v.open # ev.index, !.open = -1]
      [] ev.type = "message_delta" -> [v EXCEPT !.finish = ev.what]
      [] ev.type = "message_stop" ->
            [v EXCEPT !.end = IF @ = "" THEN "ok" ELSE @, !.broken = @ \/ v.open # -1 \/ v.next = 0]
      [] ev.type = "error" -> [v EXCEPT !.end = "error", !.broken = @ \/ v.open # -1]

\* w is the bridge's writer, a the answer reassembled, v the client, told the
\* types of the events read in this step.
Writer(late) == [w |-> br, a |-> acc, v |-> view, told |-> {}, late |-> late]
Writes(wr, ev) ==
    IF wr.late /\ wr.told # {} THEN wr
    ELSE [w |-> wr.w, a |-> Fed(wr.a, ev), v |-> IF wr.v.gone THEN wr.v ELSE Seen(wr.v, ev),
          told |-> wr.told \cup {ev.type}, late |-> wr.late]

-----------------------------------------------------------------------------
(* The bridge's stream writer: one open block, a new one whenever the kind      *)
(* changes.                                                                     *)

Becomes(wr, w) == [w |-> w, a |-> wr.a, v |-> wr.v, told |-> wr.told, late |-> wr.late]
CloseOpen(wr) ==
    IF wr.w.kind = "" THEN wr
    ELSE Becomes(Writes(wr, BlockEvent("stop", wr.w.index, "")), [wr.w EXCEPT !.kind = ""])
OpenBlock(wr, kind, tool) ==
    Becomes(Writes(CloseOpen(wr), BlockEvent("start", wr.w.next, kind)),
            [kind |-> kind, tool |-> tool, index |-> wr.w.next, next |-> wr.w.next + 1,
             stop |-> wr.w.stop, usage |-> wr.w.usage])
OpenText(wr) == IF wr.w.kind = "text" THEN wr ELSE OpenBlock(wr, "text", -1)
OpenTool(wr, idx) == IF wr.w.kind = "tool" /\ wr.w.tool = idx THEN wr ELSE OpenBlock(wr, "tool", idx)
Delta(wr, what) == Writes(wr, BlockEvent("delta", wr.w.index, what))

Orphan(wr, call) == ~call.named /\ (wr.w.kind # "tool" \/ wr.w.tool # call.idx)
HandleToolDelta(wr, call) ==
    IF call = NoCall \/ Orphan(wr, call) THEN wr
    ELSE LET o == IF call.named THEN OpenTool(wr, call.idx) ELSE wr IN
         IF call.args = 0 THEN o ELSE Delta(o, "tool")
\* The finish reason and the usage wait for the end of the message.
Noted(w, chunk) == [w EXCEPT !.stop = IF chunk.finish = "" THEN @ ELSE chunk.finish,
                             !.usage = @ \/ chunk.usage]
HandleChunk(wr, chunk) ==
    LET t == IF chunk.text = 0 THEN wr ELSE Delta(OpenText(wr), "text")
        c == HandleToolDelta(t, chunk.call)
    IN Becomes(c, Noted(c.w, chunk))
FinishMessage(wr) ==
    LET c == CloseOpen(IF wr.w.next = 0 THEN OpenText(wr) ELSE wr)
    IN Writes(Writes(c, BlockEvent("message_delta", 0, c.w.stop)), BlockEvent("message_stop", 0, ""))
WriteError_LeavesOpen(wr) == Writes(wr, BlockEvent("error", 0, ""))
WriteError(wr) == Writes(CloseOpen(wr), BlockEvent("error", 0, ""))

Bridge(wr, o) ==
    CASE o.fate = "goes on" -> HandleChunk(wr, o.chunk)
      [] o.fate = "ended" -> FinishMessage(HandleChunk(wr, o.chunk))
      [] o.fate = "failed" -> WriteError(wr)
      [] OTHER -> wr

\* What an Anthropic upstream itself writes: block 0 is text, block n its call n.
RawEvents(wr, e) ==
    CASE e.kind = "text" -> Writes(wr, BlockEvent("delta", 0, "text"))
      [] e.kind = "tool" -> Writes(wr, BlockEvent("start", e.n, "tool"))
      [] e.kind = "args" -> Writes(wr, BlockEvent("delta", e.n, "tool"))
      [] e.kind = "reason" -> Writes(wr, BlockEvent("message_delta", 0, AnthropicReason(e.reason)))
      [] e.kind = "error" -> Writes(wr, BlockEvent("error", 0, ""))
      [] e.kind = "stop" -> Writes(wr, BlockEvent("message_stop", 0, ""))
      [] OTHER -> wr

-----------------------------------------------------------------------------
(* The frontends.                                                              *)

Row(status, usage) == [status |-> status, usage |-> usage]
Closing(o) == o.fate \in {"ended", "failed"}
Given(o) == IF o.chunk.finish # "" THEN o.chunk.finish ELSE view.finish
Informed(finish, end) == [view EXCEPT !.finish = finish, !.end = end]
Attempted(o) == IF o.fate = "retry" THEN "backoff" ELSE "open"

\* POST /v1/chat/completions with stream: a failure is told in an error frame,
\* a stream without a finish reason gets one.
Synthesized == IF acc.calls # <<>> THEN "tool_calls" ELSE "stop"
ChatStream(o) ==
    LET live == o.fate = "goes on" \/ o.chunk # NoChunk
        kept == IF live THEN Added(acc, o.chunk) ELSE acc
        usage == row.usage \/ o.chunk.usage IN
    \/ /\ live /\ view.gone                         \* the write fails: the row is kept
       /\ acc' = kept /\ row' = Row("ok", usage) /\ pc' = "done"
       /\ UNCHANGED view
    \/ /\ o.fate # "failed"
       /\ acc' = kept
       /\ view' = Informed(IF o.fate = "ended" /\ Given(o) = "" THEN Synthesized ELSE Given(o),
                           IF o.fate = "ended" THEN "ok" ELSE "")
       /\ row' = Row(IF o.fate = "ended" THEN "ok" ELSE "none", usage)
       /\ pc' = IF o.fate = "ended" THEN "done" ELSE Attempted(o)
    \/ /\ o.fate = "failed"
       /\ view' = Informed(view.finish, "error") /\ row' = Row("error", FALSE) /\ pc' = "done"
       /\ UNCHANGED acc

\* Complete of the ChatGPT client: the stream folded into one answer, or none.
CompleteWhole(o) ==
    /\ acc' = Added(acc, o.chunk)
    /\ view' = Informed(Given(o), CASE o.fate = "ended" -> "ok" [] o.fate = "failed" -> "error"
                                    [] OTHER -> "")
    /\ row' = CASE o.fate = "ended" -> Row("ok", row.usage \/ o.chunk.usage)
                [] o.fate = "failed" -> Row("error", FALSE)
                [] OTHER -> row
    /\ pc' = IF Closing(o) THEN "done" ELSE Attempted(o)

\* POST /v1/messages with stream: the bytes go on as they are, and are read on
\* the side for the row and the content log. An error frame marks the row for
\* good, a broken read only while the client is there.
Framed_Never(wr) == FALSE
Framed(wr) == row.status = "error" \/ "error" \in wr.told
\* The closing counts are in message_delta.
UpdatesUsage(wr, counted) == counted /\ "message_delta" \in wr.told
StreamMessages(wr, counted, over, broke, next) ==
    LET left == wr.late /\ wr.told # {}
        status == IF Framed(wr) \/ (broke /\ ~left) THEN "error"
                  ELSE IF over \/ left THEN "ok" ELSE "none"
    IN /\ acc' = wr.a
       /\ view' = wr.v
       /\ row' = Row(status, row.usage \/ UpdatesUsage(wr, counted))
       /\ pc' = IF over \/ left THEN "done" ELSE next

MessagesPassthrough(o, late) ==
    LET wr == Bridge(Writer(late), o) IN
    br' = wr.w /\ StreamMessages(wr, wr.w.usage, Closing(o), FALSE, Attempted(o))
Verbatimly(e, late) ==
    /\ StreamMessages(RawEvents(Writer(late), e), TRUE, e.kind \in {"close", "drop"},
                      e.kind = "drop", "open")
    /\ UNCHANGED br
Handled(e, o) ==
    CASE Bridged -> \E late \in {FALSE, view.gone} : MessagesPassthrough(o, late)
      [] Verbatim -> \E late \in {FALSE, view.gone} : Verbatimly(e, late)
      [] Frontend = "chat" -> ChatStream(o) /\ UNCHANGED br
      [] Frontend = "complete" -> CompleteWhole(o) /\ UNCHANGED br

-----------------------------------------------------------------------------
Event == \E e \in Events :
    /\ pc = "open"
    /\ up' = Said(e)
    /\ LET o == Parsed(e) IN ps' = o.ps /\ Handled(e, o)
    /\ UNCHANGED path

\* The back-off of the ChatGPT client, and a fresh upstream stream.
Retry ==
    /\ pc = "backoff"
    /\ up' = NewUp /\ ps' = [NewParser EXCEPT !.attempt = ps.attempt + 1] /\ pc' = "open"
    /\ UNCHANGED <<path, br, acc, view, row>>

\* The fresh stream is refused, or the request is cancelled meanwhile.
RetryRefused ==
    /\ pc = "backoff"
    /\ up' = [up EXCEPT !.failed = TRUE]
    /\ Handled(Ev("drop", 0, ""), Fails)
    /\ UNCHANGED <<path, ps>>

ClientLeaves ==
    /\ pc # "done" /\ ~view.gone /\ Frontend # "complete"
    /\ view' = [view EXCEPT !.gone = TRUE]
    /\ UNCHANGED <<path, up, ps, br, acc, row, pc>>

Init ==
    /\ path \in Paths
    /\ up \in {[NewUp EXCEPT !.whole = w] : w \in {FALSE, Provider = "gemini"}}
    /\ ps = NewParser /\ br = NewWriter /\ acc = NewAcc /\ view = NewView /\ row = Row("none", FALSE) /\ pc = "open"

Next == Event \/ Retry \/ RetryRefused \/ ClientLeaves

Spec == Init /\ [][Next]_vars

-----------------------------------------------------------------------------
Ended == pc = "done" /\ ~view.gone /\ view.end = "ok"

TypeOK ==
    /\ path \in Paths /\ pc \in {"open", "backoff", "done"}
    /\ up.text \in 0..MaxText /\ up.args \in Seq(0..MaxArgs) /\ Len(up.args) <= MaxTools
    /\ ps.attempt \in 0..StreamRetries /\ ps.emitted \in BOOLEAN
    /\ br.kind \in {"", "text", "tool"} /\ br.next \in Nat /\ br.index \in 0..br.next
    /\ acc.text \in Nat /\ acc.calls \in Seq([key : Int, args : Nat])
    /\ row.status \in {"none", "ok", "error"} /\ row.usage \in BOOLEAN
    /\ view.end \in {"", "ok", "error"} /\ view.gone \in BOOLEAN

(* What was reassembled for a client that got a clean end is what the upstream  *)
(* said, fragment by fragment, after a retry too: nothing twice, nothing in      *)
(* another call. Gemini's calls carry no index and share call 0 of the content   *)
(* log, its deltas repeat cumulative text after a call and drop an echo, and the  *)
(* bridge drops the fragments of a call it has closed.                           *)
Excused == \/ Provider = "gemini" /\ (Len(up.args) > 1 \/ up.garbled)
           \/ Bridged /\ up.interleaved
ReassembledExactly == (Ended /\ ~Excused) =>
    /\ acc.text = up.text
    /\ [i \in DOMAIN acc.calls |-> acc.calls[i].args] = up.args

(* A failure the upstream tells, a connection that drops, or a stream of the      *)
(* Responses backend that stops without its verdict, never reaches the client as  *)
(* a clean end. Gemini's parser does not read error objects, and a client that is  *)
(* sent Anthropic's bytes as they come has its end before a drop that follows it.  *)
CleanEndIsEarned ==
    Ended => /\ up.failed => Verbatim /\ up.stopped
             /\ up.error => Provider = "gemini"
             /\ Provider = "chatgpt" => up.completed

(* Whatever the order of chunks, failures and retries, the bridge writes blocks   *)
(* a client can follow: one open at a time, numbered densely, fragments only in   *)
(* it, all closed before an end or an error, and never an empty message.          *)
BridgeWellFormed == Bridged => ~view.broken

(* The row of a request whose client stayed says how the stream ended for that    *)
(* client. The pass-through of /v1/messages also marks a row whose upstream        *)
(* dropped after the message_stop the client took for the end.                     *)
AuditMatchesClient ==
    (pc = "done" /\ ~view.gone /\ view.end # "") =>
        \/ row.status = view.end
        \/ Verbatim /\ up.stopped /\ up.failed /\ row.status = "error"

(* Tokens the upstream reported are on the row of every request that ends well.   *)
UsageReachesLedger == (Ended /\ up.usage) => row.usage

(* What the documentation says of a failure after the 200 is sent: every client   *)
(* of /v1/chat/completions that stayed is told of it.                              *)
FailuresAreTold == (Ended /\ Frontend = "chat") => ~up.error
===============================================================================
