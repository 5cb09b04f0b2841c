----------------------------- MODULE Conversation ------------------------------
(* The turns of one conversation: each request carries all that was said, is   *)
(* translated for whatever provider the router tries, and the next turn builds *)
(* on that provider's answer, whose call identifiers are the provider's own.   *)
(*                                                                             *)
(* A message is a sequence of blocks. What a block says is its label; a call   *)
(* and its result share one. What goes over the wire is the translated         *)
(* message; tool messages a translation splits off stay in it, in their order. *)
EXTENDS Integers, Sequences, FiniteSets

CONSTANTS
    Dialects,           \* of the upstreams
    MaxBreakpoints,     \* maxCacheBreakpoints, of all markers in one request
    MaxTurns, MaxCalls, \* bounds: requests of the client, tool calls of an answer
    Tallies             \* what an upstream counts: new, cached and newly cached tokens

ASSUME ConversationAssumption ==
    /\ Dialects \subseteq {"anthropic", "chatgpt", "openai", "gemini"}
    /\ MaxBreakpoints \in Nat /\ MaxTurns \in Nat /\ MaxCalls \in Nat
    /\ Tallies \subseteq [input : Nat, read : Nat, write : Nat]

VARIABLES
    client,     \* dialect of the client: "chat" or "messages"
    mode,       \* how the Anthropic deployment is billed: "api_key" or "subscription"
    system,     \* the system prompt as the client sends it
    toolMark,   \* whether the client marks its tool definitions
    hist,       \* the client's messages
    turn,
    sent,       \* the request at an upstream
    usage,      \* what the upstream that has just answered reported, and what the
                \* ledger got
    sessions,   \* history: session-id headers the ChatGPT backend has seen
    phase       \* "asking", "asked" or "refused"

convVars ==
    <<client, mode, system, toolMark, hist, turn, sent, usage, sessions, phase>>

-----------------------------------------------------------------------------
(* Identifiers. Gemini's carry no turn: its counter starts over in every       *)
(* answer. Those of the ChatGPT client join two parts and are long.            *)

Id(by, t, n, item) == [by |-> by, turn |-> t, n |-> n, item |-> item, hashed |-> FALSE]
NoId == Id("none", 0, 0, FALSE)
MintedBy(p, n, item) == Id(p, IF p = "gemini" THEN 0 ELSE turn, n, p = "chatgpt" /\ item)
SplitResponsesToolCallID(id) == [id EXCEPT !.item = FALSE]
ShortenToolCallID(id) == IF id.item THEN [id EXCEPT !.hashed = TRUE] ELSE id

Block(kind, label, id, mark) == [kind |-> kind, label |-> label, id |-> id, mark |-> mark]
TextOf(label, mark) == Block("text", label, NoId, mark)
Message(role, blocks) == [role |-> role, blocks |-> blocks]

\* The blocks of some messages, each by its place: message and block.
Places(msgs) == UNION {{m} \X DOMAIN msgs[m].blocks : m \in DOMAIN msgs}
At(msgs, p) == msgs[p[1]].blocks[p[2]]
Ahead(p, q) == p[1] < q[1] \/ (p[1] = q[1] /\ p[2] < q[2])
EachBlock(msgs, F(_)) ==
    [m \in DOMAIN msgs |-> Message(msgs[m].role,
        [i \in DOMAIN msgs[m].blocks |-> F(msgs[m].blocks[i])])]

Marked(blocks) == Cardinality({i \in DOMAIN blocks : blocks[i].mark})
MarkedIn(msgs) == Cardinality({p \in Places(msgs) : At(msgs, p).mark})
MarkedLast(blocks) ==
    IF blocks = <<>> THEN <<>> ELSE [blocks EXCEPT ![Len(blocks)].mark = TRUE]
Unmarked(block) == Block(block.kind, block.label, block.id, FALSE)

-----------------------------------------------------------------------------
(* System prompts: none, one string, or blocks.                                *)

Prompt(form, blocks) == [form |-> form, blocks |-> blocks]
NoPrompt == Prompt("none", <<>>)
Identity == TextOf("identity", FALSE)
Joined(prompt) == IF prompt.blocks = <<>> THEN <<>> ELSE <<TextOf("system", FALSE)>>
OpensWithIdentity(prompt) == prompt.blocks # <<>> /\ Head(prompt.blocks).label = "identity"

\* The client's own markers, on tools, system prompt and messages.
ClientMarks == Marked(system.blocks) + MarkedIn(hist) + (IF toolMark THEN 1 ELSE 0)
RoomForMark_AtLimit(marks) == marks <= MaxBreakpoints
RoomForMark(marks) == marks < MaxBreakpoints

\* The identity block comes first; what follows is cached while there is room.
WithIdentity(blocks, room) ==
    <<Identity>> \o (IF blocks # <<>> /\ room THEN MarkedLast(blocks) ELSE blocks)

\* System messages become one string unless one of them is marked.
SplitSystem == IF Marked(system.blocks) = 0 THEN Joined(system) ELSE system.blocks

\* A tool message becomes one of the user; blocks, identifiers and markers stay.
ToAnthropicMessage(m) ==
    Message(IF m.role = "tool" THEN "user" ELSE m.role, m.blocks)

ToAnthropicReq ==
    [to |-> "anthropic", toolMark |-> FALSE,
     msgs |-> [m \in DOMAIN hist |-> ToAnthropicMessage(hist[m])],
     system |-> IF mode = "subscription"
                THEN WithIdentity(SplitSystem, RoomForMark(Marked(system.blocks) + MarkedIn(hist)))
                ELSE SplitSystem]

\* The body goes on as it is; an identity the client has put first is not repeated.
PreparePassthroughBody ==
    [to |-> "anthropic", toolMark |-> toolMark, msgs |-> hist,
     system |-> IF mode = "subscription" /\ ~OpensWithIdentity(system)
                THEN WithIdentity(system.blocks, RoomForMark(ClientMarks))
                ELSE system.blocks]

-----------------------------------------------------------------------------
(* The other dialects. They know no markers.                                   *)

WithId(block, id) == Block(block.kind, block.label, id, block.mark)

ChatGPTBlock(block) == WithId(Unmarked(block), SplitResponsesToolCallID(block.id))
ChatGPTRequest(msgs) ==
    [to |-> "chatgpt", toolMark |-> FALSE, system |-> Joined(system),
     msgs |-> EachBlock(msgs, ChatGPTBlock)]

SanitizeMessages_CallsOnly(block) ==
    IF block.kind = "call" THEN WithId(Unmarked(block), ShortenToolCallID(block.id))
    ELSE Unmarked(block)
SanitizeMessages(block) == WithId(Unmarked(block), ShortenToolCallID(block.id))
OpenAIRequest ==
    [to |-> "openai", toolMark |-> FALSE,
     system |-> [i \in DOMAIN system.blocks |-> Unmarked(system.blocks[i])],
     msgs |-> EachBlock(hist, SanitizeMessages)]

\* Calls and results go by the name of the function alone.
GeminiBlock(block) == WithId(Unmarked(block), NoId)
GeminiRequest ==
    [to |-> "gemini", toolMark |-> FALSE, system |-> Joined(system),
     msgs |-> EachBlock(hist, GeminiBlock)]

-----------------------------------------------------------------------------
(* The bridge, for a client of the Anthropic dialect: results become messages  *)
(* of their own, ahead of the text of their turn; any other block is ignored.  *)

\* The blocks of a kind, in their order: the k-th has k of them up to itself.
OfKind(blocks, kind) ==
    LET picked == {i \in DOMAIN blocks : blocks[i].kind = kind}
        place(k) == CHOOSE i \in picked : Cardinality(picked \cap 1..i) = k
    IN [k \in 1..Cardinality(picked) |-> blocks[place(k)]]
ConvertUserBlocks(blocks) == OfKind(blocks, "result") \o OfKind(blocks, "text")
ConvertAssistantBlocks_CallsWin(blocks) ==
    IF OfKind(blocks, "call") # <<>> THEN OfKind(blocks, "call") ELSE OfKind(blocks, "text")
ConvertAssistantBlocks(blocks) == OfKind(blocks, "text") \o OfKind(blocks, "call")
ConvertMessage(m) == Message(m.role, IF m.role = "assistant" THEN ConvertAssistantBlocks(m.blocks)
                                     ELSE ConvertUserBlocks(m.blocks))
AnthropicToChatRequest == [i \in DOMAIN hist |-> ConvertMessage(hist[i])]

\* Instructions, tools (the same throughout) and the first message that follows.
SessionOf_Grows(msgs) == <<Joined(system), msgs>>
SessionOf(msgs) == <<Joined(system), msgs[1].role, msgs[1].blocks[1].label>>

Messages == IF client = "messages" THEN AnthropicToChatRequest ELSE hist
HasImage == \E p \in Places(hist) : At(hist, p).kind = "image"

Translated(p) ==
    CASE p = "anthropic" -> IF client = "messages" THEN PreparePassthroughBody ELSE ToAnthropicReq
      [] p = "chatgpt" -> ChatGPTRequest(Messages)
      [] p = "openai" -> OpenAIRequest
      [] p = "gemini" -> GeminiRequest

-----------------------------------------------------------------------------
(* Usage. Anthropic counts the cached parts of a prompt apart, everyone else    *)
(* and the gateway within it.                                                  *)

Reported(input, read, write) == [input |-> input, read |-> read, write |-> write]
WholePrompt(u) == Reported(u.input + u.read + u.write, u.read, u.write)
UsageToAnthropic_KeepsCached(u) == u
UsageToAnthropic(u) ==
    LET input == u.input - u.read - u.write
    IN Reported(IF input < 0 THEN 0 ELSE input, u.read, u.write)

\* What the handlers hand to the ledger: /v1/messages reads the Anthropic form.
ToLedger(p, u) ==
    CASE p = "anthropic" -> WholePrompt(u)
      [] p # "anthropic" /\ client = "messages" -> WholePrompt(UsageToAnthropic(u))
      [] OTHER -> u

-----------------------------------------------------------------------------
NoRequest == [to |-> "none", toolMark |-> FALSE, system |-> <<>>, msgs |-> <<>>]
NoUsage == [by |-> "none", upstream |-> Reported(0, 0, 0), ledger |-> Reported(0, 0, 0)]

Reaches ==
    IF client = "messages" THEN Dialects \cap {"anthropic", "chatgpt"} ELSE Dialects

\* ValidateTextOnlyContent: these two would lose an image and refuse it instead.
\* A refusal is the client's fault and ends the request.
TextOnly(p) == client = "chat" /\ p \in {"anthropic", "gemini"}

Send(p) ==
    /\ phase = "asking"
    /\ ~(TextOnly(p) /\ HasImage)
    /\ sent' = Translated(p) /\ phase' = "asked"
    /\ sessions' = IF p = "chatgpt" THEN sessions \cup {SessionOf(Messages)} ELSE sessions
    /\ usage' = NoUsage
    /\ UNCHANGED <<client, mode, system, toolMark, hist, turn>>

Refuse(p) ==
    /\ phase = "asking" /\ TextOnly(p) /\ HasImage
    /\ phase' = "refused"
    /\ UNCHANGED <<client, mode, system, toolMark, hist, turn, sent, usage, sessions>>

\* The deployment fails and the router tries another with the same messages.
FailOver ==
    /\ phase = "asked" /\ phase' = "asking" /\ sent' = NoRequest
    /\ UNCHANGED <<client, mode, system, toolMark, hist, turn, usage, sessions>>

\* The answer, and the client's next turn: results of the calls, in any order,
\* then more text. The client never marks more than the limit.
AnswerOf(p, calls, item) ==
    Message("assistant", <<TextOf(<<turn, "answer">>, FALSE)>>
        \o [n \in 1..calls |-> Block("call", <<turn, n>>, MintedBy(p, n, item), FALSE)])
Results(p, calls, item, order) ==
    [k \in 1..calls |-> Block("result", <<turn, order[k]>>, MintedBy(p, order[k], item), FALSE)]
Orders(n) == {f \in [1..n -> 1..n] : \A i, j \in 1..n : i # j => f[i] # f[j]}

NextTurn(results, mark) ==
    LET text == TextOf(<<turn, "next">>, mark) IN
    IF client = "messages"
    THEN {<<Message("user", results \o <<text>>)>>, <<Message("user", <<text>> \o results)>>}
    ELSE {[k \in DOMAIN results |-> Message("tool", <<results[k]>>)] \o <<Message("user", <<text>>)>>}

Reply ==
    /\ phase = "asked" /\ turn < MaxTurns
    /\ \E calls \in 0..MaxCalls, item, mark \in BOOLEAN : \E order \in Orders(calls) :
         /\ mark => RoomForMark(ClientMarks)
         /\ item => sent.to = "chatgpt"
         /\ \E more \in NextTurn(Results(sent.to, calls, item, order), mark) :
              hist' = Append(hist, AnswerOf(sent.to, calls, item)) \o more
    /\ \E n \in Tallies :
         LET u == IF sent.to = "anthropic" THEN n ELSE Reported(n.input + n.read, n.read, 0)
         IN usage' = [by |-> sent.to, upstream |-> u, ledger |-> ToLedger(sent.to, u)]
    /\ turn' = turn + 1 /\ phase' = "asking" /\ sent' = NoRequest
    /\ UNCHANGED <<client, mode, system, toolMark, sessions>>

Prompts ==
    {NoPrompt} \cup {Prompt("string", <<TextOf(l, FALSE)>>) : l \in {"system", "identity"}}
    \cup {Prompt("blocks", <<TextOf(l, FALSE), TextOf("more", mark)>>) :
              l \in {"system", "identity"}, mark \in BOOLEAN}

\* A question, with or without an image.
First(image, mark) ==
    LET picture == IF image THEN <<Block("image", <<0, "image">>, NoId, FALSE)>> ELSE <<>>
    IN <<Message("user", <<TextOf(<<0, "next">>, mark)>> \o picture)>>

ConvInit ==
    /\ client \in {"chat", "messages"} /\ mode \in {"api_key", "subscription"}
    /\ system \in Prompts
    /\ toolMark \in BOOLEAN /\ (toolMark => client = "messages")
    /\ hist \in {First(image, mark) : image, mark \in BOOLEAN}
    /\ ClientMarks <= MaxBreakpoints
    /\ turn = 1 /\ sent = NoRequest /\ phase = "asking" /\ sessions = {}
    /\ usage = NoUsage

ConvNext ==
    \/ \E p \in Reaches : Send(p) \/ Refuse(p)
    \/ FailOver \/ Reply

ConvSpec == ConvInit /\ [][ConvNext]_convVars
-----------------------------------------------------------------------------
(* Whichever providers answered the earlier turns, a result in a translated     *)
(* request names the call it answers: the last one before it with that           *)
(* identifier is its own call, and between them are only calls and results,      *)
(* unless the client's own body goes on verbatim. (Gemini goes by names and is   *)
(* left out.)                                                                    *)
Passthrough == client = "messages" /\ sent.to = "anthropic"
Between(msgs, c, r) == {k \in Places(msgs) : Ahead(c, k) /\ Ahead(k, r)}
Answered(msgs, r, verbatim) ==
    \E c \in Places(msgs) :
        /\ Ahead(c, r) /\ At(msgs, c).kind = "call"
        /\ At(msgs, c).id = At(msgs, r).id /\ At(msgs, c).label = At(msgs, r).label
        /\ \A k \in Between(msgs, c, r) :
             \/ At(msgs, k).kind = "result"
             \/ At(msgs, k).kind = "call" /\ At(msgs, k).id # At(msgs, r).id
             \/ verbatim /\ At(msgs, k).kind # "call"
ResultsStayMatched == sent.to # "gemini" =>
    \A r \in Places(sent.msgs) :
        At(sent.msgs, r).kind = "result" => Answered(sent.msgs, r, Passthrough)

(* A translated message says everything the client's says, once; only the        *)
(* bridge leaves images out.                                                     *)
LeavesOut(block) == client = "messages" /\ sent.to = "chatgpt" /\ block.kind = "image"
SaysAll(wire, blocks) ==
    LET kept == {i \in DOMAIN blocks : ~LeavesOut(blocks[i])}
    IN /\ Len(wire) = Cardinality(kept)
       /\ {<<wire[i].kind, wire[i].label>> : i \in DOMAIN wire}
             = {<<blocks[i].kind, blocks[i].label>> : i \in kept}
NothingLost == sent # NoRequest =>
    /\ Len(sent.msgs) = Len(hist)
    /\ \A m \in DOMAIN hist : SaysAll(sent.msgs[m].blocks, hist[m].blocks)

(* A client that keeps the limit of cache markers is never pushed over it by     *)
(* the marker the gateway adds on its own.                                       *)
WithinBreakpoints == sent.to = "anthropic" =>
    Marked(sent.system) + MarkedIn(sent.msgs) + (IF sent.toolMark THEN 1 ELSE 0)
        <= MaxBreakpoints

(* All turns of a conversation carry one session-id, whoever answered in          *)
(* between, so that they reach the node that has their prefix cached.             *)
SessionPinned == \A x, y \in sessions : x = y

(* The ledger counts each prompt token once and keeps the cached parts apart,     *)
(* on either endpoint, through the bridge too.                                    *)
LedgerCountsOnce == usage.by # "none" =>
    usage.ledger = IF usage.by = "anthropic" THEN WholePrompt(usage.upstream) ELSE usage.upstream
===============================================================================
