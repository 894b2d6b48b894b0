---------------------------- MODULE ServerLifecycle ---------------------------
(* The language server's transport and life (spw-lsp stdio-server.ts): a       *)
(* stream cut anywhere, messages dispatched in one go while data is there,     *)
(* handlers that await, initialize replacing the index, shutdown and exit.     *)
(*                                                                             *)
(* The client is one that keeps to the protocol: it waits for the answer to    *)
(* initialize, and for that to shutdown before it sends exit, unless it gives  *)
(* up.  A message is a header, the blank line that ends it, and a body of as   *)
(* many pieces as Size says; chunks may end between any two of these.  Headers *)
(* always state a length.  The handler of an opened document may throw: what   *)
(* it reads off the text is outside the parser's try.                          *)
EXTENDS Naturals, SequencesExt

CONSTANTS
  Requests,       \* ids of the client's requests for methods the server knows
  Strange,        \* ids of its requests for methods it does not know
  Opened,         \* documents the client opens
  Size(_),        \* pieces of the body, by kind of message
  NoId,           \* of a message that is no request
  MaxSent         \* bound of the model: messages from the client

ASSUME SizeAssumption ==
  \A k \in {"initialize", "initialized", "request", "open", "reply", "garbled",
            "shutdown", "exit"} : Size(k) \in Nat

(* A client's ids are its own, and each is used for one request. *)
ASSUME IdsAssumption ==
  /\ Requests \cap Strange = {}
  /\ (Requests \cup Strange) \cap {"init", "stop", NoId} = {}
  /\ NoId \notin {"init", "stop"}

ASSUME MaxSentAssumption == MaxSent \in Nat

VARIABLES
  sent,           \* what the client sent
  wire,           \* pieces under way
  incoming,       \* pieces received and not yet dispatched
  reading,        \* the server is going through what it received
  cut,            \* a notification's handler threw and what follows it was left
  dispatched,     \* numbers of the messages it dispatched, in order
  stage,          \* of initialize: what it awaits
  capable,        \* clientCapabilities: the client takes registrations
  working,        \* ids of requests whose handlers await
  answers,        \* answers sent for each id
  asked,          \* requests the server sent to the client
  serving,        \* documents held by the index that serves
  stopping,       \* SHUTDOWN
  exited          \* the code the process ended with, or "running"

lifeVars == <<sent, wire, incoming, reading, cut, dispatched, stage, capable, working,
              answers, asked, serving, stopping, exited>>

Ids == Requests \cup Strange \cup {"init", "stop", NoId}

-----------------------------------------------------------------------------
Message(kind, id, doc) == [kind |-> kind, id |-> id, doc |-> doc]

Pieces(n, m) == [i \in 1 .. 2 + Size(m.kind) |-> [msg |-> n, at |-> i]]

Sent(kind) == \E i \in DOMAIN sent : sent[i].kind = kind

LifeInit ==
  /\ sent = <<>> /\ wire = <<>> /\ incoming = <<>> /\ dispatched = <<>>
  /\ reading = FALSE /\ cut = FALSE
  /\ stage = "idle"
  /\ capable \in BOOLEAN
  /\ working = {}
  /\ answers = [id \in Ids |-> <<>>]
  /\ asked = 0
  /\ serving = {}
  /\ stopping = FALSE
  /\ exited = "running"

ClientMessages ==
  {Message("initialize", "init", NoId), Message("shutdown", "stop", NoId)}
    \cup {Message(k, NoId, NoId) : k \in {"initialized", "reply", "garbled", "exit"}}
    \cup {Message("request", r, NoId) : r \in Requests \cup Strange}
    \cup {Message("open", NoId, d) : d \in Opened}

(* What the client may say now; each thing once, but replies. *)
MaySay(m) ==
  /\ ~Sent("exit")
  /\ m.kind # "reply" => m \notin ToSet(sent)
  /\ CASE m.kind = "initialize"  -> sent = <<>>
       [] m.kind = "initialized" -> answers["init"] = <<"result">>
       [] m.kind = "exit"        -> /\ answers["init"] # <<>>
                                    /\ Sent("shutdown") => answers["stop"] # <<>>
       [] m.kind = "reply"       -> Len(SelectSeq(sent, LAMBDA o : o.kind = "reply")) < asked
       [] OTHER                  -> Sent("initialized") /\ ~Sent("shutdown")

ClientSends(m) ==
  /\ exited = "running" /\ Len(sent) < MaxSent
  /\ MaySay(m)
  /\ sent' = Append(sent, m)
  /\ wire' = wire \o Pieces(Len(sent) + 1, m)
  /\ UNCHANGED <<incoming, reading, cut, dispatched, stage, capable, working, answers,
                 asked, serving, stopping, exited>>

-----------------------------------------------------------------------------
(* stdin.on('data'): the chunk is appended and gone through, with what was left. *)
DataArrives(n) ==
  /\ exited = "running" /\ ~reading
  /\ n \in 1 .. Len(wire)
  /\ incoming' = incoming \o SubSeq(wire, 1, n)
  /\ wire' = SubSeq(wire, n + 1, Len(wire))
  /\ reading' = TRUE /\ cut' = FALSE
  /\ UNCHANGED <<sent, dispatched, stage, capable, working, answers, asked, serving,
                 stopping, exited>>

(* Where the header ends, and what its length says the body takes. *)
HeaderEnd == SelectInSeq(incoming, LAMBDA b : b.at = 2)
MessageEnd == HeaderEnd + Size(sent[incoming[HeaderEnd].msg].kind)
Complete == HeaderEnd # 0 /\ Len(incoming) >= MessageEnd

Answer(id, what) == answers' = [answers EXCEPT ![id] = Append(@, what)]

(* Mutant: the handler that awaits answers when it begins. *)
BeginsAnswered == stage' = "root" /\ Answer("init", "result")

(* initialize remembers what the client can do and awaits the root. *)
Begins == stage' = "root" /\ UNCHANGED answers

(* A known method answers at once, or throws, or awaits first; *)
(* an unknown one is refused.                                  *)
HandleRequest(m) ==
  \/ /\ m.kind = "initialize"
     /\ Begins
     /\ UNCHANGED <<working, stopping>>
  \/ /\ m.kind = "request" /\ m.id \in Strange
     /\ Answer(m.id, "-32601")
     /\ UNCHANGED <<stage, working, stopping>>
  \/ /\ m.kind = "request" /\ m.id \in Requests
     /\ \/ \E what \in {"result", "-32603"} : Answer(m.id, what) /\ UNCHANGED working
        \/ working' = working \cup {m.id} /\ UNCHANGED answers
     /\ UNCHANGED <<stage, stopping>>
  \/ /\ m.kind = "shutdown"
     /\ stopping' = TRUE
     /\ Answer(m.id, "result")
     /\ UNCHANGED <<stage, working>>

HandleNotification(m) ==
  /\ exited' = IF m.kind = "exit" THEN (IF stopping THEN "0" ELSE "1") ELSE exited
  /\ asked' = IF m.kind = "initialized" /\ capable THEN asked + 1 ELSE asked
  /\ serving' = IF m.kind = "open" THEN serving \cup {m.doc} ELSE serving

Taken(m) ==
  IF m.id # NoId
    THEN HandleRequest(m) /\ UNCHANGED <<exited, asked, serving>>
    ELSE /\ HandleNotification(m)
         /\ IF m.kind = "garbled" THEN Answer(NoId, "-32700") ELSE UNCHANGED answers
         /\ UNCHANGED <<stage, working, stopping>>

(* Mutant: one message of a chunk is dispatched. *)
DispatchFirst ==
  LET n == incoming[HeaderEnd].msg IN
  /\ exited = "running" /\ reading /\ Complete
  /\ incoming' = SubSeq(incoming, MessageEnd + 1, Len(incoming))
  /\ dispatched' = Append(dispatched, n)
  /\ Taken(sent[n])
  /\ reading' = FALSE
  /\ UNCHANGED <<sent, wire, cut, capable>>

(* What a document's text says is read off it with no try around. *)
MayThrow(m) == m.kind = "open"

(* processIncoming, once through the loop; no other step comes between.  A     *)
(* handler that throws ends the loop: the process logs it and goes on.         *)
Dispatch ==
  LET n == incoming[HeaderEnd].msg IN
  /\ exited = "running" /\ reading /\ Complete
  /\ incoming' = SubSeq(incoming, MessageEnd + 1, Len(incoming))
  /\ dispatched' = Append(dispatched, n)
  /\ Taken(sent[n])
  /\ \/ UNCHANGED <<reading, cut>>
     \/ MayThrow(sent[n]) /\ reading' = FALSE /\ cut' = TRUE
  /\ UNCHANGED <<sent, wire, capable>>

NothingComplete ==
  /\ exited = "running" /\ reading /\ ~Complete
  /\ reading' = FALSE
  /\ UNCHANGED <<sent, wire, incoming, cut, dispatched, stage, capable, working, answers,
                 asked, serving, stopping, exited>>

-----------------------------------------------------------------------------
(* The root is found, or looking for it fails. *)
RootFound ==
  /\ exited = "running" /\ ~reading /\ stage = "root"
  /\ \/ stage' = "config" /\ UNCHANGED answers
     \/ stage' = "idle" /\ Answer("init", "-32603")
  /\ UNCHANGED <<sent, wire, incoming, reading, cut, dispatched, capable, working, asked,
                 serving, stopping, exited>>

(* The configuration is loaded, or is not: a new index, which holds nothing. *)
ConfigLoaded ==
  /\ exited = "running" /\ ~reading /\ stage = "config"
  /\ stage' = "idle"
  /\ \/ serving' = {} /\ Answer("init", "result")
     \/ UNCHANGED serving /\ Answer("init", "-32603")
  /\ UNCHANGED <<sent, wire, incoming, reading, cut, dispatched, capable, working, asked,
                 stopping, exited>>

(* Mutants: an error ends the handler and nothing is said of it, or both are. *)
HandlerEndsSilently(r) ==
  /\ exited = "running" /\ ~reading /\ r \in working
  /\ working' = working \ {r}
  /\ Answer(r, "result") \/ UNCHANGED answers
  /\ UNCHANGED <<sent, wire, incoming, reading, cut, dispatched, stage, capable, asked,
                 serving, stopping, exited>>

HandlerEndsTwice(r) ==
  /\ exited = "running" /\ ~reading /\ r \in working
  /\ \/ working' = working \ {r} /\ Answer(r, "result")
     \/ UNCHANGED working /\ Answer(r, "-32603")
  /\ UNCHANGED <<sent, wire, incoming, reading, cut, dispatched, stage, capable, asked,
                 serving, stopping, exited>>

(* What a handler awaited is there, or failed. *)
HandlerEnds(r) ==
  /\ exited = "running" /\ ~reading /\ r \in working
  /\ working' = working \ {r}
  /\ \E what \in {"result", "-32603"} : Answer(r, what)
  /\ UNCHANGED <<sent, wire, incoming, reading, cut, dispatched, stage, capable, asked,
                 serving, stopping, exited>>

-----------------------------------------------------------------------------
LifeServer ==
  \/ Dispatch
  \/ NothingComplete
  \/ RootFound
  \/ ConfigLoaded
  \/ \E r \in Requests : HandlerEnds(r)

LifeNext ==
  \/ \E m \in ClientMessages : ClientSends(m)
  \/ \E n \in 1 .. Len(wire) : DataArrives(n)
  \/ LifeServer

LifeSpec == LifeInit /\ [][LifeNext]_lifeVars

(* Pieces arrive, and what is awaited comes or fails. *)
LifeFairness ==
  /\ WF_lifeVars(\E n \in 1 .. Len(wire) : DataArrives(n))
  /\ WF_lifeVars(Dispatch \/ NothingComplete)
  /\ WF_lifeVars(RootFound)
  /\ WF_lifeVars(ConfigLoaded)
  /\ \A r \in Requests : WF_lifeVars(HandlerEnds(r))

-----------------------------------------------------------------------------
LifeTypeOK ==
  /\ Len(sent) <= MaxSent
  /\ stage \in {"idle", "root", "config"}
  /\ working \subseteq Requests
  /\ serving \subseteq Opened
  /\ asked \in Nat
  /\ exited \in {"running", "0", "1"}

(* However the stream is cut, messages are dispatched once and in order.  When *)
(* the server has gone through what it has received it has dispatched each     *)
(* that has arrived whole, and no part of another; a handler that throws puts  *)
(* the rest off until more arrives, and loses nothing of it.                   *)
MessagesOnceInOrder ==
  \E k \in 0 .. Len(sent) :
    /\ dispatched = [i \in 1 .. k |-> i]
    /\ ~reading /\ ~cut /\ exited = "running" =>
         \A n \in DOMAIN sent : (\A i \in DOMAIN wire : wire[i].msg # n) <=> n <= k

(* No request is answered twice, none before it was dispatched, and none that  *)
(* the server does not know otherwise than by saying so.                       *)
OneAnswerEach ==
  \A id \in Ids \ {NoId} :
    /\ Len(answers[id]) <= 1
    /\ answers[id] # <<>> => \E n \in ToSet(dispatched) : sent[n].id = id
    /\ id \in Strange => ToSet(answers[id]) \subseteq {"-32601"}

(* A document opened by a client that waited for the answer to initialize is   *)
(* held by the index that serves, though initialize replaces the index.        *)
OpenedIsHeld ==
  exited = "running" =>
    \A n \in ToSet(dispatched) : sent[n].kind = "open" => sent[n].doc \in serving

(* Every request is answered in the end, unless the process was told to exit   *)
(* or nothing arrives any more after a notification's handler threw.           *)
EveryRequestAnswered ==
  \A id \in Ids \ {NoId} :
    (\E n \in DOMAIN sent : sent[n].id = id)
      ~> (answers[id] # <<>> \/ exited # "running" \/ []cut)
=============================================================================
