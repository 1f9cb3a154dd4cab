-------------------------- MODULE CloudExtraction --------------------------
(***************************************************************************)
(* What the extractor bridge does behind extractor.Extract: the backends   *)
(* of its configuration (internal/extraction: an LLM in the cloud, the C++ *)
(* container, one as the fallback of the other), the choice of provider    *)
(* and key, and the requests to the provider with their retries. A webhook *)
(* may bring keys of its own in its headers (X-Anthropic-Key,              *)
(* X-OpenAI-Key), which ingestion stamps on the event. SIGTERM cancels     *)
(* everything under way.                                                   *)
(* A definition called a variant is not part of Next: it is a change of    *)
(* the one after it, there to show that a property notices.                *)
(***************************************************************************)
EXTENDS Naturals, Sequences

CONSTANTS
    Events,
    MaxAttempts    \* of callProvider, 3 in the code

ASSUME AttemptsAssumption == MaxAttempts \in Nat \ {0}

Providers == {"anthropic", "openai"}
Backends  == {"cloud", "local"}

(* How a request to a provider ends: 200 with text or with something else; *)
(* 429; 5xx; another status; a transport error or one while the body is    *)
(* read; no answer in the client's time; the context cancelled.            *)
Transient == {"limited", "broken", "transport"}
Parsed    == {"text", "garbled"}
Final     == Parsed \union {"refused", "timeout", "cancelled"}

VARIABLES
    server,     \* the configuration of the bridge
    request,    \* of each event: the keys in its headers, the type of its file
    turn,       \* the backend each extraction is at, in Chain
    stage,      \* and what it does there
    outcome,    \* what Extract returned
    sent,       \* history: requests to providers and how they ended
    local,      \* history: what the container answered
    stopping    \* SIGTERM

vars == <<server, request, turn, stage, outcome, sent, local, stopping>>

Servers  == [keys : SUBSET Providers, default : Providers \union {"other"},
             backend : Backends, fallback : Backends \union {"none", "other"}]
Requests == [keys : SUBSET Providers, type : {"audio", "docx", "plain"}]
Sendings == [provider : Providers, owner : Providers \union {"server"},
             end : Transient \union Final \union {"open"}]
Stages   == {"new", "extract", "send", "open", "wait", "container", "calling", "failed", "done"}

TypeOK ==
    /\ server \in Servers
    /\ request \in [Events -> Requests]
    /\ turn \in [Events -> {1, 2}]
    /\ stage \in [Events -> Stages]
    /\ outcome \in [Events -> {"none", "success", "failure", "error"}]
    /\ sent \in [Events -> Seq(Sendings)]
    /\ local \in [Events -> {"none", "success", "failure", "error"}]
    /\ stopping \in BOOLEAN

-----------------------------------------------------------------------------
(* The bridge's main. A cloud extractor that knows its default provider    *)
(* can be built; a fallback that cannot be is left out.                    *)
Buildable(kind) == kind \in Backends /\ (kind = "cloud" => server.default \in Providers)

Chain == IF server.fallback # server.backend /\ Buildable(server.fallback)
         THEN <<server.backend, server.fallback>> ELSE <<server.backend>>

(* Variant: the key of one header, the provider of the other. *)
StampedMixed(e) ==
    LET keys == request[e].keys
    IN  IF keys = {} THEN [provider |-> "none", key |-> "none"]
        ELSE [provider |-> IF "openai" \in keys THEN "openai" ELSE "anthropic",
              key      |-> IF "anthropic" \in keys THEN "anthropic" ELSE "openai"]

(* handleWebhook: which provider the event asks for, and whose key it has. *)
Stamped(e) ==
    LET keys == request[e].keys
    IN  IF "openai" \in keys THEN [provider |-> "openai", key |-> "openai"]
        ELSE IF "anthropic" \in keys THEN [provider |-> "anthropic", key |-> "anthropic"]
        ELSE [provider |-> "none", key |-> "none"]

Provider(e) == IF Stamped(e).provider = "none" THEN server.default ELSE Stamped(e).provider
HasKey(e)   == Stamped(e).key # "none" \/ Provider(e) \in server.keys

(* Variant: only the event is asked. *)
KeyOfEvent(e) == Stamped(e).key

KeyOf(e) == IF Stamped(e).key = "none" THEN "server" ELSE Stamped(e).key

-----------------------------------------------------------------------------
At(e, s) == stage[e] = s /\ UNCHANGED <<server, request, stopping>>
Goto(e, s) == stage' = [stage EXCEPT ![e] = s]

(* A backend is asked. *)
Ask(e, i) ==
    /\ turn' = [turn EXCEPT ![e] = i]
    /\ Goto(e, IF Chain[i] = "cloud" THEN "extract" ELSE "container")
    /\ UNCHANGED <<server, request, outcome, sent, local, stopping>>

Extract(e) == stage[e] = "new" /\ Ask(e, 1)

(* Extract of the last backend, or of one that has succeeded, returns.     *)
Return(e, result) ==
    /\ Goto(e, "done")
    /\ outcome' = [outcome EXCEPT ![e] = result]
    /\ UNCHANGED turn

(* Variant: the fallback is for errors, and the cloud extractor has none.  *)
FailOnError(e, result) ==
    IF turn[e] = Len(Chain) \/ result = "failure" THEN Return(e, result)
    ELSE Goto(e, "failed") /\ UNCHANGED <<turn, outcome>>

Fail(e, result) ==
    IF turn[e] = Len(Chain) THEN Return(e, result) ELSE Goto(e, "failed") /\ UNCHANGED <<turn, outcome>>

(* Variant: the same backend is asked again. *)
FailOverAgain(e) == stage[e] = "failed" /\ Ask(e, turn[e])

FailOver(e) == stage[e] = "failed" /\ Ask(e, turn[e] + 1)

(* CloudExtractor.Extract: no audio, no request without a key, and a docx  *)
(* that cannot be read is not sent.                                        *)
Prepare(e) ==
    /\ At(e, "extract")
    /\ \/ Goto(e, "send") /\ request[e].type # "audio" /\ HasKey(e) /\ UNCHANGED <<turn, outcome>>
       \/ Fail(e, "failure") /\ (request[e].type \in {"audio", "docx"} \/ ~ HasKey(e))
    /\ UNCHANGED <<sent, local>>

(* callProviderOnce sends. *)
Send(e) ==
    /\ At(e, "send") /\ ~ stopping
    /\ Goto(e, "open")
    /\ sent' = [sent EXCEPT ![e] = Append(@,
                  [provider |-> Provider(e), owner |-> KeyOf(e), end |-> "open"])]
    /\ UNCHANGED <<turn, outcome, local>>

Settle(e, end, retried) ==
    /\ At(e, "open") /\ (end = "cancelled" => stopping)
    /\ sent' = [sent EXCEPT ![e][Len(sent[e])].end = end]
    /\ IF end = "text" THEN Return(e, "success")
       ELSE IF retried THEN Goto(e, "wait") /\ UNCHANGED <<turn, outcome>>
       ELSE Fail(e, "failure")
    /\ UNCHANGED local

(* Variant: every error is retried. *)
AnswerRetried(e, end) == Settle(e, end, Len(sent[e]) < MaxAttempts)

(* The answer, or the error that stands for it. A timeout of the client is *)
(* a DeadlineExceeded to errors.Is and so is not retried.                  *)
Answer(e, end) == Settle(e, end, end \in Transient /\ Len(sent[e]) < MaxAttempts)

(* The time of Retry-After or of the backoff has passed. *)
WaitOver(e) == At(e, "wait") /\ Goto(e, "send") /\ UNCHANGED <<turn, outcome, sent, local>>

(* The gRPC call; the container answers with a result, which may be a      *)
(* failure, or there is an error: a timeout, no connection, a cancelled    *)
(* context.                                                                *)
Call(e) ==
    /\ At(e, "container") /\ ~ stopping
    /\ Goto(e, "calling")
    /\ UNCHANGED <<turn, outcome, sent, local>>

Reply(e, result) ==
    /\ At(e, "calling")
    /\ local' = [local EXCEPT ![e] = result]
    /\ IF result = "success" THEN Return(e, result) ELSE Fail(e, result)
    /\ UNCHANGED sent

(* With the context cancelled neither is sent, and a wait ends.            *)
Cancel(e) ==
    /\ stopping
    /\ \/ (At(e, "send") \/ At(e, "wait")) /\ Fail(e, "failure") /\ UNCHANGED local
       \/ At(e, "container") /\ Fail(e, "error") /\ local' = [local EXCEPT ![e] = "error"]
    /\ UNCHANGED sent

Stop ==
    /\ ~ stopping /\ stopping' = TRUE
    /\ UNCHANGED <<server, request, turn, stage, outcome, sent, local>>

-----------------------------------------------------------------------------
Init ==
    /\ server \in Servers /\ Buildable(server.backend)
    /\ request \in [Events -> Requests]
    /\ turn = [e \in Events |-> 1] /\ stage = [e \in Events |-> "new"]
    /\ outcome = [e \in Events |-> "none"]
    /\ sent = [e \in Events |-> <<>>] /\ local = [e \in Events |-> "none"]
    /\ stopping = FALSE

Proceed(e) ==
    \/ Extract(e) \/ FailOver(e)
    \/ Prepare(e) \/ Send(e) \/ WaitOver(e) \/ Cancel(e)
    \/ \E end \in Transient \union Final : Answer(e, end)
    \/ Call(e) \/ \E result \in {"success", "failure", "error"} : Reply(e, result)

Next == Stop \/ \E e \in Events : Proceed(e)

Spec == Init /\ [][Next]_vars

(* The clients have timeouts and the waits an end, so a call goes on.      *)
FairSpec == Spec /\ \A e \in Events : WF_vars(Proceed(e))

-----------------------------------------------------------------------------
(* Properties *)

(* A key goes to the provider it is for and nowhere else, in every request *)
(* of every retry: an event's own to the one whose header it came in, the  *)
(* server's to its own provider and only for events without a key. A       *)
(* server without keys, the public demo, pays for nothing.                 *)
KeysStayTheirOwn ==
    \A e \in Events : \A i \in DOMAIN sent[e] :
        LET s == sent[e][i]
        IN  IF s.owner = "server" THEN request[e].keys = {} /\ s.provider \in server.keys
            ELSE s.owner = s.provider /\ s.owner \in request[e].keys

(* A request is repeated only after an error that may pass, with the same  *)
(* provider and key, and in all MaxAttempts times, whatever the order of   *)
(* the backends: no text is paid for twice and no refusal repeated.        *)
OnlyTransientIsRetried ==
    \A e \in Events :
        /\ Len(sent[e]) <= MaxAttempts
        /\ \A i \in DOMAIN sent[e] : i < Len(sent[e]) =>
             /\ sent[e][i].end \in Transient
             /\ sent[e][i].provider = sent[e][i + 1].provider /\ sent[e][i].owner = sent[e][i + 1].owner

(* What Extract reports is what happened: it succeeds with the one backend *)
(* that did, and it fails only after every backend was asked and failed.   *)
TextFrom(e) == {i \in DOMAIN sent[e] : sent[e][i].end = "text"}
ReportIsTrue ==
    \A e \in Events : stage[e] = "done" =>
        /\ outcome[e] = "success" <=> (TextFrom(e) # {} \/ local[e] = "success")
        /\ ~ (TextFrom(e) # {} /\ local[e] = "success")
        /\ outcome[e] # "success" => /\ "local" \in {Chain[i] : i \in DOMAIN Chain} => local[e] # "none"
                                     /\ turn[e] = Len(Chain)

(* Every extraction ends, whatever the providers answer and whenever the   *)
(* bridge is stopped: a worker waits for a Retry-After, a backoff, a       *)
(* timeout, but not for ever.                                              *)
ExtractionEnds == \A e \in Events : (stage[e] # "new") ~> (stage[e] = "done")
=============================================================================
