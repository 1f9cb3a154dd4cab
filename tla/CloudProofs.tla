---------------------------- MODULE CloudProofs ----------------------------
(***************************************************************************)
(* The extraction backends for any number of events and of attempts: types,*)
(* whose key a request carries, what is retried, and what is reported.     *)
(***************************************************************************)
EXTENDS CloudExtraction, SequenceTheorems, TLAPS

(* The chain has one backend or two different ones, and a cloud extractor  *)
(* in it knows its provider.                                               *)
Built == Buildable(server.backend)

LEMMA ChainIsShort ==
    ASSUME Built
    PROVE  /\ Len(Chain) \in {1, 2}
           /\ \A i \in 1..Len(Chain) : Chain[i] \in Backends
           /\ \A i \in 1..Len(Chain) : Chain[i] = "cloud" => server.default \in Providers
           /\ Len(Chain) = 2 => Chain[1] # Chain[2]
<1>1. CASE server.fallback # server.backend /\ Buildable(server.fallback)
  <2>1. /\ Chain = <<server.backend, server.fallback>>
    BY <1>1 DEF Chain
  <2> QED
    BY <1>1, <2>1 DEF Built, Buildable
<1>2. CASE ~ (server.fallback # server.backend /\ Buildable(server.fallback))
  <2>1. Chain = <<server.backend>>
    BY <1>2 DEF Chain
  <2> QED
    BY <2>1 DEF Built, Buildable
<1> QED
  BY <1>1, <1>2

LEMMA StampedIsBrought ==
    ASSUME TypeOK, NEW e \in Events
    PROVE  /\ Stamped(e).key \in Providers \union {"none"}
           /\ Stamped(e).provider = Stamped(e).key
           /\ Stamped(e).key = "none" <=> request[e].keys = {}
           /\ Stamped(e).key # "none" => Stamped(e).key \in request[e].keys
<1>1. request[e].keys \subseteq {"anthropic", "openai"}
  BY DEF TypeOK, Requests, Providers
<1>2. CASE "openai" \in request[e].keys
  <2>1. Stamped(e) = [provider |-> "openai", key |-> "openai"]
    BY <1>2 DEF Stamped
  <2> QED
    BY <1>2, <2>1 DEF Providers
<1>3. CASE "openai" \notin request[e].keys /\ "anthropic" \in request[e].keys
  <2>1. Stamped(e) = [provider |-> "anthropic", key |-> "anthropic"]
    BY <1>3 DEF Stamped
  <2> QED
    BY <1>3, <2>1 DEF Providers
<1>4. CASE "openai" \notin request[e].keys /\ "anthropic" \notin request[e].keys
  <2>1. Stamped(e) = [provider |-> "none", key |-> "none"]
    BY <1>4 DEF Stamped
  <2> QED
    BY <1>1, <1>4, <2>1
<1> QED
  BY <1>2, <1>3, <1>4

(* What a request carries, if it may be sent at all. *)
LEMMA KeyIsRight ==
    ASSUME TypeOK, NEW e \in Events, HasKey(e)
    PROVE  /\ Provider(e) \in Providers /\ KeyOf(e) \in Providers \union {"server"}
           /\ KeyOf(e) = "server" => request[e].keys = {} /\ Provider(e) \in server.keys
           /\ KeyOf(e) # "server" => KeyOf(e) = Provider(e) /\ KeyOf(e) \in request[e].keys
<1>1. server.keys \subseteq Providers
  BY DEF TypeOK, Servers
<1> QED
  BY <1>1, StampedIsBrought DEF HasKey, KeyOf, Provider, Providers

-----------------------------------------------------------------------------
(* Where an extraction stands: which backend its stage belongs to, ...     *)
AtBackend(e) ==
    /\ turn[e] \in 1..Len(Chain)
    /\ stage[e] = "new" => turn[e] = 1
    /\ stage[e] \in {"extract", "send", "open", "wait"} => Chain[turn[e]] = "cloud"
    /\ stage[e] \in {"container", "calling"} => Chain[turn[e]] = "local"
    /\ stage[e] = "failed" => turn[e] < Len(Chain)

(* ... what it has sent, ...                                               *)
SentSoFar(e) ==
    /\ Len(sent[e]) <= MaxAttempts
    /\ sent[e] # <<>> => HasKey(e)
    /\ \A i \in 1..Len(sent[e]) : /\ sent[e][i].provider = Provider(e)
                                  /\ sent[e][i].owner = KeyOf(e)
                                  /\ i < Len(sent[e]) => sent[e][i].end \in Transient
    /\ stage[e] \in {"new", "extract"} => sent[e] = <<>>
    /\ turn[e] = 1 /\ Chain[1] = "local" => sent[e] = <<>>
    /\ stage[e] \in {"send", "open", "wait"} => HasKey(e)
    /\ stage[e] \in {"send", "wait"} =>
         /\ Len(sent[e]) < MaxAttempts
         /\ \A i \in 1..Len(sent[e]) : sent[e][i].end \in Transient
    /\ stage[e] = "open" => sent[e] # <<>> /\ sent[e][Len(sent[e])].end = "open"

(* ... and what has come of it.                                            *)
Found(e) == local[e] = "success" \/ \E i \in 1..Len(sent[e]) : sent[e][i].end = "text"

ResultSoFar(e) ==
    /\ stage[e] # "done" => ~ Found(e)
    /\ stage[e] = "done" => (outcome[e] = "success" <=> Found(e))
    /\ stage[e] = "done" /\ outcome[e] # "success" => turn[e] = Len(Chain)
    /\ local[e] = "success" => \A i \in 1..Len(sent[e]) : sent[e][i].end # "text"
    /\ stage[e] \in {"new", "container", "calling"} => local[e] = "none"
    /\ turn[e] = 1 /\ Chain[1] = "cloud" => local[e] = "none"
    /\ turn[e] = 2 /\ Chain[1] = "local" => local[e] # "none"
    /\ stage[e] \in {"failed", "done"} /\ Chain[turn[e]] = "local" => local[e] # "none"

Placed(e) == AtBackend(e) /\ SentSoFar(e) /\ ResultSoFar(e)
Inv == TypeOK /\ Built /\ \A e \in Events : Placed(e)

(* The configuration and the requests do not change.                       *)
LEMMA SameChoices ==
    ASSUME UNCHANGED <<server, request>>
    PROVE  /\ Chain' = Chain /\ (Built' <=> Built)
           /\ \A e : /\ Provider(e)' = Provider(e) /\ KeyOf(e)' = KeyOf(e)
                     /\ HasKey(e)' <=> HasKey(e)
<1>1. \A kind : Buildable(kind)' <=> Buildable(kind)
  BY DEF Buildable
<1>2. \A e : Stamped(e)' = Stamped(e)
  BY DEF Stamped
<1> QED
  BY <1>1, <1>2 DEF Chain, Built, Provider, KeyOf, HasKey

(* A step leaves alone what it does not update.                            *)
LEMMA OthersStayPlaced ==
    ASSUME Inv, UNCHANGED <<server, request>>, NEW f \in Events,
           turn'[f] = turn[f], stage'[f] = stage[f], outcome'[f] = outcome[f],
           sent'[f] = sent[f], local'[f] = local[f]
    PROVE  Placed(f)'
<1>1. AtBackend(f)'
  BY SameChoices DEF AtBackend, Inv, Placed
<1>2. SentSoFar(f)'
  BY SameChoices DEF SentSoFar, Inv, Placed
<1>3. ResultSoFar(f)'
  BY SameChoices DEF ResultSoFar, Found, Inv, Placed
<1> QED
  BY <1>1, <1>2, <1>3 DEF Placed

LEMMA OneMoves ==
    ASSUME Inv, NEW e \in Events, UNCHANGED <<server, request>>, TypeOK', Placed(e)',
           \A f \in Events \ {e} : /\ turn'[f] = turn[f] /\ stage'[f] = stage[f]
                                   /\ outcome'[f] = outcome[f] /\ sent'[f] = sent[f]
                                   /\ local'[f] = local[f]
    PROVE  Inv'
<1>1. \A f \in Events \ {e} : Placed(f)'
  BY OthersStayPlaced
<1>2. Built'
  BY SameChoices DEF Inv
<1> QED
  BY <1>1, <1>2 DEF Inv

(* A backend that fails ends the extraction or hands it on.                *)
LEMMA FailMoves ==
    ASSUME Inv, NEW e \in Events, NEW result \in {"failure", "error"}, Fail(e, result)
    PROVE  /\ UNCHANGED turn
           /\ stage' \in [Events -> Stages] /\ outcome' \in [Events -> {"none", "success", "failure", "error"}]
           /\ \A f \in Events \ {e} : stage'[f] = stage[f] /\ outcome'[f] = outcome[f]
           /\ \/ stage'[e] = "failed" /\ turn[e] < Len(Chain)
              \/ stage'[e] = "done" /\ turn[e] = Len(Chain) /\ outcome'[e] # "success"
<1>1. turn[e] \in 1..Len(Chain) /\ Len(Chain) \in {1, 2}
  BY ChainIsShort DEF Inv, Placed, AtBackend
<1>2. CASE turn[e] = Len(Chain)
  <2>1. /\ stage' = [stage EXCEPT ![e] = "done"]
        /\ outcome' = [outcome EXCEPT ![e] = result]
        /\ UNCHANGED turn
    BY <1>2 DEF Fail, Return, Goto
  <2>2. stage \in [Events -> Stages] /\ outcome \in [Events -> {"none", "success", "failure", "error"}]
    BY DEF Inv, TypeOK
  <2> QED
    BY <1>2, <2>1, <2>2 DEF Stages
<1>3. CASE turn[e] # Len(Chain)
  <2>1. stage' = [stage EXCEPT ![e] = "failed"] /\ UNCHANGED <<turn, outcome>>
    BY <1>3 DEF Fail, Goto
  <2>2. stage \in [Events -> Stages] /\ outcome \in [Events -> {"none", "success", "failure", "error"}]
    BY DEF Inv, TypeOK
  <2>3. turn[e] < Len(Chain)
    BY <1>1, <1>3
  <2> QED
    BY <2>1, <2>2, <2>3 DEF Stages
<1> QED
  BY <1>2, <1>3

LEMMA AskKeeps ==
    ASSUME Inv, NEW e \in Events, Extract(e) \/ FailOver(e) PROVE Inv'
<1> DEFINE i == IF stage[e] = "new" THEN 1 ELSE turn[e] + 1
<1>1. Ask(e, i) /\ stage[e] \in {"new", "failed"}
  BY DEF Extract, FailOver
<1>2. i \in 1..Len(Chain) /\ Len(Chain) \in {1, 2} /\ Chain[i] \in {"cloud", "local"}
  BY <1>1, ChainIsShort DEF Inv, Placed, AtBackend, Backends
<1>3. /\ turn'[e] = i /\ stage'[e] = (IF Chain[i] = "cloud" THEN "extract" ELSE "container")
      /\ UNCHANGED <<server, request, outcome, sent, local, stopping>> /\ TypeOK'
  BY <1>1, <1>2 DEF Ask, Goto, Inv, TypeOK, Stages
<1>4. i = 2 => Chain[1] # Chain[2] /\ stage[e] = "failed" /\ turn[e] = 1 /\ Len(Chain) = 2
  BY <1>1, <1>2, ChainIsShort DEF Inv, Placed, AtBackend
<1>5. Placed(e) /\ Chain[1] \in {"cloud", "local"}
  BY <1>2, ChainIsShort DEF Inv, Backends
<1>6. AtBackend(e)'
  BY <1>2, <1>3, SameChoices DEF AtBackend
<1>0. i = 1 => stage[e] = "new"
  BY <1>1, <1>2, <1>5 DEF Placed, AtBackend
<1>7. SentSoFar(e)'
  <2>1. Chain[i] = "cloud" => sent[e] = <<>>
    BY <1>0, <1>1, <1>2, <1>4, <1>5 DEF Placed, SentSoFar, AtBackend
  <2>2. i = 1 => sent[e] = <<>>
    BY <1>0, <1>5 DEF Placed, SentSoFar
  <2> QED
    BY <1>3, <1>5, <2>1, <2>2, SameChoices DEF Placed, SentSoFar
<1>8. ResultSoFar(e)'
  <2>1. Chain[i] = "local" => local[e] = "none"
    BY <1>0, <1>1, <1>2, <1>4, <1>5 DEF Placed, ResultSoFar
  <2>2. i = 2 /\ Chain[1] = "local" => local[e] # "none"
    BY <1>4, <1>5 DEF Placed, ResultSoFar
  <2>3. i = 1 => local[e] = "none"
    BY <1>0, <1>5 DEF Placed, ResultSoFar
  <2> QED
    BY <1>1, <1>2, <1>3, <1>5, <2>1, <2>2, <2>3, SameChoices DEF Placed, ResultSoFar, Found
<1> QED
  BY <1>1, <1>3, <1>6, <1>7, <1>8, OneMoves DEF Placed, Ask, Goto, Inv, TypeOK

LEMMA PrepareKeeps ==
    ASSUME Inv, NEW e \in Events, Prepare(e) PROVE Inv'
<1>1. /\ stage[e] = "extract" /\ UNCHANGED <<server, request, sent, local, stopping>> /\ Placed(e)
  BY DEF Prepare, At, Inv
<1>2. sent[e] = <<>> /\ Chain[turn[e]] = "cloud" /\ ~ Found(e)
  BY <1>1 DEF Placed, SentSoFar, AtBackend, ResultSoFar
<1>3. CASE Goto(e, "send") /\ HasKey(e) /\ UNCHANGED <<turn, outcome>>
  <2>1. stage'[e] = "send" /\ TypeOK' /\ \A f \in Events \ {e} : stage'[f] = stage[f]
    BY <1>1, <1>3 DEF Goto, Inv, TypeOK, Stages
  <2>2. AtBackend(e)'
    BY <1>1, <1>2, <1>3, <2>1, SameChoices DEF Placed, AtBackend
  <2>3. SentSoFar(e)'
    BY <1>1, <1>2, <1>3, <2>1, SameChoices, AttemptsAssumption DEF Placed, SentSoFar
  <2>4. ResultSoFar(e)'
    BY <1>1, <1>2, <1>3, <2>1, SameChoices DEF Placed, ResultSoFar, Found
  <2> QED
    BY <1>1, <1>3, <2>1, <2>2, <2>3, <2>4, OneMoves DEF Placed
<1>4. CASE Fail(e, "failure")
  <2>1. TypeOK'
    BY <1>1, <1>4, FailMoves DEF Inv, TypeOK
  <2>2. AtBackend(e)' /\ SentSoFar(e)' /\ ResultSoFar(e)'
    BY <1>1, <1>2, <1>4, FailMoves, SameChoices DEF Placed, AtBackend, SentSoFar, ResultSoFar, Found
  <2> QED
    BY <1>1, <1>4, <2>1, <2>2, FailMoves, OneMoves DEF Placed
<1> QED
  BY <1>3, <1>4 DEF Prepare

LEMMA SendKeeps ==
    ASSUME Inv, NEW e \in Events, Send(e) PROVE Inv'
<1> DEFINE r == [provider |-> Provider(e), owner |-> KeyOf(e), end |-> "open"]
<1>1. /\ stage[e] = "send" /\ UNCHANGED <<server, request, turn, outcome, local, stopping>>
      /\ Placed(e) /\ HasKey(e)
  BY DEF Send, At, Inv, Placed, SentSoFar
<1>2. r \in Sendings /\ sent[e] \in Seq(Sendings)
  BY <1>1, KeyIsRight DEF Sendings, Inv, TypeOK
<1>3. /\ sent'[e] = Append(sent[e], r) /\ stage'[e] = "open" /\ sent' \in [Events -> Seq(Sendings)]
      /\ stage' \in [Events -> Stages]
      /\ \A f \in Events \ {e} : stage'[f] = stage[f] /\ sent'[f] = sent[f]
  <2>1. Append(sent[e], r) \in Seq(Sendings)
    BY <1>2
  <2> QED
    BY <2>1 DEF Send, Goto, Inv, TypeOK, Stages
<1>4. TypeOK'
  BY <1>1, <1>3 DEF Inv, TypeOK
<1>5. /\ Len(sent'[e]) = Len(sent[e]) + 1 /\ Len(sent[e]) \in Nat
      /\ \A i \in 1..Len(sent[e]) : sent'[e][i] = sent[e][i]
      /\ sent'[e][Len(sent[e]) + 1] = r
  BY <1>2, <1>3
<1>6. AtBackend(e)'
  BY <1>1, <1>3, SameChoices DEF Placed, AtBackend
<1>7. SentSoFar(e)'
  <2>1. Len(sent[e]) < MaxAttempts /\ \A i \in 1..Len(sent[e]) : sent[e][i].end \in Transient
    BY <1>1 DEF Placed, SentSoFar
  <2>2. Len(sent'[e]) <= MaxAttempts
    BY <1>5, <2>1, AttemptsAssumption
  <2>0. sent'[e] # <<>>
    BY <1>2, <1>3
  <2>3. ASSUME NEW i \in 1..Len(sent'[e])
        PROVE  /\ sent'[e][i].provider = Provider(e) /\ sent'[e][i].owner = KeyOf(e)
               /\ i < Len(sent'[e]) => sent'[e][i].end \in Transient
    <3>1. CASE i \in 1..Len(sent[e])
      <4>1. sent[e][i].provider = Provider(e) /\ sent[e][i].owner = KeyOf(e)
        BY <1>1, <3>1 DEF Placed, SentSoFar
      <4> QED
        BY <1>5, <2>1, <3>1, <4>1
    <3>2. CASE i = Len(sent[e]) + 1
      <4>1. sent'[e][i] = r /\ i = Len(sent'[e])
        BY <1>5, <3>2
      <4> QED
        BY <1>5, <4>1
    <3> QED
      BY <1>5, <3>1, <3>2
  <2>4. turn[e] = 1 => Chain[1] = "cloud"
    BY <1>1 DEF Placed, AtBackend
  <2>5. sent'[e][Len(sent'[e])].end = "open"
    BY <1>5
  <2>6. Chain' = Chain /\ Provider(e)' = Provider(e) /\ KeyOf(e)' = KeyOf(e) /\ (HasKey(e)' <=> HasKey(e))
    BY <1>1, SameChoices
  <2>7. /\ Len(sent'[e]) <= MaxAttempts /\ HasKey(e)'
        /\ \A i \in 1..Len(sent'[e]) : /\ sent'[e][i].provider = Provider(e)'
                                       /\ sent'[e][i].owner = KeyOf(e)'
                                       /\ i < Len(sent'[e]) => sent'[e][i].end \in Transient
    BY <1>1, <2>2, <2>3, <2>6
  <2>8. /\ stage'[e] = "open" /\ ~ (turn'[e] = 1 /\ Chain'[1] = "local")
    BY <1>1, <1>3, <2>4, <2>6
  <2> QED
    BY <2>0, <2>5, <2>7, <2>8 DEF SentSoFar
<1>8. ResultSoFar(e)'
  BY <1>1, <1>3, <1>5, SameChoices DEF Placed, ResultSoFar, Found
<1> QED
  BY <1>1, <1>3, <1>4, <1>6, <1>7, <1>8, OneMoves DEF Placed

LEMMA AnswerKeeps ==
    ASSUME Inv, NEW e \in Events, NEW end \in Transient \union Final, Answer(e, end) PROVE Inv'
<1> DEFINE n == Len(sent[e])
           retried == end \in Transient /\ n < MaxAttempts
<1>1. /\ stage[e] = "open" /\ UNCHANGED <<server, request, local, stopping>>
      /\ Placed(e) /\ sent[e] # <<>> /\ sent[e] \in Seq(Sendings)
      /\ sent' = [sent EXCEPT ![e] = [sent[e] EXCEPT ![n] = [sent[e][n] EXCEPT !.end = end]]]
  BY DEF Answer, Settle, At, Inv, TypeOK, Placed, SentSoFar
<1>2. n \in Nat /\ n >= 1
  BY <1>1
<1>3. /\ sent' \in [Events -> Seq(Sendings)] /\ Len(sent'[e]) = n /\ sent'[e] # <<>>
      /\ \A i \in 1..n : /\ i < n => sent'[e][i] = sent[e][i]
                         /\ sent'[e][i].provider = sent[e][i].provider
                         /\ sent'[e][i].owner = sent[e][i].owner
      /\ sent'[e][n].end = end
      /\ \A f \in Events \ {e} : sent'[f] = sent[f]
  <2> DEFINE r == [sent[e][n] EXCEPT !.end = end]
             s == [sent[e] EXCEPT ![n] = r]
  <2>1. sent[e][n] \in Sendings
    BY <1>1, <1>2
  <2>2. r \in Sendings /\ r.end = end /\ r.provider = sent[e][n].provider /\ r.owner = sent[e][n].owner
    BY <2>1 DEF Sendings
  <2>3. s \in Seq(Sendings) /\ Len(s) = n /\ s[n] = r /\ \A i \in 1..n : i # n => s[i] = sent[e][i]
    <3>1. s \in Seq(Sendings) /\ Len(s) = n
      BY <1>1, <1>2, <2>2, ExceptSeq
    <3> HIDE DEF r
    <3>2. DOMAIN sent[e] = 1..n
      BY <1>1
    <3>3. s[n] = r /\ \A i \in 1..n : i # n => s[i] = sent[e][i]
      BY <1>2, <3>2
    <3> QED
      BY <3>1, <3>3
  <2>4. sent'[e] = s /\ sent' = [sent EXCEPT ![e] = s]
    BY <1>1 DEF Inv, TypeOK
  <2> HIDE DEF s, r
  <2>5. sent' \in [Events -> Seq(Sendings)] /\ \A f \in Events \ {e} : sent'[f] = sent[f]
    BY <2>3, <2>4 DEF Inv, TypeOK
  <2>6. sent'[e] # <<>>
    BY <1>2, <2>3, <2>4
  <2> QED
    BY <1>2, <2>2, <2>3, <2>4, <2>5, <2>6
<1> HIDE DEF n
<1>4. Chain[turn[e]] = "cloud" /\ ~ Found(e) /\ local[e] # "success"
  BY <1>1 DEF Placed, AtBackend, ResultSoFar, Found
<1>5. \A i \in 1..n : i < n => sent[e][i].end \in Transient /\ sent'[e][i].end # "text"
  BY <1>1, <1>3 DEF n, Placed, SentSoFar, Transient
<1>6. n <= MaxAttempts /\ HasKey(e) /\ \A i \in 1..n : sent[e][i].provider = Provider(e) /\ sent[e][i].owner = KeyOf(e)
  BY <1>1 DEF n, Placed, SentSoFar
<1>7. ~ (turn[e] = 1 /\ Chain[1] = "local")
  BY <1>4
<1>8. CASE end = "text"
  <2>1. Return(e, "success")
    BY <1>8 DEF Answer, Settle
  <2>2. /\ turn' = turn /\ stage'[e] = "done" /\ outcome'[e] = "success" /\ TypeOK'
        /\ \A f \in Events \ {e} : stage'[f] = stage[f] /\ outcome'[f] = outcome[f]
    BY <1>1, <1>3, <2>1 DEF Return, Goto, Inv, TypeOK, Stages
  <2>3. AtBackend(e)'
    BY <1>1, <2>2, SameChoices DEF Placed, AtBackend
  <2>4. SentSoFar(e)'
    BY <1>1, <1>2, <1>3, <1>5, <1>6, <1>7, <2>2, SameChoices DEF SentSoFar
  <2>5. ResultSoFar(e)'
    BY <1>1, <1>2, <1>3, <1>4, <1>8, <2>2, SameChoices DEF Placed, ResultSoFar, Found
  <2> QED
    BY <1>1, <1>3, <2>2, <2>3, <2>4, <2>5, OneMoves DEF Placed
<1>9. CASE end # "text" /\ retried
  <2>1. Goto(e, "wait") /\ UNCHANGED <<turn, outcome>>
    BY <1>9 DEF Answer, Settle, n
  <2>2. /\ stage'[e] = "wait" /\ TypeOK' /\ \A f \in Events \ {e} : stage'[f] = stage[f]
    BY <1>1, <1>3, <2>1 DEF Goto, Inv, TypeOK, Stages
  <2>3. AtBackend(e)'
    BY <1>1, <2>1, <2>2, SameChoices DEF Placed, AtBackend
  <2>4. \A i \in 1..n : sent'[e][i].end \in Transient
    BY <1>2, <1>3, <1>5, <1>9
  <2>5. SentSoFar(e)'
    BY <1>1, <1>2, <1>3, <1>6, <1>7, <1>9, <2>1, <2>2, <2>4, SameChoices DEF SentSoFar
  <2>6. ResultSoFar(e)'
    BY <1>1, <1>3, <1>4, <2>1, <2>2, <2>4, SameChoices DEF Placed, ResultSoFar, Found, Transient
  <2> QED
    BY <1>1, <1>3, <2>1, <2>2, <2>3, <2>5, <2>6, OneMoves DEF Placed
<1>10. CASE end # "text" /\ ~ retried
  <2>1. Fail(e, "failure")
    BY <1>10 DEF Answer, Settle, n
  <2>2. TypeOK'
    BY <1>1, <1>3, <2>1, FailMoves DEF Inv, TypeOK
  <2>3. AtBackend(e)'
    BY <1>1, <2>1, FailMoves, SameChoices DEF Placed, AtBackend
  <2>4. SentSoFar(e)'
    BY <1>1, <1>2, <1>3, <1>5, <1>6, <1>7, <2>1, FailMoves, SameChoices DEF SentSoFar
  <2>5. \A i \in 1..n : sent'[e][i].end # "text"
    BY <1>2, <1>3, <1>5, <1>10
  <2>6. ResultSoFar(e)'
    BY <1>1, <1>3, <1>4, <2>1, <2>5, FailMoves, SameChoices DEF Placed, ResultSoFar, Found
  <2> QED
    BY <1>1, <1>3, <2>1, <2>2, <2>3, <2>4, <2>6, FailMoves, OneMoves DEF Placed
<1> QED
  BY <1>8, <1>9, <1>10

(* The other steps send nothing. *)
LEMMA WaitOverKeeps ==
    ASSUME Inv, NEW e \in Events, WaitOver(e) PROVE Inv'
<1>1. /\ stage[e] = "wait" /\ stage'[e] = "send" /\ Placed(e) /\ TypeOK'
      /\ UNCHANGED <<server, request, turn, outcome, sent, local, stopping>>
      /\ \A f \in Events \ {e} : stage'[f] = stage[f]
  BY DEF WaitOver, At, Goto, Inv, TypeOK, Stages
<1>2. AtBackend(e)' /\ SentSoFar(e)' /\ ResultSoFar(e)'
  BY <1>1, SameChoices DEF Placed, AtBackend, SentSoFar, ResultSoFar, Found
<1> QED
  BY <1>1, <1>2, OneMoves DEF Placed

LEMMA CallKeeps ==
    ASSUME Inv, NEW e \in Events, Call(e) PROVE Inv'
<1>1. /\ stage[e] = "container" /\ stage'[e] = "calling" /\ Placed(e) /\ TypeOK'
      /\ UNCHANGED <<server, request, turn, outcome, sent, local, stopping>>
      /\ \A f \in Events \ {e} : stage'[f] = stage[f]
  BY DEF Call, At, Goto, Inv, TypeOK, Stages
<1>2. AtBackend(e)' /\ SentSoFar(e)' /\ ResultSoFar(e)'
  BY <1>1, SameChoices DEF Placed, AtBackend, SentSoFar, ResultSoFar, Found
<1> QED
  BY <1>1, <1>2, OneMoves DEF Placed

(* The container's result is the first, and its failure ends it or hands on. *)
LEMMA LocalFails ==
    ASSUME Inv, NEW e \in Events, NEW result \in {"failure", "error"},
           stage[e] \in {"container", "calling"}, Fail(e, result),
           local' = [local EXCEPT ![e] = result],
           UNCHANGED <<server, request, sent, stopping>>
    PROVE  Inv'
<1>1. /\ Placed(e) /\ local'[e] = result /\ \A f \in Events \ {e} : local'[f] = local[f]
      /\ local' \in [Events -> {"none", "success", "failure", "error"}]
  BY DEF Inv, TypeOK
<1>2. TypeOK'
  BY <1>1, FailMoves DEF Inv, TypeOK
<1>3. Chain[turn[e]] = "local" /\ ~ Found(e)
  BY <1>1 DEF Placed, AtBackend, ResultSoFar
<1>4. AtBackend(e)'
  BY <1>1, FailMoves, SameChoices DEF Placed, AtBackend
<1>5. SentSoFar(e)'
  BY <1>1, FailMoves, SameChoices DEF Placed, SentSoFar
<1>6. ResultSoFar(e)'
  BY <1>1, <1>3, FailMoves, SameChoices DEF Placed, ResultSoFar, Found
<1> QED
  BY <1>1, <1>2, <1>4, <1>5, <1>6, FailMoves, OneMoves DEF Placed

LEMMA ReplyKeeps ==
    ASSUME Inv, NEW e \in Events, NEW result \in {"success", "failure", "error"}, Reply(e, result)
    PROVE  Inv'
<1>1. /\ stage[e] = "calling" /\ UNCHANGED <<server, request, sent, stopping>>
      /\ local' = [local EXCEPT ![e] = result]
  BY DEF Reply, At
<1>2. CASE result # "success"
  BY <1>1, <1>2, LocalFails DEF Reply
<1>3. CASE result = "success"
  <2>1. /\ stage'[e] = "done" /\ outcome'[e] = "success" /\ local'[e] = "success" /\ turn' = turn
        /\ TypeOK' /\ \A f \in Events \ {e} : /\ stage'[f] = stage[f] /\ outcome'[f] = outcome[f]
                                              /\ local'[f] = local[f]
    BY <1>1, <1>3 DEF Reply, Return, Goto, Inv, TypeOK, Stages
  <2>2. Placed(e) /\ Chain[turn[e]] = "local"
    BY <1>1 DEF Inv, Placed, AtBackend
  <2>3. \A i \in 1..Len(sent[e]) : sent[e][i].end # "text"
    BY <1>1, <2>2 DEF Placed, ResultSoFar, Found
  <2>4. AtBackend(e)' /\ SentSoFar(e)' /\ ResultSoFar(e)'
    BY <1>1, <2>1, <2>2, <2>3, SameChoices DEF Placed, AtBackend, SentSoFar, ResultSoFar, Found
  <2> QED
    BY <1>1, <2>1, <2>4, OneMoves DEF Placed
<1> QED
  BY <1>2, <1>3

LEMMA CancelKeeps ==
    ASSUME Inv, NEW e \in Events, Cancel(e) PROVE Inv'
<1>1. CASE stage[e] = "container"
  BY <1>1, LocalFails DEF Cancel, At
<1>2. CASE stage[e] \in {"send", "wait"}
  <2>1. /\ UNCHANGED <<server, request, sent, local, stopping>> /\ Fail(e, "failure") /\ Placed(e)
    BY <1>2 DEF Cancel, At, Inv
  <2>2. TypeOK'
    BY <2>1, FailMoves DEF Inv, TypeOK
  <2>3. Chain[turn[e]] = "cloud" /\ ~ Found(e)
    BY <1>2, <2>1 DEF Placed, AtBackend, ResultSoFar
  <2>4. AtBackend(e)' /\ SentSoFar(e)' /\ ResultSoFar(e)'
    BY <1>2, <2>1, <2>3, FailMoves, SameChoices DEF Placed, AtBackend, SentSoFar, ResultSoFar, Found
  <2> QED
    BY <2>1, <2>2, <2>4, FailMoves, OneMoves DEF Placed
<1> QED
  BY <1>1, <1>2 DEF Cancel, At

-----------------------------------------------------------------------------
LEMMA InitEstablishes == Init => Inv
<1> SUFFICES ASSUME Init PROVE Inv
  OBVIOUS
<1>1. \A e \in Events : turn[e] = 1 /\ stage[e] = "new" /\ sent[e] = <<>> /\ local[e] = "none"
  BY DEF Init
<1>2. TypeOK /\ Built
  <2>1. <<>> \in Seq(Sendings)
    OBVIOUS
  <2>2. sent \in [Events -> Seq(Sendings)] /\ turn \in [Events -> {1, 2}]
    BY <2>1 DEF Init
  <2> QED
    BY <2>2 DEF Init, TypeOK, Built, Stages
<1>3. ASSUME NEW e \in Events PROVE Placed(e)
  <2>1. Len(sent[e]) = 0 /\ ~ Found(e)
    BY <1>1 DEF Found
  <2>2. Len(Chain) \in {1, 2}
    BY <1>2, ChainIsShort
  <2>3. AtBackend(e)
    BY <1>1, <2>2 DEF AtBackend
  <2>4. SentSoFar(e)
    BY <1>1, <2>1, AttemptsAssumption DEF SentSoFar
  <2>5. ResultSoFar(e)
    BY <1>1, <2>1 DEF ResultSoFar, Found
  <2> QED
    BY <2>3, <2>4, <2>5 DEF Placed
<1> QED
  BY <1>2, <1>3 DEF Inv

LEMMA NextKeeps == Inv /\ [Next]_vars => Inv'
<1> SUFFICES ASSUME Inv, [Next]_vars PROVE Inv'
  OBVIOUS
<1>1. ASSUME NEW e \in Events, Proceed(e) PROVE Inv'
  BY <1>1, AskKeeps, PrepareKeeps, SendKeeps, AnswerKeeps, WaitOverKeeps, CallKeeps, ReplyKeeps,
     CancelKeeps DEF Proceed
<1>2. ASSUME UNCHANGED <<server, request, turn, stage, outcome, sent, local>>, stopping' \in BOOLEAN
      PROVE Inv'
  <2>1. TypeOK' /\ Built'
    BY <1>2, SameChoices DEF Inv, TypeOK
  <2>2. \A f \in Events : Placed(f)'
    BY <1>2, OthersStayPlaced
  <2> QED
    BY <2>1, <2>2 DEF Inv
<1>3. CASE Stop
  BY <1>2, <1>3 DEF Stop
<1>4. CASE UNCHANGED vars
  BY <1>2, <1>4 DEF vars, Inv, TypeOK
<1> QED
  BY <1>1, <1>3, <1>4 DEF Next

LEMMA InvAlways == Spec => []Inv
  BY InitEstablishes, NextKeeps, PTL DEF Spec

(* Types, for any number of events (the variables of newExtractor,         *)
(* fallbackExtractor and callProvider).                                    *)
THEOREM TypeInvariant == Spec => []TypeOK
<1>1. Inv => TypeOK
  BY DEF Inv
<1> QED
  BY <1>1, InvAlways, PTL

(* A key is sent only to its provider, by every request callProviderOnce   *)
(* makes.                                                                  *)
THEOREM KeysKept == Spec => []KeysStayTheirOwn
<1>1. Inv => KeysStayTheirOwn
  <2> SUFFICES ASSUME Inv, NEW e \in Events, NEW i \in DOMAIN sent[e]
               PROVE  IF sent[e][i].owner = "server"
                      THEN request[e].keys = {} /\ sent[e][i].provider \in server.keys
                      ELSE /\ sent[e][i].owner = sent[e][i].provider
                           /\ sent[e][i].owner \in request[e].keys
    BY DEF KeysStayTheirOwn
  <2>1. i \in 1..Len(sent[e]) /\ sent[e] # <<>>
    BY DEF Inv, TypeOK
  <2> QED
    BY <2>1, KeyIsRight DEF Inv, Placed, SentSoFar
<1> QED
  BY <1>1, InvAlways, PTL

(* callProvider repeats a request only after an error that may pass.       *)
THEOREM RetriesKept == Spec => []OnlyTransientIsRetried
<1>1. Inv => OnlyTransientIsRetried
  <2>1. ASSUME Inv, NEW e \in Events PROVE DOMAIN sent[e] = 1..Len(sent[e]) /\ Len(sent[e]) \in Nat
    BY <2>1 DEF Inv, TypeOK
  <2>2. ASSUME Inv, NEW e \in Events, NEW i \in 1..Len(sent[e]), i < Len(sent[e])
        PROVE  /\ sent[e][i].end \in Transient
               /\ sent[e][i].provider = sent[e][i + 1].provider
               /\ sent[e][i].owner = sent[e][i + 1].owner
    <3>1. i + 1 \in 1..Len(sent[e])
      BY <2>1, <2>2
    <3> QED
      BY <2>2, <3>1 DEF Inv, Placed, SentSoFar
  <2>3. ASSUME Inv, NEW e \in Events PROVE Len(sent[e]) <= MaxAttempts
    BY <2>3 DEF Inv, Placed, SentSoFar
  <2> QED
    BY <2>1, <2>2, <2>3 DEF OnlyTransientIsRetried
<1> QED
  BY <1>1, InvAlways, PTL

(* The result the bridge gets is what happened at the backends.            *)
THEOREM ReportKept == Spec => []ReportIsTrue
<1>1. Inv => ReportIsTrue
  <2> SUFFICES ASSUME Inv, NEW e \in Events, stage[e] = "done"
               PROVE  /\ outcome[e] = "success" <=> (TextFrom(e) # {} \/ local[e] = "success")
                      /\ ~ (TextFrom(e) # {} /\ local[e] = "success")
                      /\ outcome[e] # "success" =>
                            /\ "local" \in {Chain[i] : i \in DOMAIN Chain} => local[e] # "none"
                            /\ turn[e] = Len(Chain)
    BY DEF ReportIsTrue
  <2>1. Placed(e) /\ turn[e] \in 1..Len(Chain) /\ Len(Chain) \in {1, 2}
    BY ChainIsShort DEF Inv, Placed, AtBackend
  <2>2. TextFrom(e) # {} <=> \E i \in 1..Len(sent[e]) : sent[e][i].end = "text"
    <3>1. DOMAIN sent[e] = 1..Len(sent[e])
      BY DEF Inv, TypeOK
    <3> QED
      BY <3>1 DEF TextFrom
  <2>3. DOMAIN Chain = 1..Len(Chain)
    <3>1. CASE server.fallback # server.backend /\ Buildable(server.fallback)
      BY <3>1 DEF Chain
    <3>2. CASE ~ (server.fallback # server.backend /\ Buildable(server.fallback))
      <4>1. Chain = <<server.backend>>
        BY <3>2 DEF Chain
      <4> QED
        BY <4>1
    <3> QED
      BY <3>1, <3>2
  <2>4. ASSUME outcome[e] # "success", NEW i \in DOMAIN Chain, Chain[i] = "local"
        PROVE  local[e] # "none"
    BY <2>1, <2>3, <2>4 DEF Placed, ResultSoFar
  <2> QED
    BY <2>1, <2>2, <2>4 DEF Placed, ResultSoFar, Found
<1> QED
  BY <1>1, InvAlways, PTL
=============================================================================
