--------------------------- MODULE ExtractorProofs ---------------------------
(* Type correctness of Extractor, that calls which do not meet carry       *)
(* nothing over, and what calls leave behind in /tmp, for any number of    *)
(* threads, documents and layouts.                                         *)
EXTENDS Extractor, TLAPS

(* A thread that is not idle has a document. *)
LEMMA BusyHasDocument ==
    ASSUME TypeOK, NEW h \in Handlers, step[h] # "idle"
    PROVE  doc[h] \in Documents /\ {doc[h]} \subseteq Documents
  BY DEF TypeOK, ThreadsTyped, CallTyped

(* A returning call leaves typed locals behind. *)
LEMMA ReturnTyped ==
    ASSUME ThreadsTyped, NEW h \in Handlers, Return(h)
    PROVE  ThreadsTyped'
<1>1. step' \in [Handlers -> Steps] /\ doc' \in [Handlers -> Documents \union {NoDocument}]
  BY DEF Return, GoTo, ThreadsTyped, Steps
<1>2. key' \in [Handlers -> Layouts \union {"none"}] /\ answer' \in [Handlers -> SUBSET Documents]
  BY DEF Return, ThreadsTyped
<1>3. connected' \in [Handlers -> BOOLEAN] /\ hit' \in [Handlers -> BOOLEAN]
  BY DEF Return, ThreadsTyped
<1>4. progress' \in [Handlers -> Nat]
  BY DEF Return, ThreadsTyped
<1> QED
  BY <1>1, <1>2, <1>3, <1>4 DEF ThreadsTyped

(* So does LabelFields, whatever its answer was made from. *)
LEMMA LabeledTyped ==
    ASSUME TypeOK, NEW h \in Handlers, step[h] \in Labeling, NEW from \in SUBSET Documents,
           Labeled(h, from), UNCHANGED <<doc, key, connected, hit>>
    PROVE  ThreadsTyped' /\ \A g \in Handlers : CallTyped(g)'
<1>1. ThreadsTyped
  BY DEF TypeOK
<1>2. step' \in [Handlers -> Steps]
  BY <1>1 DEF Labeled, GoTo, ThreadsTyped, Steps
<1>3. answer' \in [Handlers -> SUBSET Documents]
  BY <1>1 DEF Labeled, Answers, ThreadsTyped
<1>4. progress' \in [Handlers -> Nat]
  BY <1>1 DEF Labeled, ThreadsTyped
<1>5. ThreadsTyped'
  BY <1>1, <1>2, <1>3, <1>4 DEF ThreadsTyped
<1>6. ASSUME NEW g \in Handlers, g # h PROVE CallTyped(g)'
  BY <1>1, <1>6 DEF TypeOK, Labeled, GoTo, ThreadsTyped, CallTyped
<1>7. CallTyped(h)'
  BY <1>1 DEF TypeOK, Labeled, GoTo, ThreadsTyped, CallTyped, Labeling, Transcribing
<1> QED
  BY <1>5, <1>6, <1>7

(* Files, cache, model context and threads are well typed. *)
THEOREM TypeInvariant == Spec => []TypeOK
<1>1. Init => TypeOK
  <2> SUFFICES ASSUME Init PROVE TypeOK
    OBVIOUS
  <2>1. StoresTyped
    <3>1. /\ file \in [Documents -> {"absent", "partial", "whole"}]
          /\ copies \subseteq AudioFiles /\ failed \subseteq AudioFiles
      BY DEF Init
    <3>2. cache \in [Layouts -> SUBSET Documents] /\ context \subseteq Documents /\ logits \subseteq Documents
      BY DEF Init
    <3>3. requests \in 0..MaxRequests /\ crashes \in 0..MaxCrashes
      BY NumbersAssumption DEF Init
    <3>4. loaded \in BOOLEAN /\ mingled \in BOOLEAN /\ shared \in BOOLEAN
      BY DEF Init
    <3> QED
      BY <3>1, <3>2, <3>3, <3>4 DEF StoresTyped
  <2>2. ThreadsTyped
    BY DEF Init, ThreadsTyped, Steps
  <2>3. \A h \in Handlers : CallTyped(h)
    BY DEF Init, CallTyped, Labeling, Transcribing
  <2> QED
    BY <2>1, <2>2, <2>3 DEF TypeOK
<1>2. TypeOK /\ [Next]_vars => TypeOK'
  <2> SUFFICES ASSUME TypeOK, [Next]_vars PROVE TypeOK'
    OBVIOUS
  <2> USE NumbersAssumption, DocumentsAssumption DEF At, GoTo, Answers, files, history, bounds
  <2>1. CASE UNCHANGED vars
    BY <2>1 DEF vars, thread, TypeOK, StoresTyped, ThreadsTyped, CallTyped
  <2>2. CASE Crash
    <3>1. StoresTyped'
      <4>1. requests' \in 0..MaxRequests /\ crashes' \in 0..MaxCrashes
        BY <2>2 DEF Crash, TypeOK, StoresTyped
      <4>2. loaded' \in BOOLEAN /\ mingled' \in BOOLEAN /\ shared' \in BOOLEAN
        BY Zenon, <2>2 DEF Crash, TypeOK, StoresTyped
      <4> QED
        BY <2>2, <4>1, <4>2 DEF Crash, TypeOK, StoresTyped
    <3>2. ThreadsTyped'
      BY <2>2 DEF Crash, ThreadsTyped, Steps
    <3>3. \A g \in Handlers : CallTyped(g)'
      BY <2>2 DEF Crash, CallTyped, Labeling, Transcribing
    <3> QED
      BY <3>1, <3>2, <3>3 DEF TypeOK
  <2>3. ASSUME NEW h \in Handlers, NEW d \in Documents, Receive(h, d) PROVE TypeOK'
    <3>1. StoresTyped'
      <4>1. shared' \in BOOLEAN
        BY Zenon, <2>3 DEF Receive, TypeOK, StoresTyped
      <4> QED
        BY <2>3, <4>1 DEF Receive, TypeOK, StoresTyped
    <3>2. ThreadsTyped'
      BY <2>3 DEF Receive, TypeOK, StoresTyped, ThreadsTyped, CallTyped, Steps, Labeling
    <3>3. ASSUME NEW g \in Handlers PROVE CallTyped(g)'
      BY <2>3 DEF Receive, TypeOK, ThreadsTyped, CallTyped, Labeling, Transcribing
    <3> QED
      BY <3>1, <3>2, <3>3 DEF TypeOK
  <2>4. ASSUME NEW h \in Handlers, Download(h) PROVE TypeOK'
    <3>1. StoresTyped'
      <4>1. doc[h] \in Documents
        BY <2>4, BusyHasDocument DEF Download
      <4>2. file' \in [Documents -> {"absent", "partial", "whole"}]
        BY <2>4, <4>1 DEF Download, TypeOK, StoresTyped
      <4> QED
        BY <2>4, <4>2 DEF Download, TypeOK, StoresTyped
    <3>2. ThreadsTyped'
      <4>1. CASE Return(h)
        BY <4>1, ReturnTyped DEF TypeOK
      <4>2. CASE GoTo(h, "writing") /\ UNCHANGED <<doc, key, connected, answer, hit, progress>>
        BY <4>2 DEF TypeOK, ThreadsTyped, Steps
      <4> QED
        BY <2>4, <4>1, <4>2 DEF Download
    <3>3. ASSUME NEW g \in Handlers PROVE CallTyped(g)'
      BY <2>4 DEF Download, Return, TypeOK, ThreadsTyped, CallTyped, Labeling, Transcribing
    <3> QED
      BY <3>1, <3>2, <3>3 DEF TypeOK
  <2>5. ASSUME NEW h \in Handlers, Write(h) PROVE TypeOK'
    <3>1. StoresTyped'
      <4>1. file' \in [Documents -> {"absent", "partial", "whole"}]
        BY <2>5 DEF Write, TypeOK, StoresTyped
      <4> QED
        BY <2>5, <4>1 DEF Write, TypeOK, StoresTyped
    <3>2. ThreadsTyped'
      BY <2>5 DEF Write, TypeOK, StoresTyped, ThreadsTyped, CallTyped, Steps, Labeling
    <3>3. ASSUME NEW g \in Handlers PROVE CallTyped(g)'
      BY <2>5 DEF Write, TypeOK, ThreadsTyped, CallTyped, Labeling, Transcribing
    <3> QED
      BY <3>1, <3>2, <3>3 DEF TypeOK
  <2>6. ASSUME NEW h \in Handlers, Read(h) PROVE TypeOK'
    <3>1. StoresTyped'
      BY <2>6 DEF Read, TypeOK, StoresTyped
    <3>2. ThreadsTyped'
      <4>1. doc[h] \in Documents /\ {doc[h]} \subseteq Documents
        BY <2>6, BusyHasDocument DEF Read
      <4>2. Fingerprint(doc[h]) \in Layouts
        BY <4>1 DEF Fingerprint
      <4>3. key' \in [Handlers -> Layouts \union {"none"}]
        <5>1. CASE UNCHANGED key
          BY <5>1 DEF TypeOK, ThreadsTyped
        <5>2. CASE \E l \in Layouts : key' = [key EXCEPT ![h] = l]
          BY <5>2 DEF TypeOK, ThreadsTyped
        <5> QED
          BY <2>6, <4>2, <5>1, <5>2 DEF Read
      <4>4. step' \in [Handlers -> Steps]
        BY <2>6 DEF Read, TypeOK, ThreadsTyped, Steps
      <4>5. UNCHANGED <<doc, connected, answer, hit, progress>>
        BY <2>6 DEF Read
      <4> QED
        BY <4>3, <4>4, <4>5 DEF TypeOK, ThreadsTyped
    <3>3. ASSUME NEW g \in Handlers PROVE CallTyped(g)'
      <4>1. CASE g # h
        BY <2>6, <4>1 DEF Read, TypeOK, ThreadsTyped, CallTyped
      <4>2. CASE g = h /\ step'[h] = "looking up"
        <5>1. Fingerprint(doc[h]) \in Layouts
          BY <2>6, BusyHasDocument DEF Fingerprint, Read
        <5>2. PICK l \in Layouts : key' = [key EXCEPT ![h] = l]
          BY <2>6, <4>2, <5>1 DEF Read, TypeOK, ThreadsTyped
        <5>3. doc[h] \notin AudioFiles
          BY <2>6 DEF Read, Transcribes
        <5> QED
          BY <2>6, <4>2, <5>2, <5>3 DEF Read, TypeOK, ThreadsTyped, CallTyped, Labeling, Transcribing
      <4>3. CASE g = h /\ step'[h] # "looking up"
        BY <2>6, <4>3 DEF Read, TypeOK, ThreadsTyped, CallTyped, Labeling, Transcribing
      <4> QED
        BY <4>1, <4>2, <4>3
    <3> QED
      BY <3>1, <3>2, <3>3 DEF TypeOK
  <2>7. ASSUME NEW h \in Handlers, LookUp(h) PROVE TypeOK'
    <3>1. StoresTyped'
      BY <2>7 DEF LookUp, StartLabeling, TypeOK, StoresTyped, ThreadsTyped, CallTyped, Steps
    <3>2. ThreadsTyped'
      <4>1. doc[h] \in Documents /\ {doc[h]} \subseteq Documents
        BY <2>7, BusyHasDocument DEF LookUp
      <4>2. key[h] \in Layouts
        BY <2>7 DEF LookUp, TypeOK, CallTyped
      <4>3. connected' \in [Handlers -> BOOLEAN] /\ hit' \in [Handlers -> BOOLEAN]
        BY <2>7 DEF LookUp, TypeOK, ThreadsTyped
      <4>4. answer' \in [Handlers -> SUBSET Documents]
        <5>1. \/ UNCHANGED answer \/ answer' = [answer EXCEPT ![h] = {doc[h]}]
              \/ answer' = [answer EXCEPT ![h] = cache[key[h]]]
          BY <2>7 DEF LookUp, StartLabeling
        <5>2. cache[key[h]] \in SUBSET Documents
          BY <4>2 DEF TypeOK, StoresTyped
        <5> QED
          BY <4>1, <5>1, <5>2 DEF TypeOK, ThreadsTyped
      <4>5. step' \in [Handlers -> Steps]
        BY <2>7 DEF LookUp, StartLabeling, TypeOK, ThreadsTyped, Steps, Labeling
      <4>6. UNCHANGED <<doc, key, progress>>
        BY <2>7 DEF LookUp
      <4> QED
        BY <4>3, <4>4, <4>5, <4>6 DEF TypeOK, ThreadsTyped
    <3>3. ASSUME NEW g \in Handlers PROVE CallTyped(g)'
      BY <2>7 DEF LookUp, StartLabeling, TypeOK, ThreadsTyped, CallTyped, Labeling, Transcribing
    <3> QED
      BY <3>1, <3>2, <3>3 DEF TypeOK
  <2>8. ASSUME NEW h \in Handlers, Clear(h) PROVE TypeOK'
    <3>1. StoresTyped'
      BY <2>8 DEF Clear, Labeled, TypeOK, StoresTyped, ThreadsTyped, CallTyped, Steps
    <3>2. ThreadsTyped' /\ \A g \in Handlers : CallTyped(g)'
      <4>1. CASE GoTo(h, "prompting") /\ UNCHANGED <<answer, progress>>
        <5>1. ThreadsTyped'
          BY <2>8, <4>1 DEF Clear, TypeOK, ThreadsTyped, Steps, Labeling
        <5>2. ASSUME NEW g \in Handlers PROVE CallTyped(g)'
          <6>1. UNCHANGED <<doc, key>>
            BY <2>8 DEF Clear
          <6>2. CASE g # h
            BY <4>1, <6>1, <6>2 DEF TypeOK, ThreadsTyped, CallTyped
          <6>3. CASE g = h
            <7>1. step[h] = "clearing" /\ step'[h] = "prompting" /\ progress'[h] = progress[h]
              BY <2>8, <4>1 DEF Clear, TypeOK, ThreadsTyped
            <7>2. CallTyped(h)
              BY DEF TypeOK
            <7>3. progress[h] = 0
              BY <7>1, <7>2 DEF CallTyped
            <7>4. 0 < MaxBatches
              BY NumbersAssumption
            <7> QED
              BY <6>1, <6>3, <7>1, <7>2, <7>3, <7>4 DEF CallTyped, Labeling, Transcribing
          <6> QED
            BY <6>2, <6>3
        <5> QED
          BY <5>1, <5>2
      <4>2. CASE Labeled(h, {doc[h]})
        BY <2>8, <4>2, BusyHasDocument, LabeledTyped DEF Clear, Labeling
      <4> QED
        BY <2>8, <4>1, <4>2 DEF Clear
    <3> QED
      BY <3>1, <3>2 DEF TypeOK
  <2>9. ASSUME NEW h \in Handlers, Prompt(h) PROVE TypeOK'
    <3>1. StoresTyped'
      BY <2>9 DEF Prompt, Labeled, Decode, TypeOK, StoresTyped, ThreadsTyped, CallTyped, Steps
    <3>2. ThreadsTyped' /\ \A g \in Handlers : CallTyped(g)'
      <4>1. CASE UNCHANGED answer /\ UNCHANGED step /\ progress[h] + 1 < MaxBatches
                 /\ progress' = [progress EXCEPT ![h] = @ + 1]
        <5>1. ThreadsTyped'
          BY <2>9, <4>1 DEF Prompt, TypeOK, ThreadsTyped
        <5>2. ASSUME NEW g \in Handlers PROVE CallTyped(g)'
          BY <2>9, <4>1 DEF Prompt, TypeOK, ThreadsTyped, CallTyped, Labeling, Transcribing
        <5> QED
          BY <5>1, <5>2
      <4>2. CASE UNCHANGED answer /\ progress' = [progress EXCEPT ![h] = 0] /\ GoTo(h, "generating")
        <5>1. ThreadsTyped'
          BY <2>9, <4>2 DEF Prompt, TypeOK, ThreadsTyped, Steps, Labeling
        <5>2. ASSUME NEW g \in Handlers PROVE CallTyped(g)'
          <6>1. UNCHANGED <<doc, key>>
            BY <2>9 DEF Prompt
          <6>2. CASE g # h
            BY <4>2, <6>1, <6>2 DEF TypeOK, ThreadsTyped, CallTyped
          <6>3. CASE g = h
            <7>1. step[h] = "prompting" /\ step'[h] = "generating" /\ progress'[h] = 0
              BY <2>9, <4>2 DEF Prompt, TypeOK, ThreadsTyped
            <7>2. CallTyped(h)
              BY DEF TypeOK
            <7>3. 0 <= MaxTokens
              BY NumbersAssumption
            <7> QED
              BY <6>1, <6>3, <7>1, <7>2, <7>3 DEF CallTyped, Labeling, Transcribing
          <6> QED
            BY <6>2, <6>3
        <5> QED
          BY <5>1, <5>2
      <4>3. CASE Labeled(h, {doc[h]})
        BY <2>9, <4>3, BusyHasDocument, LabeledTyped DEF Prompt, Labeling
      <4> QED
        BY <2>9, <4>1, <4>2, <4>3 DEF Prompt
    <3> QED
      BY <3>1, <3>2 DEF TypeOK
  <2>10. ASSUME NEW h \in Handlers, Generate(h) PROVE TypeOK'
    <3>1. StoresTyped'
      BY <2>10 DEF Generate, Labeled, Decode, TypeOK, StoresTyped, ThreadsTyped, CallTyped, Steps
    <3>2. ThreadsTyped' /\ \A g \in Handlers : CallTyped(g)'
      <4>1. CASE /\ progress[h] < MaxTokens /\ Answers(h, answer[h] \union logits)
                 /\ progress' = [progress EXCEPT ![h] = @ + 1] /\ UNCHANGED step
        <5>1. answer' \in [Handlers -> SUBSET Documents]
          BY <4>1 DEF TypeOK, StoresTyped, ThreadsTyped
        <5>2. ThreadsTyped'
          BY <2>10, <4>1, <5>1 DEF Generate, TypeOK, ThreadsTyped
        <5>3. ASSUME NEW g \in Handlers PROVE CallTyped(g)'
          <6>1. UNCHANGED <<doc, key>>
            BY <2>10 DEF Generate
          <6>2. CASE g # h
            BY <4>1, <6>1, <6>2 DEF TypeOK, ThreadsTyped, CallTyped
          <6>3. CASE g = h
            <7>1. step[h] = "generating" /\ step'[h] = step[h] /\ progress'[h] = progress[h] + 1
              BY <2>10, <4>1 DEF Generate, TypeOK, ThreadsTyped
            <7>2. progress[h] + 1 <= MaxTokens
              BY <4>1, NumbersAssumption DEF TypeOK, ThreadsTyped
            <7> QED
              BY <6>1, <6>3, <7>1, <7>2 DEF TypeOK, CallTyped, Labeling, Transcribing
          <6> QED
            BY <6>2, <6>3
        <5> QED
          BY <5>2, <5>3
      <4>2. ASSUME NEW from \in {answer[h], {doc[h]}}, Labeled(h, from) PROVE
                ThreadsTyped' /\ \A g \in Handlers : CallTyped(g)'
        <5>1. from \in SUBSET Documents
          BY <2>10, BusyHasDocument DEF Generate, TypeOK, ThreadsTyped
        <5> QED
          BY <2>10, <4>2, <5>1, LabeledTyped DEF Generate, Labeling
      <4> QED
        BY <2>10, <4>1, <4>2 DEF Generate
    <3> QED
      BY <3>1, <3>2 DEF TypeOK
  <2>11. ASSUME NEW h \in Handlers, Store(h) PROVE TypeOK'
    <3>1. StoresTyped'
      <4>1. cache \in [Layouts -> SUBSET Documents] /\ answer[h] \subseteq Documents
        BY DEF TypeOK, StoresTyped, ThreadsTyped
      <4>2. step[h] = "storing" /\ key[h] \in Layouts
        BY <2>11 DEF Store, TypeOK, CallTyped
      <4>3. cache' \in [Layouts -> SUBSET Documents]
        BY <2>11, <4>1, <4>2 DEF Store
      <4>4. UNCHANGED <<loaded, files, context, logits, history, bounds>>
        BY <2>11 DEF Store
      <4> QED
        BY <4>3, <4>4 DEF TypeOK, StoresTyped
    <3>2. ThreadsTyped'
      BY <2>11 DEF Store, TypeOK, StoresTyped, ThreadsTyped, CallTyped, Steps, Labeling
    <3>3. ASSUME NEW g \in Handlers PROVE CallTyped(g)'
      BY <2>11 DEF Store, TypeOK, ThreadsTyped, CallTyped, Labeling, Transcribing
    <3> QED
      BY <3>1, <3>2, <3>3 DEF TypeOK
  <2>12. ASSUME NEW h \in Handlers, Remove(h) PROVE TypeOK'
    <3>1. StoresTyped'
      BY <2>12 DEF Remove, Return, TypeOK, StoresTyped, ThreadsTyped, CallTyped, Steps
    <3>2. ThreadsTyped'
      BY <2>12 DEF Remove, Return, TypeOK, StoresTyped, ThreadsTyped, CallTyped, Steps, Labeling
    <3>3. ASSUME NEW g \in Handlers PROVE CallTyped(g)'
      BY <2>12 DEF Remove, Return, TypeOK, ThreadsTyped, CallTyped, Labeling, Transcribing
    <3> QED
      BY <3>1, <3>2, <3>3 DEF TypeOK
  <2>13. ASSUME NEW h \in Handlers, Convert(h) PROVE TypeOK'
    <3>0. /\ step[h] = "reading" /\ doc[h] \in AudioFiles
          /\ UNCHANGED <<loaded, file, cache, context, logits, doc, key, connected, answer, hit, progress,
                         shared, bounds>>
      BY <2>13 DEF Convert, Transcribes
    <3>1. StoresTyped'
      <4>1. mingled' \in BOOLEAN
        BY Zenon, <2>13 DEF Convert, TypeOK, StoresTyped
      <4>2. copies' \subseteq AudioFiles /\ failed' \subseteq AudioFiles
        BY <2>13, <3>0 DEF Convert, TypeOK, StoresTyped
      <4> QED
        BY <3>0, <4>1, <4>2 DEF TypeOK, StoresTyped
    <3>2. PICK s \in Transcribing \union {"removing"} : step' = [step EXCEPT ![h] = s]
      BY <2>13 DEF Convert, Transcribing
    <3>3. ThreadsTyped'
      BY <3>0, <3>2 DEF TypeOK, ThreadsTyped, Steps
    <3>4. ASSUME NEW g \in Handlers PROVE CallTyped(g)'
      <4>1. CASE g # h
        BY <3>0, <3>2, <4>1 DEF TypeOK, ThreadsTyped, CallTyped
      <4>2. CASE g = h
        <5>1. step'[h] = s
          BY <3>2 DEF TypeOK, ThreadsTyped
        <5> QED
          BY <3>0, <4>2, <5>1 DEF TypeOK, CallTyped, Labeling, Transcribing
      <4> QED
        BY <4>1, <4>2
    <3> QED
      BY <3>1, <3>3, <3>4 DEF TypeOK
  <2>14. ASSUME NEW h \in Handlers, Transcribe(h) PROVE TypeOK'
    <3>0. /\ step[h] \in Transcribing /\ doc[h] \in AudioFiles /\ doc[h] \in Documents
          /\ UNCHANGED <<loaded, file, cache, context, logits, doc, key, connected, hit, progress,
                         shared, bounds>>
      BY <2>14 DEF Transcribe, TypeOK, CallTyped
    <3>1. StoresTyped'
      <4>1. mingled' \in BOOLEAN
        <5>1. UNCHANGED mingled \/ StartLabeling(h, "removing")
          BY <2>14 DEF Transcribe
        <5> QED
          BY Zenon, <5>1 DEF StartLabeling, TypeOK, StoresTyped
      <4>2. copies' \subseteq AudioFiles /\ failed' \subseteq AudioFiles
        BY <2>14, <3>0 DEF Transcribe, TypeOK, StoresTyped
      <4> QED
        BY <3>0, <4>1, <4>2 DEF TypeOK, StoresTyped
    <3>2. PICK s \in {"clearing", "removing"} : step' = [step EXCEPT ![h] = s]
      BY <2>14 DEF Transcribe, StartLabeling
    <3>3. ThreadsTyped'
      <4>1. UNCHANGED answer \/ answer' = [answer EXCEPT ![h] = {doc[h]}]
        BY <2>14 DEF Transcribe, StartLabeling
      <4>2. answer' \in [Handlers -> SUBSET Documents]
        BY <3>0, <4>1 DEF TypeOK, ThreadsTyped
      <4> QED
        BY <3>0, <3>2, <4>2 DEF TypeOK, ThreadsTyped, Steps, Labeling
    <3>4. ASSUME NEW g \in Handlers PROVE CallTyped(g)'
      <4>1. CASE g # h
        BY <3>0, <3>2, <4>1 DEF TypeOK, ThreadsTyped, CallTyped
      <4>2. CASE g = h
        <5>1. step'[h] = s
          BY <3>2 DEF TypeOK, ThreadsTyped
        <5> QED
          BY <3>0, <4>2, <5>1 DEF TypeOK, CallTyped, Labeling, Transcribing
      <4> QED
        BY <4>1, <4>2
    <3> QED
      BY <3>1, <3>3, <3>4 DEF TypeOK
  <2> QED
    BY <2>1, <2>2, <2>3, <2>4, <2>5, <2>6, <2>7, <2>8, <2>9, <2>10, <2>11, <2>12, <2>13, <2>14
    DEF Next, Handle
<1> QED
  BY <1>1, <1>2, PTL DEF Spec

(* A thread's work stays its own as long as nobody writes the file it is   *)
(* about to read or the context it works in.                               *)
LEMMA UndisturbedWork ==
    ASSUME NEW g \in Handlers, OwnWork(g),
           step'[g] = step[g], doc'[g] = doc[g], key'[g] = key[g], hit'[g] = hit[g],
           answer'[g] = answer[g],
           step[g] = "reading" => file'[doc[g]] = file[doc[g]],
           step[g] \in {"prompting", "generating"} => context' = context /\ logits' = logits
    PROVE  OwnWork(g)'
  BY DEF OwnWork, Alike, Labeling

(* Threads stay apart when one goes on with its own document, or drops it, *)
(* and does not start to label.                                            *)
LEMMA StaysApart ==
    ASSUME Apart, NEW h \in Handlers,
           \A g \in Handlers : g # h => doc'[g] = doc[g] /\ step'[g] = step[g],
           doc'[h] \in {doc[h], NoDocument},
           step'[h] \in Labeling => step[h] \in Labeling
    PROVE  Apart'
  BY DEF Apart

(* The other threads do not move. *)
OthersStay(h) ==
    \A g \in Handlers : g # h =>
        /\ step'[g] = step[g] /\ doc'[g] = doc[g] /\ key'[g] = key[g]
        /\ hit'[g] = hit[g] /\ answer'[g] = answer[g]

(* A thread touches its own file, and the context only while it labels. *)
TouchesOwn(h) ==
    /\ \A d \in Documents : d # doc[h] => file'[d] = file[d]
    /\ UNCHANGED <<context, logits>> \/ step[h] \in Labeling

LEMMA OthersWorkOn ==
    ASSUME TypeOK, Apart, NEW h \in Handlers, step[h] # "idle", OthersStay(h), TouchesOwn(h),
           NEW g \in Handlers, g # h, OwnWork(g)
    PROVE  OwnWork(g)'
<1>1. step[g] = "reading" => file'[doc[g]] = file[doc[g]]
  <2> SUFFICES ASSUME step[g] = "reading" PROVE file'[doc[g]] = file[doc[g]]
    OBVIOUS
  <2>1. doc[g] \in Documents
    BY BusyHasDocument
  <2>2. doc[g] # doc[h]
    BY <2>1, DocumentsAssumption DEF Apart
  <2> QED
    BY <2>1, <2>2 DEF TouchesOwn
<1>2. step[g] \in {"prompting", "generating"} => context' = context /\ logits' = logits
  BY DEF TouchesOwn, Apart, Labeling
<1> QED
  BY <1>1, <1>2, UndisturbedWork DEF OthersStay

(* A call that returns leaves nothing behind in its thread. *)
LEMMA ReturnedWork ==
    ASSUME ThreadsTyped, NEW h \in Handlers, Return(h)
    PROVE  OwnWork(h)' /\ step'[h] = "idle" /\ doc'[h] = NoDocument
  BY DEF ThreadsTyped, Return, GoTo, OwnWork, Labeling

(* LabelFields answers with what is of the thread's document. *)
LEMMA LabeledWork ==
    ASSUME TypeOK, NEW h \in Handlers, OwnWork(h), step[h] \in Labeling,
           NEW from \in SUBSET {doc[h]}, Labeled(h, from), UNCHANGED <<doc, key, hit>>
    PROVE  OwnWork(h)'
<1>1. doc'[h] = doc[h] /\ key'[h] = key[h] /\ hit'[h] = hit[h] /\ answer'[h] = from
  BY DEF Labeled, Answers, TypeOK, ThreadsTyped
<1>2. step'[h] = IF doc[h] \in AudioFiles THEN "removing" ELSE "storing"
  BY DEF Labeled, GoTo, TypeOK, ThreadsTyped
<1>3. ~hit[h]
  BY DEF OwnWork, Labeling
<1> QED
  BY <1>1, <1>2, <1>3 DEF OwnWork, Labeling

(* The history variables only grow. *)
LEMMA SeparateBefore ==
    ASSUME [Next]_vars, Separate'
    PROVE  Separate
<1>1. CASE UNCHANGED vars
  BY <1>1 DEF vars, history, Separate
<1>2. CASE Crash
  BY <1>2 DEF Crash, history, Separate
<1>3. ASSUME NEW h \in Handlers, NEW d \in Documents, Receive(h, d) PROVE Separate
  BY <1>3 DEF Receive, Separate
<1>4. ASSUME NEW h \in Handlers, Convert(h) \/ Transcribe(h) \/ LookUp(h) PROVE Separate
  <2>1. shared' = shared
    BY <1>4 DEF Convert, Transcribe, LookUp
  <2>2. ~mingled' => ~mingled
    <3>1. CASE Convert(h)
      BY <3>1 DEF Convert
    <3>3. CASE Transcribe(h)
      <4>1. UNCHANGED mingled \/ StartLabeling(h, "removing")
        BY <3>3 DEF Transcribe
      <4> QED
        BY <4>1 DEF StartLabeling
    <3>2. CASE LookUp(h)
      <4>1. CASE UNCHANGED mingled
        BY <4>1
      <4>2. CASE StartLabeling(h, "storing")
        BY <4>2 DEF StartLabeling
      <4> QED
        BY <3>2, <4>1, <4>2 DEF LookUp
    <3> QED
      BY <1>4, <3>1, <3>2, <3>3
  <2> QED
    BY <2>1, <2>2 DEF Separate
<1>5. ASSUME NEW h \in Handlers,
             \/ Download(h) \/ Write(h) \/ Read(h) \/ Clear(h) \/ Prompt(h) \/ Generate(h)
             \/ Store(h) \/ Remove(h)
      PROVE  Separate
  <2>1. UNCHANGED history
    BY <1>5 DEF Download, Write, Read, Clear, Prompt, Generate, Store, Remove
  <2> QED
    BY <2>1 DEF history, Separate
<1> QED
  BY <1>1, <1>2, <1>3, <1>4, <1>5 DEF Next, Handle

(* The model's context, the template cache and the temporary files carry   *)
(* nothing from one call into another that it does not meet.               *)
THEOREM CallsStayApart == Spec => []NothingCarriedOver
<1>1. Init => NothingMixed
  BY DocumentsAssumption DEF Init, NothingMixed, Apart, CacheSorted, OwnWork, Labeling
<1>2. TypeOK /\ NothingMixed /\ [Next]_vars => NothingMixed'
  <2> SUFFICES ASSUME TypeOK, NothingMixed, [Next]_vars, Separate'
               PROVE  (Apart /\ CacheSorted /\ \A h \in Handlers : OwnWork(h))'
    BY DEF NothingMixed
  <2> USE DEF files
  <2>1. Apart /\ CacheSorted /\ \A h \in Handlers : OwnWork(h)
    BY SeparateBefore DEF NothingMixed
  <2>2. ASSUME NEW g \in Handlers, NEW h \in Handlers, g # h, step[g] # "idle"
        PROVE  doc[g] # doc[h] /\ ~(step[g] \in Labeling /\ step[h] \in Labeling)
    BY <2>1, <2>2 DEF Apart, TypeOK, CallTyped
  <2>3. CASE UNCHANGED vars
    BY <2>1, <2>3 DEF vars, thread, Apart, CacheSorted, OwnWork, Alike
  <2>4. CASE Crash
    BY <2>1, <2>4, DocumentsAssumption DEF Crash, Apart, CacheSorted, OwnWork, Alike, Labeling
  <2>5. ASSUME NEW h \in Handlers, NEW d \in Documents, Receive(h, d)
        PROVE  (Apart /\ CacheSorted /\ \A g \in Handlers : OwnWork(g))'
    <3>1. UNCHANGED <<file, cache, context, logits, key, hit, answer>>
      BY <2>5 DEF Receive
    <3>2. \A g \in Handlers : doc[g] # d
      BY <2>5 DEF Receive, Separate
    <3>3. step'[h] = "downloading" /\ doc'[h] = d
      BY <2>5 DEF Receive, GoTo, TypeOK, ThreadsTyped
    <3>4. \A g \in Handlers : g # h => step'[g] = step[g] /\ doc'[g] = doc[g]
      BY <2>5 DEF Receive, GoTo, TypeOK, ThreadsTyped
    <3>5. Apart'
      BY <2>1, <3>2, <3>3, <3>4 DEF Apart, Labeling
    <3>6. CacheSorted'
      BY <2>1, <3>1 DEF CacheSorted
    <3>7. ASSUME NEW g \in Handlers, g # h PROVE OwnWork(g)'
      BY <2>1, <3>1, <3>4, <3>7, UndisturbedWork
    <3>8. OwnWork(h)'
      <4>1. ~hit[h] /\ answer[h] = {}
        <5>1. step[h] = "idle" /\ doc[h] = NoDocument
          BY <2>5 DEF Receive, At, TypeOK, CallTyped
        <5>2. ~hit[h] /\ answer[h] \subseteq {NoDocument}
          BY <2>1, <5>1 DEF OwnWork
        <5> QED
          BY <5>2, DocumentsAssumption DEF TypeOK, ThreadsTyped
      <4> QED
        BY <3>1, <3>3, <4>1 DEF OwnWork, Labeling
    <3> QED
      BY <3>5, <3>6, <3>7, <3>8
  <2>6. ASSUME NEW h \in Handlers, Download(h)
        PROVE  (Apart /\ CacheSorted /\ \A g \in Handlers : OwnWork(g))'
    <3>1. step[h] = "downloading" /\ doc[h] \in Documents
      BY <2>6, BusyHasDocument DEF Download, At
    <3>2. OthersStay(h)
      BY <2>6 DEF Download, Return, GoTo, OthersStay, TypeOK, ThreadsTyped
    <3>3. TouchesOwn(h)
      BY <2>6, <3>1 DEF Download, TouchesOwn, Labeling, TypeOK, StoresTyped
    <3>4. Apart'
      <4>1. doc'[h] \in {doc[h], NoDocument} /\ (step'[h] \in Labeling => step[h] \in Labeling)
        BY <2>6, <3>1 DEF Download, Return, GoTo, Labeling, TypeOK, ThreadsTyped
      <4> QED
        BY <2>1, <3>2, <4>1, StaysApart DEF OthersStay
    <3>5. CacheSorted'
      BY <2>1, <2>6 DEF Download, CacheSorted
    <3>6. OwnWork(h)'
      <4>1. CASE Return(h)
        BY <4>1, ReturnedWork DEF TypeOK
      <4>2. CASE GoTo(h, "writing") /\ UNCHANGED <<doc, key, connected, answer, hit, progress>>
        BY <2>1, <3>1, <4>2 DEF OwnWork, GoTo, Labeling, TypeOK, ThreadsTyped
      <4> QED
        BY <2>6, <4>1, <4>2 DEF Download
    <3> QED
      BY <2>1, <3>1, <3>2, <3>3, <3>4, <3>5, <3>6, OthersWorkOn
  <2>7. ASSUME NEW h \in Handlers, Write(h)
        PROVE  (Apart /\ CacheSorted /\ \A g \in Handlers : OwnWork(g))'
    <3>1. step[h] = "writing" /\ doc[h] \in Documents
      BY <2>7, BusyHasDocument DEF Write, At
    <3>2. OthersStay(h)
      BY <2>7 DEF Write, GoTo, OthersStay, TypeOK, ThreadsTyped
    <3>3. TouchesOwn(h)
      BY <2>7, <3>1 DEF Write, TouchesOwn, Labeling, TypeOK, StoresTyped
    <3>4. Apart'
      <4>1. doc'[h] \in {doc[h], NoDocument} /\ (step'[h] \in Labeling => step[h] \in Labeling)
        BY <2>7, <3>1 DEF Write, GoTo, Labeling, TypeOK, ThreadsTyped
      <4> QED
        BY <2>1, <3>2, <4>1, StaysApart DEF OthersStay
    <3>5. CacheSorted'
      BY <2>1, <2>7 DEF Write, CacheSorted
    <3>6. OwnWork(h)'
      <4>1. step'[h] = "reading" /\ UNCHANGED <<doc, key, answer, hit>>
        BY <2>7 DEF Write, GoTo, TypeOK, ThreadsTyped
      <4>2. \A g \in Handlers \ {h} : doc[g] # doc[h]
        BY <2>1, <3>1, DocumentsAssumption DEF Apart
      <4>3. file'[doc[h]] # "partial"
        BY <2>7, <3>1, <4>2 DEF Write, TypeOK, StoresTyped
      <4> QED
        BY <2>1, <3>1, <4>1, <4>3 DEF OwnWork, Labeling
    <3> QED
      BY <2>1, <3>1, <3>2, <3>3, <3>4, <3>5, <3>6, OthersWorkOn
  <2>8. ASSUME NEW h \in Handlers, Read(h)
        PROVE  (Apart /\ CacheSorted /\ \A g \in Handlers : OwnWork(g))'
    <3>1. step[h] = "reading" /\ doc[h] \in Documents
      BY <2>8, BusyHasDocument DEF Read, At
    <3>2. OthersStay(h)
      BY <2>8 DEF Read, GoTo, OthersStay, TypeOK, ThreadsTyped
    <3>3. TouchesOwn(h)
      BY <2>8, <3>1 DEF Read, TouchesOwn, Labeling, TypeOK, StoresTyped
    <3>4. Apart'
      <4>1. doc'[h] \in {doc[h], NoDocument} /\ (step'[h] \in Labeling => step[h] \in Labeling)
        BY <2>8, <3>1 DEF Read, GoTo, Labeling, TypeOK, ThreadsTyped
      <4> QED
        BY <2>1, <3>2, <4>1, StaysApart DEF OthersStay
    <3>5. CacheSorted'
      BY <2>1, <2>8 DEF Read, CacheSorted
    <3>6. OwnWork(h)'
      <4>1. UNCHANGED <<doc, hit>> /\ ~hit[h] /\ answer[h] \subseteq {doc[h]} /\ file[doc[h]] # "partial"
        BY <2>1, <2>8, <3>1 DEF Read, OwnWork
      <4>2. answer'[h] \subseteq {doc[h]}
        BY <2>8, <4>1 DEF Read
      <4>3. step'[h] \in {"looking up", "removing"}
        BY <2>8 DEF Read, GoTo, TypeOK, ThreadsTyped
      <4>4. step'[h] = "looking up" => key'[h] = LayoutOf[doc[h]]
        <5> SUFFICES ASSUME step'[h] = "looking up" PROVE key'[h] = LayoutOf[doc[h]]
          OBVIOUS
        <5>1. file[doc[h]] # "absent"
          BY <2>8 DEF Read, GoTo, TypeOK, ThreadsTyped
        <5>2. file[doc[h]] = "whole"
          BY <3>1, <4>1, <5>1 DEF TypeOK, StoresTyped
        <5>3. key' = [key EXCEPT ![h] = LayoutOf[doc[h]]]
          BY <2>8, <5>2 DEF Read, GoTo, Fingerprint, TypeOK, ThreadsTyped
        <5> QED
          BY <5>3 DEF TypeOK, ThreadsTyped
      <4> QED
        BY <4>1, <4>2, <4>3, <4>4 DEF OwnWork, Labeling
    <3> QED
      BY <2>1, <3>1, <3>2, <3>3, <3>4, <3>5, <3>6, OthersWorkOn
  <2>9. ASSUME NEW h \in Handlers, LookUp(h)
        PROVE  (Apart /\ CacheSorted /\ \A g \in Handlers : OwnWork(g))'
    <3>1. step[h] = "looking up" /\ doc[h] \in Documents
      BY <2>9, BusyHasDocument DEF LookUp, At
    <3>2. OthersStay(h)
      BY <2>9 DEF LookUp, StartLabeling, Answers, GoTo, OthersStay, TypeOK, ThreadsTyped
    <3>3. TouchesOwn(h)
      BY <2>9, <3>1 DEF LookUp, TouchesOwn, Labeling, TypeOK, StoresTyped
    <3>4. Apart'
      <4>1. step'[h] \in Labeling => \A g \in Handlers : g # h => step[g] \notin Labeling
        BY <2>9, <3>1 DEF LookUp, StartLabeling, GoTo, Labeling, Separate, TypeOK, ThreadsTyped
      <4>2. UNCHANGED doc
        BY <2>9 DEF LookUp
      <4> QED
        BY <2>1, <3>2, <4>1, <4>2 DEF Apart, OthersStay
    <3>5. CacheSorted'
      BY <2>1, <2>9 DEF LookUp, CacheSorted
    <3>6. OwnWork(h)'
      <4>1. UNCHANGED <<doc, key>> /\ ~hit[h] /\ answer[h] \subseteq {doc[h]}
        BY <2>1, <2>9, <3>1 DEF LookUp, OwnWork
      <4>2. key[h] = LayoutOf[doc[h]] /\ key[h] \in Layouts
        BY <2>1, <3>1 DEF OwnWork, TypeOK, CallTyped
      <4>3. CASE /\ Answers(h, cache[key[h]])
                 /\ hit' = [hit EXCEPT ![h] = TRUE]
                 /\ GoTo(h, "removing")
        <5>1. answer'[h] \subseteq Alike(doc[h])
          BY <2>1, <3>1, <4>2, <4>3 DEF Answers, CacheSorted, Alike, TypeOK, StoresTyped, ThreadsTyped
        <5>2. hit'[h] /\ step'[h] = "removing"
          BY <4>3 DEF GoTo, TypeOK, ThreadsTyped
        <5> QED
          BY <4>1, <5>1, <5>2 DEF OwnWork, Alike, Labeling
      <4>4. CASE StartLabeling(h, "storing") /\ UNCHANGED hit
        <5>1. answer'[h] \subseteq {doc[h]}
          BY <4>1, <4>4 DEF StartLabeling, Answers, TypeOK, ThreadsTyped
        <5>2. step'[h] \in {"clearing", "storing"}
          BY <4>4 DEF StartLabeling, GoTo, TypeOK, ThreadsTyped
        <5> QED
          BY <4>1, <4>2, <4>4, <5>1, <5>2 DEF OwnWork, Labeling
      <4> QED
        BY <2>9, <4>3, <4>4 DEF LookUp
    <3> QED
      BY <2>1, <3>1, <3>2, <3>3, <3>4, <3>5, <3>6, OthersWorkOn
  <2>10. ASSUME NEW h \in Handlers, Clear(h)
        PROVE  (Apart /\ CacheSorted /\ \A g \in Handlers : OwnWork(g))'
    <3>1. step[h] = "clearing" /\ doc[h] \in Documents
      BY <2>10, BusyHasDocument DEF Clear, At
    <3>2. OthersStay(h)
      BY <2>10 DEF Clear, Labeled, Answers, GoTo, OthersStay, TypeOK, ThreadsTyped
    <3>3. TouchesOwn(h)
      BY <2>10, <3>1 DEF Clear, TouchesOwn, Labeling, TypeOK, StoresTyped
    <3>4. Apart'
      <4>1. doc'[h] \in {doc[h], NoDocument} /\ (step'[h] \in Labeling => step[h] \in Labeling)
        BY <2>10, <3>1 DEF Clear, Labeled, GoTo, Labeling, TypeOK, ThreadsTyped
      <4> QED
        BY <2>1, <3>2, <4>1, StaysApart DEF OthersStay
    <3>5. CacheSorted'
      BY <2>1, <2>10 DEF Clear, CacheSorted
    <3>6. OwnWork(h)'
      <4>1. CASE Labeled(h, {doc[h]})
        BY <2>1, <2>10, <3>1, <4>1, LabeledWork DEF Clear, Labeling
      <4>2. CASE context' = {} /\ GoTo(h, "prompting") /\ UNCHANGED answer
        <5>1. step'[h] = "prompting" /\ UNCHANGED <<doc, key, hit>>
          BY <2>10, <4>2 DEF Clear, GoTo, TypeOK, ThreadsTyped
        <5> QED
          BY <2>1, <3>1, <4>2, <5>1 DEF OwnWork, Labeling
      <4> QED
        BY <2>10, <4>1, <4>2 DEF Clear
    <3> QED
      BY <2>1, <3>1, <3>2, <3>3, <3>4, <3>5, <3>6, OthersWorkOn
  <2>11. ASSUME NEW h \in Handlers, Prompt(h)
        PROVE  (Apart /\ CacheSorted /\ \A g \in Handlers : OwnWork(g))'
    <3>1. step[h] = "prompting" /\ doc[h] \in Documents
      BY <2>11, BusyHasDocument DEF Prompt, At
    <3>2. OthersStay(h)
      BY <2>11 DEF Prompt, Labeled, Answers, Decode, GoTo, OthersStay, TypeOK, ThreadsTyped
    <3>3. TouchesOwn(h)
      BY <2>11, <3>1 DEF Prompt, TouchesOwn, Labeling, TypeOK, StoresTyped
    <3>4. Apart'
      <4>1. doc'[h] \in {doc[h], NoDocument} /\ (step'[h] \in Labeling => step[h] \in Labeling)
        BY <2>11, <3>1 DEF Prompt, Labeled, GoTo, Labeling, TypeOK, ThreadsTyped
      <4> QED
        BY <2>1, <3>2, <4>1, StaysApart DEF OthersStay
    <3>5. CacheSorted'
      BY <2>1, <2>11 DEF Prompt, CacheSorted
    <3>6. OwnWork(h)'
      <4>1. CASE Labeled(h, {doc[h]})
        BY <2>1, <2>11, <3>1, <4>1, LabeledWork DEF Prompt, Labeling
      <4>2. CASE Decode(h) /\ UNCHANGED answer /\ (UNCHANGED step \/ GoTo(h, "generating"))
        <5>1. context' \subseteq {doc[h]} /\ logits' \subseteq {doc[h]}
          BY <2>1, <3>1, <4>2 DEF Decode, OwnWork
        <5>2. step'[h] \in {"prompting", "generating"} /\ UNCHANGED <<doc, key, hit>>
          BY <2>11, <3>1, <4>2 DEF Prompt, GoTo, TypeOK, ThreadsTyped
        <5> QED
          BY <2>1, <3>1, <4>2, <5>1, <5>2 DEF OwnWork, Labeling
      <4> QED
        BY <2>11, <4>1, <4>2 DEF Prompt
    <3> QED
      BY <2>1, <3>1, <3>2, <3>3, <3>4, <3>5, <3>6, OthersWorkOn
  <2>12. ASSUME NEW h \in Handlers, Generate(h)
        PROVE  (Apart /\ CacheSorted /\ \A g \in Handlers : OwnWork(g))'
    <3>1. step[h] = "generating" /\ doc[h] \in Documents
      BY <2>12, BusyHasDocument DEF Generate, At
    <3>2. OthersStay(h)
      BY <2>12 DEF Generate, Labeled, Answers, Decode, GoTo, OthersStay, TypeOK, ThreadsTyped
    <3>3. TouchesOwn(h)
      BY <2>12, <3>1 DEF Generate, TouchesOwn, Labeling, TypeOK, StoresTyped
    <3>4. Apart'
      <4>1. doc'[h] \in {doc[h], NoDocument} /\ (step'[h] \in Labeling => step[h] \in Labeling)
        BY <2>12, <3>1 DEF Generate, Labeled, GoTo, Labeling, TypeOK, ThreadsTyped
      <4> QED
        BY <2>1, <3>2, <4>1, StaysApart DEF OthersStay
    <3>5. CacheSorted'
      BY <2>1, <2>12 DEF Generate, CacheSorted
    <3>6. OwnWork(h)'
      <4>1. ~hit[h] /\ answer[h] \subseteq {doc[h]} /\ context \subseteq {doc[h]} /\ logits \subseteq {doc[h]}
        BY <2>1, <3>1 DEF OwnWork
      <4>2. ASSUME NEW from \in {answer[h], {doc[h]}}, Labeled(h, from) PROVE OwnWork(h)'
        BY <2>1, <2>12, <3>1, <4>1, <4>2, LabeledWork DEF Generate, Labeling
      <4>3. CASE Decode(h) /\ Answers(h, answer[h] \union logits) /\ UNCHANGED step
        <5>1. context' \subseteq {doc[h]} /\ logits' \subseteq {doc[h]}
          BY <4>1, <4>3 DEF Decode
        <5>2. answer'[h] \subseteq {doc[h]}
          BY <4>1, <4>3 DEF Answers, TypeOK, ThreadsTyped
        <5>3. UNCHANGED <<doc, key, hit>>
          BY <2>12 DEF Generate
        <5> QED
          BY <2>1, <3>1, <4>1, <4>3, <5>1, <5>2, <5>3 DEF OwnWork, Labeling
      <4> QED
        BY <2>12, <4>2, <4>3 DEF Generate
    <3> QED
      BY <2>1, <3>1, <3>2, <3>3, <3>4, <3>5, <3>6, OthersWorkOn
  <2>13. ASSUME NEW h \in Handlers, Store(h)
        PROVE  (Apart /\ CacheSorted /\ \A g \in Handlers : OwnWork(g))'
    <3>1. step[h] = "storing" /\ doc[h] \in Documents
      BY <2>13, BusyHasDocument DEF Store, At
    <3>2. OthersStay(h)
      BY <2>13 DEF Store, GoTo, OthersStay, TypeOK, ThreadsTyped
    <3>3. TouchesOwn(h)
      BY <2>13, <3>1 DEF Store, TouchesOwn, Labeling, TypeOK, StoresTyped
    <3>4. Apart'
      <4>1. doc'[h] \in {doc[h], NoDocument} /\ (step'[h] \in Labeling => step[h] \in Labeling)
        BY <2>13, <3>1 DEF Store, GoTo, Labeling, TypeOK, ThreadsTyped
      <4> QED
        BY <2>1, <3>2, <4>1, StaysApart DEF OthersStay
    <3>5. CacheSorted'
      <4>1. key[h] = LayoutOf[doc[h]] /\ ~hit[h] /\ answer[h] \subseteq {doc[h]}
        BY <2>1, <3>1 DEF OwnWork, TypeOK, CallTyped
      <4>2. CASE UNCHANGED cache
        BY <2>1, <4>2 DEF CacheSorted
      <4>3. CASE cache' = [cache EXCEPT ![key[h]] = answer[h]]
        BY <2>1, <4>1, <4>3 DEF CacheSorted, TypeOK, StoresTyped
      <4> QED
        BY <2>13, <4>2, <4>3 DEF Store
    <3>6. OwnWork(h)'
      <4>1. step'[h] = "removing" /\ UNCHANGED <<doc, key, answer, hit>>
        BY <2>13 DEF Store, GoTo, TypeOK, ThreadsTyped
      <4> QED
        BY <2>1, <3>1, <4>1 DEF OwnWork, Alike, Labeling
    <3> QED
      BY <2>1, <3>1, <3>2, <3>3, <3>4, <3>5, <3>6, OthersWorkOn
  <2>14. ASSUME NEW h \in Handlers, Remove(h)
        PROVE  (Apart /\ CacheSorted /\ \A g \in Handlers : OwnWork(g))'
    <3>1. step[h] = "removing" /\ doc[h] \in Documents
      BY <2>14, BusyHasDocument DEF Remove, At
    <3>2. OthersStay(h)
      BY <2>14 DEF Remove, Return, GoTo, OthersStay, TypeOK, ThreadsTyped
    <3>3. TouchesOwn(h)
      BY <2>14, <3>1 DEF Remove, TouchesOwn, Labeling, TypeOK, StoresTyped
    <3>4. Apart'
      <4>1. doc'[h] \in {doc[h], NoDocument} /\ (step'[h] \in Labeling => step[h] \in Labeling)
        BY <2>14, <3>1 DEF Remove, Return, GoTo, Labeling, TypeOK, ThreadsTyped
      <4> QED
        BY <2>1, <3>2, <4>1, StaysApart DEF OthersStay
    <3>5. CacheSorted'
      BY <2>1, <2>14 DEF Remove, CacheSorted
    <3>6. OwnWork(h)'
      BY <2>14, ReturnedWork DEF Remove, TypeOK
    <3> QED
      BY <2>1, <3>1, <3>2, <3>3, <3>4, <3>5, <3>6, OthersWorkOn
  <2>15. ASSUME NEW h \in Handlers, Convert(h)
        PROVE  (Apart /\ CacheSorted /\ \A g \in Handlers : OwnWork(g))'
    <3>1. step[h] = "reading" /\ doc[h] \in Documents
      BY <2>15, BusyHasDocument DEF Convert, At
    <3>2. UNCHANGED <<file, cache, context, logits, doc, key, answer, hit>>
      BY <2>15 DEF Convert
    <3>3. PICK s \in {"removing", "transcribing", "transcribing copy"} : step' = [step EXCEPT ![h] = s]
      BY <2>15 DEF Convert, GoTo
    <3>4. OthersStay(h) /\ TouchesOwn(h) /\ step'[h] = s
      BY <3>2, <3>3 DEF OthersStay, TouchesOwn, TypeOK, ThreadsTyped
    <3>5. Apart'
      <4>1. doc'[h] \in {doc[h], NoDocument} /\ (step'[h] \in Labeling => step[h] \in Labeling)
        BY <3>2, <3>4 DEF Labeling
      <4> QED
        BY <2>1, <3>4, <4>1, StaysApart DEF OthersStay
    <3>6. CacheSorted'
      BY <2>1, <3>2 DEF CacheSorted
    <3>7. OwnWork(h)'
      BY <2>1, <3>1, <3>2, <3>4 DEF OwnWork, Alike, Labeling
    <3> QED
      BY <2>1, <3>1, <3>4, <3>5, <3>6, <3>7, OthersWorkOn
  <2>16. ASSUME NEW h \in Handlers, Transcribe(h)
        PROVE  (Apart /\ CacheSorted /\ \A g \in Handlers : OwnWork(g))'
    <3>1. /\ step[h] \in {"transcribing", "transcribing copy"}
          /\ doc[h] \in Documents /\ doc[h] \in AudioFiles
      BY <2>16, BusyHasDocument DEF Transcribe, Transcribing, TypeOK, CallTyped
    <3>2. UNCHANGED <<file, cache, context, logits, doc, key, hit>>
      BY <2>16 DEF Transcribe
    <3>3. PICK s \in {"removing", "clearing"} : step' = [step EXCEPT ![h] = s]
      BY <2>16 DEF Transcribe, StartLabeling, GoTo
    <3>4. UNCHANGED answer \/ answer' = [answer EXCEPT ![h] = {doc[h]}]
      BY <2>16 DEF Transcribe, StartLabeling, Answers
    <3>5. OthersStay(h) /\ TouchesOwn(h) /\ step'[h] = s
      BY <3>2, <3>3, <3>4 DEF OthersStay, TouchesOwn, TypeOK, ThreadsTyped
    <3>6. Apart'
      <4>1. step'[h] \in Labeling => \A g \in Handlers : g # h => step[g] \notin Labeling
        BY <2>16, <3>1 DEF Transcribe, StartLabeling, GoTo, Labeling, Separate, TypeOK, ThreadsTyped
      <4> QED
        BY <2>1, <3>2, <3>5, <4>1 DEF Apart, OthersStay
    <3>7. CacheSorted'
      BY <2>1, <3>2 DEF CacheSorted
    <3>8. OwnWork(h)'
      <4>1. ~hit[h] /\ answer[h] \subseteq {doc[h]}
        BY <2>1, <3>1 DEF OwnWork
      <4>2. answer'[h] \subseteq {doc[h]}
        BY <3>4, <4>1 DEF TypeOK, ThreadsTyped
      <4> QED
        BY <3>1, <3>2, <3>5, <4>1, <4>2 DEF OwnWork, Labeling
    <3> QED
      BY <2>1, <3>1, <3>5, <3>6, <3>7, <3>8, OthersWorkOn
  <2> QED
    BY <2>3, <2>4, <2>5, <2>6, <2>7, <2>8, <2>9, <2>10, <2>11, <2>12, <2>13, <2>14, <2>15, <2>16
    DEF Next, Handle
<1>3. NothingMixed => NothingCarriedOver
  BY DEF NothingMixed, NothingCarriedOver, Separate, OwnWork
<1> QED
  BY <1>1, <1>2, <1>3, TypeInvariant, PTL DEF Spec

-----------------------------------------------------------------------------
(* A call holds the file of its document from download_file on. A thread   *)
(* stays such a holder in every step but the one that removes the file.    *)
Holding(g, d) == doc[g] = d /\ step[g] # "downloading"

(* What a thread that goes on with its call does to the holders.           *)
LEMMA GoingOnKeepsHolders ==
    ASSUME TypeOK, NEW h \in Handlers, step[h] # "downloading", UNCHANGED doc,
           NEW s \in Steps \ {"downloading"}, step' = [step EXCEPT ![h] = s]
    PROVE  \A d \in Documents, g \in Handlers : Holding(g, d) => Holding(g, d)'
  BY DEF TypeOK, ThreadsTyped, Holding

(* Neither the model nor the cache makes a thread let go of its file.      *)
LEMMA InsideKeepsHolders ==
    ASSUME TypeOK, NEW h \in Handlers,
           \/ Write(h) \/ Read(h) \/ Convert(h) \/ Transcribe(h) \/ LookUp(h) \/ Clear(h)
           \/ Prompt(h) \/ Generate(h) \/ Store(h)
    PROVE  \A d \in Documents, g \in Handlers : Holding(g, d) => Holding(g, d)'
<1>1. step[h] # "downloading" /\ UNCHANGED doc
  BY DEF Write, Read, Convert, Transcribe, Transcribing, LookUp, Clear, Prompt, Generate, Store, At
<1>2. PICK s \in Steps \ {"downloading"} : step' = [step EXCEPT ![h] = s]
  <2> USE DEF At, GoTo, Steps, Labeling, Transcribing
  <2>0. step = [step EXCEPT ![h] = step[h]]
    BY DEF TypeOK, ThreadsTyped
  <2>1. CASE Write(h)
    BY <2>1 DEF Write
  <2>2. CASE Read(h)
    BY <2>2 DEF Read
  <2>8. CASE Convert(h)
    BY <2>8 DEF Convert
  <2>9. CASE Transcribe(h)
    BY <2>9 DEF Transcribe, StartLabeling
  <2>3. CASE LookUp(h)
    BY <2>3 DEF LookUp, StartLabeling
  <2>4. CASE Clear(h)
    BY <2>4 DEF Clear, Labeled
  <2>5. CASE Prompt(h)
    <3>1. UNCHANGED step => step' = [step EXCEPT ![h] = "prompting"]
      BY <2>0, <2>5 DEF Prompt
    <3> QED
      BY <2>5, <3>1 DEF Prompt, Labeled
  <2>6. CASE Generate(h)
    <3>1. UNCHANGED step => step' = [step EXCEPT ![h] = "generating"]
      BY <2>0, <2>6 DEF Generate
    <3> QED
      BY <2>6, <3>1 DEF Generate, Labeled
  <2>7. CASE Store(h)
    BY <2>7 DEF Store
  <2> QED
    BY <2>1, <2>2, <2>3, <2>4, <2>5, <2>6, <2>7, <2>8, <2>9
<1> QED
  BY <1>1, <1>2, GoingOnKeepsHolders

(* A downloaded file that exists belongs to a call that is past its        *)
(* download: every way out of extract_document removes it.                 *)
LEMMA FilesStep ==
    ASSUME TypeOK, FilesAreInUse, [Next]_vars, crashes = 0, crashes' = 0,
           NEW d \in Documents, file'[d] # "absent"
    PROVE  \E g \in Handlers : Holding(g, d)'
<1> USE DEF files
<1>2. ASSUME file[d] # "absent" PROVE \E g \in Handlers : Holding(g, d)
  BY <1>2 DEF FilesAreInUse, Holding
<1>3. CASE UNCHANGED vars
  BY <1>2, <1>3 DEF vars, thread, Holding
<1>4. ASSUME NEW h \in Handlers, NEW e \in Documents, Receive(h, e)
      PROVE  \E g \in Handlers : Holding(g, d)'
  <2>1. file[d] # "absent"
    BY <1>4 DEF Receive
  <2>2. PICK g \in Handlers : Holding(g, d)
    BY <1>2, <2>1
  <2>3. g # h
    BY <1>4, <2>2, DocumentsAssumption DEF Receive, Holding, At, TypeOK, CallTyped
  <2> QED
    BY <1>4, <2>2, <2>3 DEF Receive, Holding, GoTo, TypeOK, ThreadsTyped
<1>5. ASSUME NEW h \in Handlers, Download(h) PROVE \E g \in Handlers : Holding(g, d)'
  <2>1. CASE Return(h) /\ UNCHANGED file
    <3>1. PICK g \in Handlers : Holding(g, d)
      BY <1>2, <2>1
    <3>2. g # h
      BY <1>5, <3>1 DEF Download, At, Holding
    <3> QED
      BY <2>1, <3>1, <3>2 DEF Return, GoTo, Holding, TypeOK, ThreadsTyped
  <2>2. CASE /\ file' = [file EXCEPT ![doc[h]] = "partial"]
             /\ GoTo(h, "writing") /\ UNCHANGED doc
    <3>1. CASE doc[h] = d
      BY <2>2, <3>1 DEF GoTo, Holding, TypeOK, ThreadsTyped
    <3>2. CASE doc[h] # d
      <4>1. PICK g \in Handlers : Holding(g, d)
        BY <1>2, <2>2, <3>2 DEF TypeOK, StoresTyped
      <4> QED
        BY <2>2, <3>2, <4>1 DEF GoTo, Holding, TypeOK, ThreadsTyped
    <3> QED
      BY <3>1, <3>2
  <2> QED
    BY <1>5, <2>1, <2>2 DEF Download
<1>6. ASSUME NEW h \in Handlers, Remove(h) PROVE \E g \in Handlers : Holding(g, d)'
  <2>1. doc[h] # d /\ file[d] # "absent"
    BY <1>6 DEF Remove, TypeOK, StoresTyped
  <2>2. PICK g \in Handlers : Holding(g, d)
    BY <1>2, <2>1
  <2> QED
    BY <1>6, <2>1, <2>2 DEF Remove, Return, GoTo, Holding, TypeOK, ThreadsTyped
<1>7. ASSUME NEW h \in Handlers, Write(h) PROVE \E g \in Handlers : Holding(g, d)'
  <2>1. file[d] # "absent"
    BY <1>7 DEF Write, TypeOK, StoresTyped
  <2> QED
    BY <1>2, <1>7, <2>1, InsideKeepsHolders
<1>8. ASSUME NEW h \in Handlers,
             \/ Read(h) \/ Convert(h) \/ Transcribe(h) \/ LookUp(h) \/ Clear(h)
             \/ Prompt(h) \/ Generate(h) \/ Store(h)
      PROVE  \E g \in Handlers : Holding(g, d)'
  <2>1. UNCHANGED file
    BY <1>8 DEF Read, Convert, Transcribe, LookUp, Clear, Prompt, Generate, Store
  <2> QED
    BY <1>2, <1>8, <2>1, InsideKeepsHolders
<1>9. CASE Crash
  BY <1>9 DEF Crash
<1> QED
  BY <1>3, <1>4, <1>5, <1>6, <1>7, <1>8, <1>9 DEF Next, Handle

(* The copy of a recording is in use as long as nothing failed. *)
Copying(g, d) == doc[g] = d /\ step[g] = "transcribing copy"

(* What a thread does concerns its own call. *)
LEMMA OthersAreLeftAlone ==
    ASSUME TypeOK, NEW h \in Handlers, Handle(h)
    PROVE  \A g \in Handlers : g # h => step'[g] = step[g] /\ doc'[g] = doc[g]
<1> USE DEF TypeOK, ThreadsTyped, GoTo
<1>1. CASE Download(h) \/ Remove(h)
  BY <1>1 DEF Download, Remove, Return
<1>2. CASE Write(h) \/ Read(h) \/ Store(h)
  BY <1>2 DEF Write, Read, Store
<1>3. CASE Convert(h)
  BY <1>3 DEF Convert
<1>4. CASE Transcribe(h) \/ LookUp(h)
  BY <1>4 DEF Transcribe, LookUp, StartLabeling
<1>5. CASE Clear(h) \/ Prompt(h) \/ Generate(h)
  BY <1>5 DEF Clear, Prompt, Generate, Labeled
<1> QED
  BY <1>1, <1>2, <1>3, <1>4, <1>5 DEF Handle

LEMMA CopiesStep ==
    ASSUME TypeOK, FilesAreInUse, [Next]_vars, crashes = 0, crashes' = 0,
           NEW d \in copies' \ failed'
    PROVE  \E g \in Handlers : Copying(g, d)'
<1>1. ASSUME d \in copies \ failed PROVE \E g \in Handlers : Copying(g, d)
  BY <1>1 DEF FilesAreInUse, Copying, At
<1>2. CASE UNCHANGED vars
  BY <1>1, <1>2 DEF vars, thread, files, history, Copying
<1>3. CASE Crash
  BY <1>3 DEF Crash
<1>4. ASSUME NEW h \in Handlers, NEW e \in Documents, Receive(h, e)
      PROVE  \E g \in Handlers : Copying(g, d)'
  <2>1. PICK g \in Handlers : Copying(g, d)
    BY <1>1, <1>4 DEF Receive, files
  <2>2. g # h
    BY <1>4, <2>1 DEF Receive, At, Copying
  <2> QED
    BY <1>4, <2>1, <2>2 DEF Receive, GoTo, Copying, TypeOK, ThreadsTyped
<1>5. ASSUME NEW h \in Handlers, Handle(h), NEW g \in Handlers, g # h, Copying(g, d)
      PROVE  \E x \in Handlers : Copying(x, d)'
  BY <1>5, OthersAreLeftAlone DEF Copying
<1>6. ASSUME NEW h \in Handlers, Convert(h) PROVE \E g \in Handlers : Copying(g, d)'
  <2>1. step[h] = "reading" /\ UNCHANGED doc
    BY <1>6 DEF Convert, At
  <2>2. CASE d = doc[h] /\ d \notin copies \ failed
    <3>1. step' = [step EXCEPT ![h] = "transcribing copy"]
      BY <1>6, <2>2 DEF Convert, GoTo
    <3> QED
      BY <2>1, <2>2, <3>1 DEF Copying, TypeOK, ThreadsTyped
  <2>3. CASE d # doc[h] \/ d \in copies \ failed
    <3>1. d \in copies \ failed
      BY <1>6, <2>3 DEF Convert
    <3>2. PICK g \in Handlers : Copying(g, d)
      BY <1>1, <3>1
    <3>3. g # h
      BY <2>1, <3>2 DEF Copying
    <3> QED
      BY <1>5, <1>6, <3>2, <3>3 DEF Handle
  <2> QED
    BY <2>2, <2>3
<1>7. ASSUME NEW h \in Handlers, Transcribe(h) PROVE \E g \in Handlers : Copying(g, d)'
  <2>1. d \in copies \ failed /\ (d = doc[h] => step[h] # "transcribing copy")
    BY <1>7 DEF Transcribe, At
  <2>2. PICK g \in Handlers : Copying(g, d)
    BY <1>1, <2>1
  <2>3. g # h
    BY <2>1, <2>2 DEF Copying
  <2> QED
    BY <1>5, <1>7, <2>2, <2>3 DEF Handle
<1>8. ASSUME NEW h \in Handlers, Handle(h), ~ Convert(h), ~ Transcribe(h)
      PROVE  \E g \in Handlers : Copying(g, d)'
  <2>1. UNCHANGED <<copies, failed>> /\ step[h] # "transcribing copy"
    BY <1>8 DEF Handle, Download, Write, Read, LookUp, Clear, Prompt, Generate, Store, Remove,
                files, history, At
  <2>2. PICK g \in Handlers : Copying(g, d)
    BY <1>1, <2>1
  <2>3. g # h
    BY <2>1, <2>2 DEF Copying
  <2> QED
    BY <1>5, <1>8, <2>2, <2>3
<1> QED
  BY <1>2, <1>3, <1>4, <1>6, <1>7, <1>8 DEF Next

(* What the calls leave in /tmp: a downloaded file never outlives the      *)
(* calls for it, also when two of them share it; a copy of a recording     *)
(* does only after a conversion or a transcription that failed.            *)
THEOREM FilesHeldOrFailed == Spec => []FilesAreInUse
<1>1. Init => FilesAreInUse
  BY DEF Init, FilesAreInUse
<1>2. TypeOK /\ FilesAreInUse /\ [Next]_vars => FilesAreInUse'
  <2> SUFFICES ASSUME TypeOK, FilesAreInUse, [Next]_vars, crashes' = 0 PROVE FilesAreInUse'
    BY DEF FilesAreInUse
  <2>1. crashes = 0
    <3>1. crashes' = crashes \/ Crash
      BY DEF Next, vars, bounds, Handle, Receive, Download, Write, Read, Convert, Transcribe, LookUp,
             Clear, Prompt, Generate, Store, Remove
    <3>2. crashes \in Nat
      BY NumbersAssumption DEF TypeOK, StoresTyped
    <3> QED
      BY <3>1, <3>2 DEF Crash
  <2>2. \A d \in Documents : file'[d] # "absent" => \E g \in Handlers : Holding(g, d)'
    BY <2>1, FilesStep
  <2>3. \A d \in copies' \ failed' : \E g \in Handlers : Copying(g, d)'
    BY <2>1, CopiesStep
  <2> QED
    BY <2>2, <2>3 DEF FilesAreInUse, Holding, Copying, At
<1> QED
  BY <1>1, <1>2, TypeInvariant, PTL DEF Spec

=============================================================================
