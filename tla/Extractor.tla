------------------------------ MODULE Extractor ------------------------------
(***************************************************************************)
(* The C++ extraction server (cpp/src). gRPC runs every Extract call on a  *)
(* thread of its own; the calls share the files under /tmp, the template   *)
(* cache in Redis and one language model context.                          *)
(*                                                                         *)
(* What matters of an answer is the documents its content comes from.      *)
(***************************************************************************)
EXTENDS Naturals

CONSTANTS
    Handlers,     \* threads of the gRPC server
    Documents,    \* stored files, each with its file_path
    AudioFiles,   \* those with file_type "audio"; the others are "pdf" or "image"
    NoDocument,
    Layouts,      \* fingerprints
    LayoutOf,     \* the fingerprint of a document's text blocks
    MaxBatches,   \* bound: batches of 512 tokens of a prompt
    MaxTokens,    \* LLAMA_MAX_TOKENS
    MaxRequests,  \* bound: Extract calls
    MaxCrashes    \* bound: restarts of the container

ASSUME DocumentsAssumption ==
    /\ AudioFiles \subseteq Documents /\ NoDocument \notin Documents
    /\ LayoutOf \in [Documents -> Layouts]
ASSUME NumbersAssumption ==
    /\ MaxBatches \in Nat \ {0} /\ MaxTokens \in Nat
    /\ MaxRequests \in Nat /\ MaxCrashes \in Nat

VARIABLES
    loaded,      \* the language model was loaded when the server started
    file,        \* /tmp/webhookmind_<file_path>
    copies,      \* recordings with a /tmp/webhookmind_<file_path>.wav
    cache,       \* webhookmind:template:<id> -> documents the stored answer is from
    context,     \* documents with tokens in the model's context
    logits,      \* documents that the logits of the last decode depend on
    step,        \* where each thread is
    doc,         \* the document it was sent
    key,         \* template_id
    connected,   \* its connection to Redis works
    answer,      \* documents that extracted_json is from
    hit,         \* cache_hit
    progress,    \* prompt batches or output tokens decoded
    mingled,     \* history: two threads used one model at once
    shared,      \* history: two threads worked on one document at once
    failed,      \* history: recordings whose conversion or transcription failed
    requests, crashes

thread  == <<step, doc, key, connected, answer, hit, progress>>
files   == <<file, copies>>
history == <<mingled, shared, failed>>
bounds  == <<requests, crashes>>
vars    == <<loaded, files, cache, context, logits, thread, history, bounds>>

Labeling     == {"clearing", "prompting", "generating"}
Transcribing == {"transcribing", "transcribing copy"}

Steps == {"idle", "downloading", "writing", "reading", "looking up", "storing", "removing"}
           \union Labeling \union Transcribing

StoresTyped ==
    /\ loaded \in BOOLEAN
    /\ file \in [Documents -> {"absent", "partial", "whole"}]
    /\ copies \subseteq AudioFiles /\ failed \subseteq AudioFiles
    /\ cache \in [Layouts -> SUBSET Documents]
    /\ context \subseteq Documents /\ logits \subseteq Documents
    /\ mingled \in BOOLEAN /\ shared \in BOOLEAN
    /\ requests \in 0..MaxRequests /\ crashes \in 0..MaxCrashes

ThreadsTyped ==
    /\ step \in [Handlers -> Steps]
    /\ doc \in [Handlers -> Documents \union {NoDocument}]
    /\ key \in [Handlers -> Layouts \union {"none"}]
    /\ connected \in [Handlers -> BOOLEAN]
    /\ answer \in [Handlers -> SUBSET Documents]
    /\ hit \in [Handlers -> BOOLEAN]
    /\ progress \in [Handlers -> Nat]

(* A call has a document, and a template_id while it works on a layout;    *)
(* audio has no layout. The loops stay in their bounds.                    *)
CallTyped(h) ==
    /\ step[h] = "idle" <=> doc[h] = NoDocument
    /\ step[h] \in {"looking up", "storing"} => doc[h] \notin AudioFiles
    /\ step[h] \in Transcribing => doc[h] \in AudioFiles
    /\ step[h] \in {"looking up", "storing"} \union Labeling /\ doc[h] \notin AudioFiles
          => key[h] \in Layouts
    /\ step[h] = "prompting"  => progress[h] < MaxBatches
    /\ step[h] = "generating" => progress[h] <= MaxTokens
    /\ step[h] \notin {"prompting", "generating"} => progress[h] = 0

TypeOK == StoresTyped /\ ThreadsTyped /\ \A h \in Handlers : CallTyped(h)

-----------------------------------------------------------------------------
(* Variants are one slip away from the definition they precede; no action  *)
(* uses them.                                                              *)

At(h, s) == step[h] = s

GoTo(h, s) == step' = [step EXCEPT ![h] = s]

(* From here on the answer comes from the documents in from. *)
Answers(h, from) == answer' = [answer EXCEPT ![h] = from]

Receive(h, d) ==
    /\ At(h, "idle") /\ requests < MaxRequests
    /\ requests' = requests + 1
    /\ doc' = [doc EXCEPT ![h] = d]
    /\ GoTo(h, "downloading")
    /\ shared' = (shared \/ \E g \in Handlers : doc[g] = d)
    /\ UNCHANGED <<loaded, files, cache, context, logits, key, connected, answer, hit, progress,
                   mingled, failed, crashes>>

(* The call returns, and the thread's locals are gone. *)
Return(h) ==
    /\ GoTo(h, "idle")
    /\ doc' = [doc EXCEPT ![h] = NoDocument]
    /\ connected' = [connected EXCEPT ![h] = FALSE]
    /\ hit' = [hit EXCEPT ![h] = FALSE]
    /\ answer' = [answer EXCEPT ![h] = {}]
    /\ progress' = [progress EXCEPT ![h] = 0]
    /\ key' = [key EXCEPT ![h] = "none"]

(* download_file: opening the file truncates it. A download that fails     *)
(* has not touched it.                                                     *)
Download(h) ==
    /\ At(h, "downloading")
    /\ \/ /\ file' = [file EXCEPT ![doc[h]] = "partial"]
          /\ GoTo(h, "writing")
          /\ UNCHANGED <<doc, key, connected, answer, hit, progress>>
       \/ Return(h) /\ UNCHANGED file
    /\ UNCHANGED <<loaded, copies, cache, context, logits, history, bounds>>

Transcribes(h) == doc[h] \in AudioFiles

(* A name that another thread has removed stays away; one that it has made *)
(* again may be another file.                                              *)
Write(h) ==
    /\ At(h, "writing")
    /\ \/ file[doc[h]] # "absent" /\ file' = [file EXCEPT ![doc[h]] = "whole"]
       \/ /\ \E g \in Handlers \ {h} : doc[g] = doc[h]
          /\ UNCHANGED file
       \/ file[doc[h]] = "absent" /\ UNCHANGED file
    /\ GoTo(h, "reading")
    /\ UNCHANGED <<loaded, copies, cache, context, logits, doc, key, connected, answer, hit, progress,
                   history, bounds>>

FingerprintOfAll(d) == CHOOSE l \in Layouts : TRUE

(* compute_fingerprint sees classes and positions of the blocks only. *)
Fingerprint(d) == LayoutOf[d]

(* Without a model the raw text is the answer. *)
StartLabeling(h, otherwise) ==
    IF loaded
      THEN /\ GoTo(h, "clearing")
           /\ mingled' = (mingled \/ \E g \in Handlers \ {h} : step[g] \in Labeling)
           /\ UNCHANGED answer
      ELSE /\ GoTo(h, otherwise)
           /\ Answers(h, {doc[h]})
           /\ UNCHANGED mingled

(* extract_pdf and extract_image. The text of a half written file may have *)
(* any layout; no text ends the call.                                      *)
Read(h) ==
    /\ At(h, "reading") /\ ~ Transcribes(h)
    /\ \/ /\ file[doc[h]] # "absent"
          /\ \E l \in IF file[doc[h]] = "whole" THEN {Fingerprint(doc[h])} ELSE Layouts :
                key' = [key EXCEPT ![h] = l]
          /\ GoTo(h, "looking up")
       \/ GoTo(h, "removing") /\ UNCHANGED key
    /\ UNCHANGED <<loaded, files, cache, context, logits, doc, connected, answer, hit, progress,
                   history, bounds>>

(* transcribe_audio, up to the opening of the file to transcribe: the copy *)
(* that ffmpeg makes, or, when it fails and may leave a piece of one, the  *)
(* file itself. Whisper has one context, too; what two recordings mix up   *)
(* there is left out, that they meet is not.                               *)
Convert(h) ==
    /\ At(h, "reading") /\ Transcribes(h)
    /\ \/ GoTo(h, "removing") /\ UNCHANGED <<copies, mingled, failed>>
       \/ /\ \/ /\ file[doc[h]] # "absent"
                /\ copies' = copies \union {doc[h]}
                /\ GoTo(h, "transcribing copy")
                /\ UNCHANGED failed
             \/ /\ copies' \in {copies, copies \union {doc[h]}}
                /\ GoTo(h, IF file[doc[h]] = "absent" THEN "removing" ELSE "transcribing")
                /\ failed' = failed \union {doc[h]}
          /\ mingled' = (mingled \/ \E g \in Handlers \ {h} : step[g] \in Transcribing)
    /\ UNCHANGED <<loaded, file, cache, context, logits, doc, key, connected, answer, hit, progress,
                   shared, bounds>>

(* The rest of it. No samples or a failing whisper end the call without    *)
(* the copy's removal; a recording without words is not labelled.          *)
Transcribe(h) ==
    /\ step[h] \in Transcribing
    /\ \/ /\ GoTo(h, "removing")
          /\ failed' = failed \union {doc[h]}
          /\ UNCHANGED <<copies, answer, mingled>>
       \/ /\ \/ StartLabeling(h, "removing")
             \/ GoTo(h, "removing") /\ Answers(h, {doc[h]}) /\ UNCHANGED mingled
          /\ copies' = IF At(h, "transcribing copy") THEN copies \ {doc[h]} ELSE copies
          /\ UNCHANGED failed
    /\ UNCHANGED <<loaded, file, cache, context, logits, doc, key, connected, hit, progress,
                   shared, bounds>>

(* TemplateCache: a connection that fails, or a GET, is a miss. *)
LookUp(h) ==
    /\ At(h, "looking up")
    /\ \E up \in BOOLEAN : connected' = [connected EXCEPT ![h] = up]
    /\ \/ /\ connected'[h] /\ cache[key[h]] # {}
          /\ Answers(h, cache[key[h]])
          /\ hit' = [hit EXCEPT ![h] = TRUE]
          /\ GoTo(h, "removing")
          /\ UNCHANGED mingled
       \/ StartLabeling(h, "storing") /\ UNCHANGED hit
    /\ UNCHANGED <<loaded, files, cache, context, logits, doc, key, progress, shared, failed, bounds>>

(* extract_document after LabelFields: an audio file is not cached. *)
Labeled(h, from) ==
    /\ Answers(h, from)
    /\ GoTo(h, IF doc[h] \in AudioFiles THEN "removing" ELSE "storing")
    /\ progress' = [progress EXCEPT ![h] = 0]

ClearNothing(h) ==
    /\ At(h, "clearing")
    /\ GoTo(h, "prompting")
    /\ UNCHANGED <<loaded, files, cache, context, logits, doc, key, connected, answer, hit, progress,
                   history, bounds>>

(* LabelFields: tokenizing, which may fail, then llama_kv_cache_clear. *)
Clear(h) ==
    /\ At(h, "clearing")
    /\ \/ context' = {} /\ GoTo(h, "prompting") /\ UNCHANGED <<answer, progress>>
       \/ Labeled(h, {doc[h]}) /\ UNCHANGED context
    /\ UNCHANGED <<loaded, files, cache, logits, doc, key, connected, hit, history, bounds>>

(* llama_decode of the thread's own tokens: what comes out depends on all  *)
(* that is in the context.                                                 *)
Decode(h) ==
    /\ context' = context \union {doc[h]}
    /\ logits' = context'

(* One batch of the prompt, the last one or not. *)
Prompt(h) ==
    /\ At(h, "prompting")
    /\ \/ /\ Decode(h)
          /\ \/ /\ progress[h] + 1 < MaxBatches
                /\ progress' = [progress EXCEPT ![h] = @ + 1]
                /\ UNCHANGED step
             \/ progress' = [progress EXCEPT ![h] = 0] /\ GoTo(h, "generating")
          /\ UNCHANGED answer
       \/ Labeled(h, {doc[h]}) /\ UNCHANGED <<context, logits>>
    /\ UNCHANGED <<loaded, files, cache, doc, key, connected, hit, history, bounds>>

GenerateOneTooMany(h) ==
    /\ At(h, "generating")
    /\ \/ /\ progress[h] <= MaxTokens
          /\ Decode(h)
          /\ Answers(h, answer[h] \union logits)
          /\ progress' = [progress EXCEPT ![h] = @ + 1]
          /\ UNCHANGED step
       \/ \E from \in {answer[h], {doc[h]}} \ {{}} : Labeled(h, from) /\ UNCHANGED <<context, logits>>
    /\ UNCHANGED <<loaded, files, cache, doc, key, connected, hit, history, bounds>>

(* One token: taken from the logits of the last decode, appended, decoded. *)
(* The output ends with an end token, a failing decode or MaxTokens; if it *)
(* holds no JSON the raw text is the answer.                               *)
Generate(h) ==
    /\ At(h, "generating")
    /\ \/ /\ progress[h] < MaxTokens
          /\ Decode(h)
          /\ Answers(h, answer[h] \union logits)
          /\ progress' = [progress EXCEPT ![h] = @ + 1]
          /\ UNCHANGED step
       \/ \E from \in {answer[h], {doc[h]}} \ {{}} : Labeled(h, from) /\ UNCHANGED <<context, logits>>
    /\ UNCHANGED <<loaded, files, cache, doc, key, connected, hit, history, bounds>>

(* TemplateCache::set, whose result nobody looks at. *)
Store(h) ==
    /\ At(h, "storing")
    /\ \/ connected[h] /\ cache' = [cache EXCEPT ![key[h]] = answer[h]]
       \/ UNCHANGED cache
    /\ GoTo(h, "removing")
    /\ UNCHANGED <<loaded, files, context, logits, doc, key, connected, answer, hit, progress,
                   history, bounds>>

RemoveUnlessHit(h) ==
    /\ At(h, "removing")
    /\ file' = IF hit[h] THEN file ELSE [file EXCEPT ![doc[h]] = "absent"]
    /\ Return(h)
    /\ UNCHANGED <<loaded, copies, cache, context, logits, history, bounds>>

Remove(h) ==
    /\ At(h, "removing")
    /\ file' = [file EXCEPT ![doc[h]] = "absent"]
    /\ Return(h)
    /\ UNCHANGED <<loaded, copies, cache, context, logits, history, bounds>>

(* The container restarts: its file system and Redis stay. *)
Crash ==
    /\ crashes < MaxCrashes /\ crashes' = crashes + 1
    /\ loaded' \in BOOLEAN
    /\ context' = {} /\ logits' = {}
    /\ step' = [h \in Handlers |-> "idle"]
    /\ doc' = [h \in Handlers |-> NoDocument]
    /\ connected' = [h \in Handlers |-> FALSE]
    /\ hit' = [h \in Handlers |-> FALSE]
    /\ answer' = [h \in Handlers |-> {}]
    /\ progress' = [h \in Handlers |-> 0]
    /\ key' = [h \in Handlers |-> "none"]
    /\ UNCHANGED <<files, cache, history, requests>>

-----------------------------------------------------------------------------
Init ==
    /\ loaded \in BOOLEAN
    /\ file = [d \in Documents |-> "absent"] /\ copies = {}
    /\ cache = [l \in Layouts |-> {}]
    /\ context = {} /\ logits = {}
    /\ step = [h \in Handlers |-> "idle"]
    /\ doc = [h \in Handlers |-> NoDocument]
    /\ key = [h \in Handlers |-> "none"]
    /\ connected = [h \in Handlers |-> FALSE]
    /\ answer = [h \in Handlers |-> {}]
    /\ hit = [h \in Handlers |-> FALSE]
    /\ progress = [h \in Handlers |-> 0]
    /\ mingled = FALSE /\ shared = FALSE /\ failed = {}
    /\ requests = 0 /\ crashes = 0

Handle(h) ==
    \/ Download(h) \/ Write(h) \/ Read(h) \/ Convert(h) \/ Transcribe(h) \/ LookUp(h)
    \/ Clear(h) \/ Prompt(h) \/ Generate(h) \/ Store(h) \/ Remove(h)

Next ==
    \/ Crash
    \/ \E h \in Handlers : Handle(h) \/ \E d \in Documents : Receive(h, d)

Spec == Init /\ [][Next]_vars

-----------------------------------------------------------------------------
(* Properties *)

Alike(d) == {e \in Documents : LayoutOf[e] = LayoutOf[d]}

(* The content of an answer is of the document that was sent, or, when it  *)
(* comes from the template cache, of documents of the same layout: neither *)
(* the model's context nor the cache carries anything else over from       *)
(* earlier calls. It takes calls that do not meet in a model or in a       *)
(* temporary file.                                                         *)
NothingCarriedOver ==
    ~mingled /\ ~shared =>
        \A h \in Handlers :
            step[h] \in {"storing", "removing"} =>
                answer[h] \subseteq IF hit[h] THEN Alike(doc[h]) ELSE {doc[h]}

(* What the calls leave in /tmp as long as nothing crashes: every return   *)
(* path of extract_document removes the downloaded file, also when two     *)
(* calls share it, so that one that is there belongs to a call that is     *)
(* past its download. The copy of a recording is in use or stays behind    *)
(* after a conversion or a transcription of it that failed; one that went  *)
(* well leaves none.                                                       *)
FilesAreInUse ==
    crashes = 0 =>
        /\ \A d \in Documents : file[d] # "absent" =>
              \E h \in Handlers : doc[h] = d /\ step[h] # "downloading"
        /\ \A d \in copies \ failed : \E h \in Handlers : doc[h] = d /\ At(h, "transcribing copy")

(* Not so: template_cache.h:11 and :14 say the cache holds where the       *)
(* fields of a layout are. Then an answer from the cache would still be    *)
(* read from the document that was sent.                                   *)
HitReadsItsDocument ==
    \A h \in Handlers : step[h] = "removing" /\ hit[h] => answer[h] \subseteq {doc[h]}

-----------------------------------------------------------------------------
(* What NothingCarriedOver needs to be inductive *)

Separate == ~mingled /\ ~shared

(* Calls that have not met: no document and no turn of the model in common. *)
Apart ==
    \A g, h \in Handlers : g # h =>
        /\ doc[g] = doc[h] => doc[g] = NoDocument
        /\ ~(step[g] \in Labeling /\ step[h] \in Labeling)

(* The cache keeps layouts apart. *)
CacheSorted == \A l \in Layouts : \A d \in cache[l] : LayoutOf[d] = l

(* What a thread has read, computed and decoded is of its own document. *)
OwnWork(h) ==
    /\ hit[h] => step[h] = "removing"
    /\ step[h] = "reading" => file[doc[h]] # "partial"
    /\ step[h] \in {"looking up", "storing"} \union Labeling /\ doc[h] \notin AudioFiles
          => key[h] = LayoutOf[doc[h]]
    /\ step[h] \in {"prompting", "generating"} => context \subseteq {doc[h]}
    /\ step[h] = "generating" => logits \subseteq {doc[h]}
    /\ ~hit[h] => answer[h] \subseteq {doc[h]}
    /\ hit[h] => answer[h] \subseteq Alike(doc[h])

NothingMixed == Separate => Apart /\ CacheSorted /\ \A h \in Handlers : OwnWork(h)

=============================================================================
