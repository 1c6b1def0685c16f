------------------------------ MODULE Synthesis ------------------------------
(***************************************************************************)
(* Speaking a text through the layers above the Pico engine: the service's  *)
(* onSynthesizeText on the synthesis thread, SynthProxy with its mutex, the *)
(* loop of TtsEngine::synthesizeText and the callback that passes samples   *)
(* on; at the same time onStop on a binder thread and, on the main thread,  *)
(* stopSync, shutdown and a new set-up.                                     *)
(*                                                                          *)
(* The samples of one pico_getData are a piece, numbered in the order the   *)
(* engine makes them; buffers hold pieces.  Between two accesses to the     *)
(* abort flag, or to the mutex, a thread's work is one step.                *)
(***************************************************************************)
EXTENDS Integers, Sequences

CONSTANTS Langs,      \* supported languages
          MaxText,    \* length of a text, in the portions pico_putTextUtf8 takes
          MaxPieces,  \* pieces made of one portion
          Capacity,   \* pieces that fit into the proxy's buffer, mBufferSize
          MaxCalls,   \* requests in a behaviour
          MaxProxies  \* set-ups in a behaviour

CONSTANTS NoLang, Nobody, Speaker

ASSUME SynthesisAssumption ==
    /\ NoLang \notin Langs /\ Langs # {} /\ Nobody # Speaker
    /\ MaxText \in Nat \ {0} /\ MaxPieces \in Nat /\ Capacity \in Nat \ {0}
    /\ MaxCalls \in Nat /\ MaxProxies \in Nat \ {0}

VARIABLES
    proxy,          \* mNativeSynth of the service, 0 when null
    shut,           \* proxies whose mJniData is 0
    main,           \* where the main thread is
    calls,          \* requests so far
    storage,        \* the proxy whose SynthProxyJniStorage exists, 0 for none
    deletedUsed,    \* history: a deleted SynthProxyJniStorage has been used
    engineMutex,
    picoSynthAbort,
    currLang,       \* picoProp_currLang
    voice,          \* language of picoEngine
    pc,             \* where the synthesis thread is
    mine,           \* the proxy it was given
    asked,          \* the language to speak in
    remaining,      \* text_remaining
    toSpeak,        \* pieces the engine has still to make of the text it has
    made,           \* pieces made for this request
    outbuf,         \* the piece in outbuf
    bytesRecv,      \* bytes_recv, 0 or 1 piece
    buffer,         \* the pieces in buffer, bufused is its length
    ret,
    started,        \* startCalled
    heard,          \* pieces the client took
    done, errors,   \* done() and error() calls
    refusing,       \* the client answers with an error
    requestData,    \* the request data exists
    stopped, failed \* history: stop called, pico_getData failed, since the call

service == <<proxy, shut, main>>
memory  == <<storage, deletedUsed>>
tts     == <<currLang, voice>>
loop    == <<remaining, toSpeak, made, outbuf, bytesRecv, buffer, ret>>
client  == <<started, heard, done, errors, requestData>>
history == <<stopped, failed>>
vars == <<service, calls, memory, engineMutex, picoSynthAbort, tts, pc, mine, asked,
          loop, client, refusing, history>>

Silence == 0  \* a piece of zeros
Garbage == -1 \* outbuf before the first samples

\* synthesizeText has been called and not returned.
Synthesizing == pc \in {"entry", "outer", "get", "store", "chunk", "clear", "failed",
                        "finish", "succeed", "fail"}

\* The process has not ended.
Alive == pc # "crashed"

Init == /\ proxy = 1 /\ shut = {} /\ main = "running" /\ calls = 0
        /\ storage = 1 /\ deletedUsed = FALSE /\ engineMutex = Nobody /\ picoSynthAbort = 0
        /\ currLang = NoLang /\ voice = NoLang
        /\ pc = "idle" /\ mine = 0 /\ asked = NoLang
        /\ remaining = 0 /\ toSpeak = 0 /\ made = 0 /\ outbuf = Garbage /\ bytesRecv = 0
        /\ buffer = <<>> /\ ret = "ok"
        /\ started = FALSE /\ heard = <<>> /\ done = 0 /\ errors = 0
        /\ refusing = FALSE /\ requestData = FALSE
        /\ stopped = FALSE /\ failed = FALSE

-----------------------------------------------------------------------------
(* onSynthesizeText up to the call of synthesizeText                        *)

Request(l) ==
    /\ pc = "idle" /\ calls < MaxCalls
    /\ calls' = calls + 1 /\ mine' = proxy /\ asked' = l
    /\ started' = FALSE /\ heard' = <<>> /\ done' = 0 /\ errors' = 0 /\ refusing' = FALSE
    /\ stopped' = FALSE /\ failed' = FALSE
    /\ pc' = "setLanguage"
    /\ UNCHANGED <<service, memory, engineMutex, picoSynthAbort, tts, loop, requestData>>

\* A native method works with the storage its thread was given, whether or not
\* that has been deleted since: nothing is looked at again.
Uses(p) == deletedUsed' = (deletedUsed \/ storage # p)

\* callback.error(), and onSynthesizeText returns.
AnswerError == /\ errors' = errors + 1 /\ pc' = "idle"
               /\ UNCHANGED <<started, heard, done, requestData>>

\* A native method is called with mJniData, which getSynthData checks; without
\* a proxy the service answers itself.
CallNative(here, there) ==
    /\ pc = here
    /\ \/ mine \in shut \cup {0} /\ AnswerError
       \/ mine \notin shut \cup {0} /\ pc' = there /\ UNCHANGED client
    /\ UNCHANGED <<service, calls, memory, engineMutex, picoSynthAbort, tts, mine, asked,
                   loop, refusing, history>>

CallSetLanguage == CallNative("setLanguage", "lockLanguage")
CallSpeak == CallNative("speak", "lockSpeak")

\* Mutant of AlreadyLoaded: any language will do.
AlreadyLoadedAny(l) == currLang # NoLang

AlreadyLoaded(l) == currLang = l

\* Mutant of SwitchFails: the old engine is kept.
SwitchFailsKeepingVoice(l) == /\ ~ AlreadyLoaded(l)
                              /\ currLang' = NoLang
                              /\ UNCHANGED voice

\* The TTS engine has memory as long as there is a storage.  A failure before
\* the names are allocated, or after, leaves no language; if one of the names
\* is not allocated, picoProp_currLang stays as malloc gave it.
SwitchFails(l) == /\ ~ AlreadyLoaded(l)
                  /\ voice' = NoLang
                  /\ currLang' \in {NoLang} \cup {k \in Langs : storage # 0}

SwitchSucceeds(l) == \/ AlreadyLoaded(l) /\ UNCHANGED tts
                     \/ ~ AlreadyLoaded(l) /\ storage # 0 /\ currLang' = l /\ voice' = l

\* mEngine, read from the storage once the mutex is held, is 0 at most if that
\* has been deleted; otherwise it is the TTS engine, of which there is one.
SetLanguage ==
    /\ pc = "lockLanguage" /\ engineMutex = Nobody
    /\ Uses(mine)
    /\ \/ SwitchSucceeds(asked) /\ pc' = "speak" /\ UNCHANGED client
       \/ SwitchFails(asked) /\ AnswerError
       \/ storage # mine /\ AnswerError /\ UNCHANGED tts
    /\ UNCHANGED <<service, calls, storage, engineMutex, picoSynthAbort, mine, asked,
                   loop, refusing, history>>

EnterSpeak ==
    /\ pc = "lockSpeak" /\ engineMutex = Nobody
    /\ Uses(mine)
    /\ \/ /\ engineMutex' = Speaker /\ requestData' = TRUE /\ pc' = "entry"
          /\ UNCHANGED <<started, heard, done, errors>>
       \/ storage # mine /\ AnswerError /\ UNCHANGED engineMutex
    /\ UNCHANGED <<service, calls, storage, picoSynthAbort, tts, mine, asked, loop,
                   refusing, history>>

\* Memory that has been given back was read or written: the process may end
\* because of that, at once or later.
Crash == /\ Alive /\ deletedUsed
         /\ pc' = "crashed"
         /\ UNCHANGED <<service, calls, memory, engineMutex, picoSynthAbort, tts, mine, asked,
                        loop, client, refusing, history>>

-----------------------------------------------------------------------------
(* The callback, __ttsSynthDoneCB                                           *)

\* The pieces in a buffer; zeros, if any, follow them and are not heard.
Pieces(b) ==
    LET Zeros == {i \in DOMAIN b : b[i] = Silence}
    IN IF Zeros = {} THEN b
       ELSE SubSeq(b, 1, (CHOOSE i \in Zeros : \A j \in Zeros : i =< j) - 1)

\* Mutant of TakeAudio: the buffer is not cleared once the client has it.
TakeAudioKeepsBuffer(b) ==
    /\ started' = TRUE
    /\ heard' = heard \o Pieces(b)
    /\ buffer' = [i \in 1 .. Capacity |-> IF i =< Len(b) THEN b[i] ELSE Silence]

\* The samples go to the client and the whole buffer, now zero, is offered.
TakeAudio(b) ==
    /\ started' = TRUE
    /\ heard' = heard \o Pieces(b)
    /\ buffer' = [i \in 1 .. Capacity |-> Silence]

\* It returns HALT because the client refuses the samples.
CallbackRefused(b) ==
    /\ b # <<>> /\ refusing
    /\ started' = TRUE
    /\ UNCHANGED <<heard, done, errors, requestData, buffer>>

\* The client takes the samples, if there are any; without any nothing is
\* called but the size of the buffer is set all the same.
CallbackTaken(b) ==
    \/ b # <<>> /\ ~ refusing /\ TakeAudio(b)
    \/ b = <<>> /\ buffer' = [i \in 1 .. Capacity |-> Silence] /\ UNCHANGED <<started, heard>>

\* Called with PENDING.
Pending(b) == \/ CallbackRefused(b)
              \/ CallbackTaken(b) /\ UNCHANGED <<done, errors, requestData>>

\* Called with DONE: refused samples come before the request is finished.
Done(b) == \/ CallbackRefused(b)
           \/ CallbackTaken(b) /\ done' = done + 1 /\ requestData' = FALSE /\ UNCHANGED errors

-----------------------------------------------------------------------------
(* synthesizeText                                                           *)

\* What the samples' loop leaves alone.
Elsewhere == <<service, calls, memory, mine, refusing>>

\* An empty text is a success, and one that cannot be parsed or copied a
\* failure, both without a callback.  A text may bring its own language.
Entry ==
    /\ pc = "entry"
    /\ picoSynthAbort' = 0
    /\ \/ pc' \in {"succeed", "fail"} /\ UNCHANGED <<asked, tts, loop>>
       \/ \E l \in Langs : SwitchFails(l) /\ pc' = "fail" /\ UNCHANGED <<asked, loop>>
       \/ /\ pc' = "outer"
          /\ \/ UNCHANGED <<asked, tts>>
             \/ \E l \in Langs : SwitchSucceeds(l) /\ asked' = l
          /\ remaining' \in 1 .. MaxText
          /\ buffer' = <<>> /\ made' = 0 /\ outbuf' = Garbage
          /\ bytesRecv' \in {0, 1} \* not initialised
          /\ ret' = "ok" /\ toSpeak' = 0
    /\ UNCHANGED <<Elsewhere, engineMutex, client, history>>

\* The end of the text, an abort, or another portion of text for the engine.
Outer ==
    /\ pc = "outer"
    /\ \/ remaining = 0 /\ pc' = "finish" /\ UNCHANGED loop
       \/ /\ remaining > 0 /\ picoSynthAbort = 1
          /\ toSpeak' = 0 /\ pc' = "finish"
          /\ UNCHANGED <<remaining, made, outbuf, bytesRecv, buffer, ret>>
       \/ /\ remaining > 0 /\ picoSynthAbort = 0 /\ voice = NoLang
          /\ pc' = "fail" /\ UNCHANGED loop
       \/ /\ remaining > 0 /\ picoSynthAbort = 0 /\ voice # NoLang
          /\ remaining' = remaining - 1
          /\ \E n \in 0 .. MaxPieces : toSpeak' = toSpeak + n
          /\ pc' = "get"
          /\ UNCHANGED <<made, outbuf, bytesRecv, buffer, ret>>
    /\ UNCHANGED <<Elsewhere, engineMutex, picoSynthAbort, tts, asked, client, history>>

\* Where the loop goes on from the end of its body.
Again(r) == IF r = "busy" THEN "get" ELSE "chunk"

\* Mutant of Aborted: the samples' loop does not look at the flag.
AbortedIgnored == FALSE

Aborted == picoSynthAbort = 1

GetAborted == /\ Aborted
              /\ toSpeak' = 0 /\ ret' = "ok" /\ pc' = "chunk"
              /\ UNCHANGED <<remaining, made, outbuf, bytesRecv, buffer, failed>>

\* A step of the engine yields a piece, or nothing yet.
GetPiece == /\ ~ Aborted /\ toSpeak > 0
            /\ toSpeak' = toSpeak - 1 /\ made' = made + 1 /\ outbuf' = made + 1
            /\ bytesRecv' = 1 /\ ret' = "busy" /\ pc' = "store"
            /\ UNCHANGED <<remaining, buffer, failed>>

GetNothing == /\ ~ Aborted
              /\ bytesRecv' = 0 /\ ret' = "busy" /\ pc' = "get"
              /\ UNCHANGED <<remaining, toSpeak, made, outbuf, buffer, failed>>

\* All the text the engine has is spoken.
GetIdle == /\ ~ Aborted /\ toSpeak = 0
           /\ bytesRecv' = 0 /\ ret' = "idle" /\ pc' = "chunk"
           /\ UNCHANGED <<remaining, toSpeak, made, outbuf, buffer, failed>>

\* A failed step leaves bytes_recv as it was; one that fails to get the samples
\* out sets it to 0.
GetError == /\ ~ Aborted
            /\ bytesRecv' \in {0, bytesRecv} /\ ret' = "error" /\ failed' = TRUE
            /\ pc' = IF bytesRecv' = 0 THEN "chunk" ELSE "store"
            /\ UNCHANGED <<remaining, toSpeak, made, outbuf, buffer>>

Get(Result) == /\ pc = "get"
               /\ Result
               /\ UNCHANGED <<Elsewhere, engineMutex, picoSynthAbort, tts, asked, client, stopped>>

\* Mutant of Fits: one piece more than there is room for.
FitsOneMore == Len(buffer) =< Capacity

Fits == Len(buffer) < Capacity

\* Mutant of StoreAfterCallback: the piece at hand is forgotten.
StoreAfterCallbackForgets ==
    /\ ~ Fits /\ ~ (buffer # <<>> /\ refusing)
    /\ started' = TRUE /\ heard' = heard \o Pieces(buffer)
    /\ buffer' = <<>> /\ pc' = Again(ret)
    /\ UNCHANGED <<done, errors, requestData, toSpeak, ret, picoSynthAbort>>

\* The buffer is full and goes to the client; the piece is the first of the next.
StoreAfterCallback ==
    /\ ~ Fits /\ ~ (buffer # <<>> /\ refusing)
    /\ started' = TRUE /\ heard' = heard \o Pieces(buffer)
    /\ buffer' = <<outbuf>> /\ pc' = Again(ret)
    /\ UNCHANGED <<done, errors, requestData, toSpeak, ret, picoSynthAbort>>

Store ==
    /\ pc = "store"
    /\ \/ /\ Fits
          /\ buffer' = Append(buffer, outbuf) /\ pc' = Again(ret)
          /\ UNCHANGED <<client, toSpeak, ret, picoSynthAbort>>
       \/ StoreAfterCallback
       \/ /\ ~ Fits /\ CallbackRefused(buffer)
          /\ picoSynthAbort' = 1 /\ toSpeak' = 0 /\ ret' = "ok" /\ pc' = "chunk"
    /\ UNCHANGED <<Elsewhere, engineMutex, tts, asked, remaining, made, outbuf, bytesRecv, history>>

\* The rest of the samples, unless aborted; what the callback returns is ignored.
Chunk ==
    /\ pc = "chunk" /\ pc' = "clear"
    /\ \/ picoSynthAbort = 0 /\ Pending(buffer)
       \/ picoSynthAbort # 0 /\ UNCHANGED <<client, buffer>>
    /\ UNCHANGED <<Elsewhere, engineMutex, picoSynthAbort, tts, asked, remaining, toSpeak, made,
                   outbuf, bytesRecv, ret, history>>

Clear ==
    /\ pc = "clear"
    /\ picoSynthAbort' = 0
    /\ pc' = IF ret = "idle" THEN "outer" ELSE "failed"
    /\ UNCHANGED <<Elsewhere, engineMutex, tts, asked, loop, client, history>>

\* Mutant of Failed: it does not return.
FailedGoesOn ==
    /\ pc = "failed" /\ pc' = "finish"
    /\ Done(buffer) /\ toSpeak' = 0
    /\ UNCHANGED <<Elsewhere, engineMutex, picoSynthAbort, tts, asked, remaining, made, outbuf,
                   bytesRecv, ret, history>>

\* After an error or an abort.
Failed ==
    /\ pc = "failed" /\ pc' = "fail"
    /\ Done(buffer) /\ toSpeak' = 0
    /\ UNCHANGED <<Elsewhere, engineMutex, picoSynthAbort, tts, asked, remaining, made, outbuf,
                   bytesRecv, ret, history>>

Finish ==
    /\ pc = "finish" /\ pc' = "succeed"
    /\ Done(buffer)
    /\ UNCHANGED <<Elsewhere, engineMutex, picoSynthAbort, tts, asked, remaining, toSpeak, made,
                   outbuf, bytesRecv, ret, history>>

\* Mutant of Unlock: the mutex is kept.
UnlockNot == UNCHANGED engineMutex

Unlock == engineMutex' = Nobody

\* speak returns and the service answers a failure with error().
Return ==
    /\ Unlock
    /\ \/ pc = "succeed" /\ pc' = "idle" /\ UNCHANGED client
       \/ pc = "fail" /\ AnswerError
    /\ UNCHANGED <<Elsewhere, picoSynthAbort, tts, asked, loop, history>>

-----------------------------------------------------------------------------
(* Other threads                                                            *)

\* The client wants no more: from now on its methods answer with an error.
Refuse == /\ Alive /\ pc # "idle" /\ ~ refusing
          /\ refusing' = TRUE
          /\ UNCHANGED <<service, calls, memory, engineMutex, picoSynthAbort, tts, pc, mine,
                         asked, loop, client, history>>

StopEngine == /\ picoSynthAbort' = 1
              /\ stopped' = (stopped \/ Synthesizing)

\* onStop: the flag is set without the mutex.  The thread may have been given
\* mJniData before the storage was deleted; then mEngine may be 0.
Stop == /\ Alive
        /\ \E p \in {proxy} \cup shut :
               /\ p # 0
               /\ Uses(p)
               /\ \/ StopEngine
                  \/ storage # p /\ UNCHANGED <<picoSynthAbort, stopped>>
        /\ UNCHANGED <<service, calls, storage, engineMutex, tts, pc, mine, asked, loop, client,
                       refusing, failed>>

\* stopSync: a stop, then the mutex is locked and unlocked at once.
StopSync == /\ Alive /\ main = "running" /\ main' = "waiting"
            /\ StopEngine
            /\ UNCHANGED <<proxy, shut, calls, memory, engineMutex, tts, pc, mine, asked, loop,
                           client, refusing, failed>>

Synced == /\ Alive /\ main = "waiting" /\ engineMutex = Nobody
          /\ main' = "synced"
          /\ UNCHANGED <<proxy, shut, calls, memory, engineMutex, picoSynthAbort, tts, pc, mine,
                         asked, loop, client, refusing, history>>

\* Mutant of Shutdown: the mutex is not waited for.
ShutdownAtOnce ==
    /\ Alive /\ main \in {"running", "synced"} /\ main' = "deleted"
    /\ storage' = 0 /\ currLang' = NoLang /\ voice' = NoLang
    /\ UNCHANGED <<proxy, shut, calls, deletedUsed, engineMutex, picoSynthAbort, pc, mine, asked, loop, client,
                   refusing, history>>

\* shutdown of onCreate, after stopSync, or of onDestroy: the storage is
\* deleted and the TTS engine gives back all it has.
Shutdown ==
    /\ Alive /\ main \in {"running", "synced"} /\ engineMutex = Nobody
    /\ main' = "deleted"
    /\ storage' = 0 /\ currLang' = NoLang /\ voice' = NoLang
    /\ UNCHANGED <<proxy, shut, calls, deletedUsed, engineMutex, picoSynthAbort, pc, mine, asked, loop, client,
                   refusing, history>>

\* mJniData = 0, in onDestroy mNativeSynth = null as well.
Forget == /\ Alive /\ main = "deleted" /\ main' = "down"
          /\ shut' = shut \cup {proxy}
          /\ proxy' \in {proxy, 0}
          /\ UNCHANGED <<calls, memory, engineMutex, picoSynthAbort, tts, pc, mine, asked, loop,
                         client, refusing, history>>

\* A new SynthProxy, whose number is not used yet.
SetUp == /\ Alive /\ main = "down" /\ engineMutex = Nobody
         /\ \E p \in 1 .. MaxProxies :
                /\ \A q \in shut : q < p
                /\ storage' = p /\ proxy' = p
         /\ main' = "running"
         /\ UNCHANGED <<shut, calls, deletedUsed, engineMutex, picoSynthAbort, tts, pc, mine, asked, loop,
                        client, refusing, history>>

-----------------------------------------------------------------------------
\* The synthesis thread, but for what the engine may do at its leisure.
Works == \/ CallSetLanguage \/ SetLanguage \/ CallSpeak \/ EnterSpeak
         \/ Entry \/ Outer \/ Store \/ Chunk \/ Clear \/ Failed \/ Finish \/ Return
         \/ Get(GetAborted)

Produces == Get(GetPiece) \/ Get(GetIdle)

Next == \/ \E l \in Langs : Request(l)
        \/ Works \/ Produces \/ Get(GetNothing) \/ Get(GetError)
        \/ Refuse \/ Stop
        \/ StopSync \/ Synced \/ Shutdown \/ Forget \/ SetUp
        \/ Crash

Spec == Init /\ [][Next]_vars

\* The synthesis thread runs, and stopSync gets the mutex once it is free.
FairSpec == Spec /\ WF_vars(Works) /\ WF_vars(Synced)

\* What Control!IdleAgainAndAgain says of an engine that does not fail.
EngineWorksTextOff == WF_vars(Produces)

-----------------------------------------------------------------------------
ServiceTypes ==
    /\ proxy \in 0 .. MaxProxies /\ shut \subseteq 1 .. MaxProxies
    /\ main \in {"running", "waiting", "synced", "deleted", "down"}
    /\ calls \in 0 .. MaxCalls
    /\ storage \in 0 .. MaxProxies /\ deletedUsed \in BOOLEAN /\ engineMutex \in {Nobody, Speaker}
    /\ picoSynthAbort \in {0, 1}
    /\ currLang \in Langs \cup {NoLang} /\ voice \in Langs \cup {NoLang}

SpeakerTypes ==
    /\ \/ pc \in {"idle", "setLanguage", "lockLanguage", "speak", "lockSpeak", "crashed"}
       \/ Synthesizing
    /\ mine \in 0 .. MaxProxies /\ asked \in Langs \cup {NoLang}

LoopTypes ==
    /\ remaining \in 0 .. MaxText /\ toSpeak \in Nat /\ made \in Nat
    /\ outbuf \in Int /\ bytesRecv \in {0, 1}
    /\ buffer \in Seq(Int) /\ Len(buffer) =< Capacity
    /\ ret \in {"ok", "busy", "idle", "error"}

ClientTypes ==
    /\ started \in BOOLEAN /\ heard \in Seq(Int) /\ done \in Nat /\ errors \in Nat
    /\ refusing \in BOOLEAN /\ requestData \in BOOLEAN
    /\ stopped \in BOOLEAN /\ failed \in BOOLEAN

TypeOK == ServiceTypes /\ SpeakerTypes /\ LoopTypes /\ ClientTypes

(* No engine is left behind in a language other than the one noted, however *)
(* a language switch failed.                                                *)
VoiceIsCurrent == voice # NoLang => currLang = voice

(* What is spoken is spoken in the language asked for, although that was    *)
(* set in a critical section of its own and the engine may be shut down and *)
(* set up again in between.                                                 *)
SpokenAsAsked == pc \in {"get", "store"} => voice = asked

(* The storage is not deleted while synthesizeText works in its buffer,      *)
(* unless it was deleted before that began, which nothing prevents: see      *)
(* StorageProtected.                                                        *)
StorageHeld == Synthesizing /\ ~ deletedUsed => storage = mine

(* Unless pico_getData failed, the client hears every piece once and in     *)
(* order, through refusals, aborts and full buffers.                        *)
HeardInOrder == ~ failed => \A i \in 1 .. Len(heard) : heard[i] = i

(* A synthesis that succeeded without a stop, for a client that took all it *)
(* was given, has fed the whole text, delivered all that was made of it and *)
(* finished the request.                                                    *)
AllHeard == pc = "succeed" /\ started /\ ~ stopped /\ ~ refusing =>
                /\ remaining = 0 /\ toSpeak = 0
                /\ Len(heard) = made /\ done = 1

(* What the client hears: see HeardInOrder and AllHeard.  Of what is in the  *)
(* buffer of deleted storage nothing is said.                               *)
HeardAsSpoken == ~ deletedUsed => HeardInOrder /\ AllHeard

(* The callback frees the request data when it finishes a request and is    *)
(* not called again for that request.                                       *)
NothingAfterDone == [][done = 1 /\ calls' = calls => /\ done' = 1
                                                     /\ heard' = heard /\ started' = started]_vars

(* Every request comes to an end if the engine works its text off.          *)
SpeakReturns == EngineWorksTextOff => (pc # "idle" ~> pc \in {"idle", "crashed"})

(* stopSync returns.                                                        *)
StopSyncReturns == EngineWorksTextOff => (main = "waiting" ~> main # "waiting" \/ ~ Alive)

(* A stop while samples are fetched ends the synthesis even if the engine   *)
(* is busy for ever.                                                        *)
StopEnds == pc = "get" /\ picoSynthAbort = 1 ~> ~ Synthesizing

(* No caller waits for ever, unless the process ends.                       *)
CallersReturn == SpeakReturns /\ StopSyncReturns /\ StopEnds

-----------------------------------------------------------------------------
(* What comments say, and the code does not do                              *)

(* TtsEngine.h of stop: it interrupts the synthesis; no more text is spoken *)
(* afterwards.                                                              *)
StopInterrupts == [][remaining' = remaining - 1 /\ pc' = "get" => ~ stopped]_vars

(* The proxy of stopSync: the mutex protects the resources of the            *)
(* synthesizer; nobody works with storage that is deleted.                  *)
StorageProtected == ~ deletedUsed

(* picoapi.h of pico_getData: it gives the number of bytes it returned, so  *)
(* no samples are passed on twice.                                          *)
HeardOnce == \A i, j \in 1 .. Len(heard) : heard[i] = heard[j] => i = j
=============================================================================
