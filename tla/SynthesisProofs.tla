--------------------------- MODULE SynthesisProofs ---------------------------
(***************************************************************************)
(* Proofs about Synthesis for every set of languages, length of text, size  *)
(* of buffer and number of requests and set-ups: the voice that speaks is   *)
(* the one asked for, and storage it began to speak with stays till it ends. *)
(***************************************************************************)
EXTENDS Synthesis, TLAPS

\* The language is set, and the text not yet spoken.
Prepared == pc \in {"speak", "lockSpeak", "entry", "outer", "get", "store", "chunk", "clear"}

\* The synthesis thread holds the mutex exactly while it synthesizes.
MutexHeld == Alive => IF Synthesizing THEN engineMutex = Speaker ELSE engineMutex = Nobody

\* If there is a voice it is the one asked for: a shut-down takes it away.
VoiceAsAsked == Prepared => voice \in {NoLang, asked}

\* A proxy is missing only while the service is down.
ProxyInUse == main # "down" => proxy # 0

IInv == /\ MutexHeld /\ ProxyInUse
        /\ StorageHeld /\ VoiceIsCurrent /\ SpokenAsAsked
        /\ VoiceAsAsked

-----------------------------------------------------------------------------
\* A step of the synthesis thread inside synthesizeText that does not speak.
LEMMA InsidePreserves ==
    ASSUME IInv, Synthesizing, Synthesizing',
           Prepared' => Prepared,
           pc' \in {"get", "store"} => voice = asked,
           UNCHANGED <<service, memory, engineMutex, tts, mine, asked>>
    PROVE  IInv'
  BY DEF IInv, MutexHeld, ProxyInUse, StorageHeld, VoiceIsCurrent, SpokenAsAsked,
         VoiceAsAsked, Alive, memory, Prepared, Synthesizing, service, tts

LEMMA RequestPreserves ==
    ASSUME IInv, NEW l \in Langs, Request(l)
    PROVE  IInv'
  BY DEF IInv, MutexHeld, ProxyInUse, StorageHeld, VoiceIsCurrent, SpokenAsAsked,
         VoiceAsAsked, Alive, memory, Prepared, Synthesizing, Request, service, tts

LEMMA CallPreserves ==
    ASSUME IInv, CallSetLanguage \/ CallSpeak
    PROVE  IInv'
  BY DEF IInv, MutexHeld, ProxyInUse, StorageHeld, VoiceIsCurrent, SpokenAsAsked,
         VoiceAsAsked, Alive, memory, Prepared, Synthesizing,
         CallSetLanguage, CallSpeak, CallNative, AnswerError, service, tts

LEMMA SetLanguagePreserves ==
    ASSUME IInv, SetLanguage
    PROVE  IInv'
  BY SynthesisAssumption
     DEF IInv, MutexHeld, ProxyInUse, StorageHeld, VoiceIsCurrent, SpokenAsAsked,
         VoiceAsAsked, Alive, memory, Prepared, Synthesizing,
         SetLanguage, Uses, SwitchSucceeds, SwitchFails, AlreadyLoaded, AnswerError,
         service, tts

LEMMA EnterSpeakPreserves ==
    ASSUME IInv, EnterSpeak
    PROVE  IInv'
  BY SynthesisAssumption
     DEF IInv, MutexHeld, ProxyInUse, StorageHeld, VoiceIsCurrent, SpokenAsAsked,
         VoiceAsAsked, Alive, memory, Prepared, Synthesizing, EnterSpeak, Uses, AnswerError, service, tts

LEMMA EntryPreserves ==
    ASSUME IInv, Entry
    PROVE  IInv'
  BY SynthesisAssumption
     DEF IInv, MutexHeld, ProxyInUse, StorageHeld, VoiceIsCurrent, SpokenAsAsked,
         VoiceAsAsked, Alive, memory, Prepared, Synthesizing,
         Entry, SwitchSucceeds, SwitchFails, AlreadyLoaded, Elsewhere, service, tts

LEMMA OuterPreserves ==
    ASSUME IInv, Outer
    PROVE  IInv'
  <1>1. UNCHANGED <<service, memory, engineMutex, tts, mine, asked>>
    BY DEF Outer, Elsewhere
  <1>2. pc = "outer" /\ pc' \in {"finish", "fail", "get"}
    BY DEF Outer
  <1>3. pc' = "get" => voice # NoLang
    BY DEF Outer
  <1>4. Synthesizing /\ voice \in {NoLang, asked}
    BY <1>2 DEF IInv, Synthesizing, VoiceAsAsked, Prepared
  <1>5. pc' \in {"get", "store"} => voice = asked
    BY <1>2, <1>3, <1>4
  <1>6. Synthesizing' /\ Prepared
    BY <1>2 DEF Synthesizing, Prepared
  <1>. QED BY <1>1, <1>4, <1>5, <1>6, InsidePreserves

LEMMA GetPreserves ==
    ASSUME IInv, Get(GetAborted) \/ Get(GetPiece) \/ Get(GetNothing) \/ Get(GetIdle) \/ Get(GetError)
    PROVE  IInv'
  <1>1. UNCHANGED <<service, memory, engineMutex, tts, mine, asked>>
    BY DEF Get, Elsewhere
  <1>2. pc = "get" /\ pc' \in {"get", "store", "chunk"}
    BY DEF Get, GetAborted, GetPiece, GetNothing, GetIdle, GetError
  <1>3. voice = asked
    BY <1>2 DEF IInv, SpokenAsAsked
  <1>4. Synthesizing /\ Synthesizing' /\ Prepared
    BY <1>2 DEF Synthesizing, Prepared
  <1>. QED BY <1>1, <1>3, <1>4, InsidePreserves

LEMMA StorePreserves ==
    ASSUME IInv, Store
    PROVE  IInv'
  <1>1. UNCHANGED <<service, memory, engineMutex, tts, mine, asked>>
    BY DEF Store, Elsewhere
  <1>2. pc = "store" /\ pc' \in {"get", "chunk"}
    BY DEF Store, StoreAfterCallback, Again
  <1>3. voice = asked
    BY <1>2 DEF IInv, SpokenAsAsked
  <1>4. Synthesizing /\ Synthesizing' /\ Prepared
    BY <1>2 DEF Synthesizing, Prepared
  <1>. QED BY <1>1, <1>3, <1>4, InsidePreserves

LEMMA AfterSamplesPreserves ==
    ASSUME IInv, Chunk \/ Clear \/ Failed \/ Finish
    PROVE  IInv'
  <1>1. UNCHANGED <<service, memory, engineMutex, tts, mine, asked>>
    BY DEF Chunk, Clear, Failed, Finish, Elsewhere
  <1>2. /\ pc \in {"chunk", "clear", "failed", "finish"}
        /\ pc' \in {"clear", "outer", "failed", "fail", "succeed"}
        /\ pc' \in {"clear", "outer"} => pc \in {"chunk", "clear"}
    BY DEF Chunk, Clear, Failed, Finish
  <1>3. Synthesizing /\ Synthesizing' /\ (Prepared' => Prepared)
    BY <1>2 DEF Synthesizing, Prepared
  <1>. QED BY <1>1, <1>2, <1>3, InsidePreserves

LEMMA ReturnPreserves ==
    ASSUME IInv, Return
    PROVE  IInv'
  BY DEF IInv, MutexHeld, ProxyInUse, StorageHeld, VoiceIsCurrent, SpokenAsAsked,
         VoiceAsAsked, Alive, memory, Prepared, Synthesizing,
         Return, Unlock, AnswerError, Elsewhere, service, tts

\* A stop, a refusal and stopSync change nothing the invariant speaks of but
\* the place of the main thread; a stop may use deleted storage.
LEMMA StopPreserves ==
    ASSUME IInv, Refuse \/ Stop \/ StopSync \/ Synced
    PROVE  IInv'
  <1>1. /\ UNCHANGED <<proxy, storage, engineMutex, tts, pc, mine, asked>>
        /\ \/ main' = main
           \/ main \in {"running", "waiting"} /\ main' \in {"waiting", "synced"}
    BY DEF Refuse, Stop, StopSync, Synced, service, memory, history
  <1>2. deletedUsed => deletedUsed'
    <2>1. \/ deletedUsed' = deletedUsed
          \/ \E p \in {proxy} \cup shut : deletedUsed' = (deletedUsed \/ storage # p)
      BY Zenon DEF Refuse, Stop, Uses, StopSync, Synced, memory
    <2>. QED BY <2>1, Zenon
  <1>. QED BY <1>1, <1>2 DEF IInv, MutexHeld, ProxyInUse, StorageHeld, VoiceIsCurrent, SpokenAsAsked,
                       VoiceAsAsked, Alive, Prepared, Synthesizing, tts

\* Nothing is said of a process that has ended.
LEMMA CrashPreserves ==
    ASSUME IInv, Crash
    PROVE  IInv'
  BY DEF IInv, MutexHeld, ProxyInUse, StorageHeld, VoiceIsCurrent, SpokenAsAsked,
         VoiceAsAsked, Alive, memory, Prepared, Synthesizing, Crash, service, tts

\* The mutex is free, so nobody synthesizes.
LEMMA ShutdownPreserves ==
    ASSUME IInv, Shutdown
    PROVE  IInv'
  BY SynthesisAssumption
     DEF IInv, MutexHeld, ProxyInUse, StorageHeld, VoiceIsCurrent, SpokenAsAsked,
         VoiceAsAsked, Alive, memory, Prepared, Synthesizing, Shutdown

LEMMA ForgetPreserves ==
    ASSUME IInv, Forget
    PROVE  IInv'
  BY DEF IInv, MutexHeld, ProxyInUse, StorageHeld, VoiceIsCurrent, SpokenAsAsked,
         VoiceAsAsked, Alive, memory, Prepared, Synthesizing, Forget, tts

\* A new proxy is there, and nobody synthesizes.
LEMMA SetUpPreserves ==
    ASSUME IInv, SetUp
    PROVE  IInv'
  <1>1. PICK p \in 1 .. MaxProxies : storage' = p /\ proxy' = p
    BY DEF SetUp
  <1>2. p # 0
    BY <1>1, SynthesisAssumption, SMT
  <1>3. ~ Synthesizing
    BY SynthesisAssumption DEF IInv, MutexHeld, SetUp
  <1>. QED BY <1>1, <1>2, <1>3
       DEF IInv, MutexHeld, ProxyInUse, StorageHeld, VoiceIsCurrent, SpokenAsAsked, VoiceAsAsked,
           Prepared, Synthesizing, SetUp, tts

(* The strengthened invariant holds in every reachable state.               *)
THEOREM SynthesisIInv == Spec => []IInv
  <1>1. Init => IInv
    BY SynthesisAssumption
       DEF Init, IInv, MutexHeld, ProxyInUse, StorageHeld, VoiceIsCurrent, SpokenAsAsked,
         VoiceAsAsked, Alive, memory, Prepared, Synthesizing
  <1>2. IInv /\ [Next]_vars => IInv'
    <2>. SUFFICES ASSUME IInv, [Next]_vars PROVE IInv'
      OBVIOUS
    <2>1. CASE \E l \in Langs : Request(l)
      BY <2>1, RequestPreserves
    <2>2. CASE Works
      BY <2>2, CallPreserves, SetLanguagePreserves, EnterSpeakPreserves, EntryPreserves,
         OuterPreserves, StorePreserves, AfterSamplesPreserves, ReturnPreserves, GetPreserves
         DEF Works
    <2>3. CASE Produces \/ Get(GetNothing) \/ Get(GetError)
      BY <2>3, GetPreserves DEF Produces
    <2>4. CASE Refuse \/ Stop \/ StopSync \/ Synced
      BY <2>4, StopPreserves
    <2>5. CASE Shutdown \/ Forget \/ SetUp
      BY <2>5, ShutdownPreserves, ForgetPreserves, SetUpPreserves
    <2>6. CASE Crash
      BY <2>6, CrashPreserves
    <2>7. CASE UNCHANGED vars
      <3>1. UNCHANGED <<proxy, shut, main, memory, engineMutex, tts, pc, mine, asked>>
        BY <2>7 DEF vars, service
      <3>. QED BY <3>1 DEF IInv, MutexHeld, ProxyInUse, StorageHeld, VoiceIsCurrent,
                           SpokenAsAsked, VoiceAsAsked, Alive, memory, Prepared, Synthesizing, tts
    <2>. QED BY <2>1, <2>2, <2>3, <2>4, <2>5, <2>6, <2>7 DEF Next
  <1>. QED BY <1>1, <1>2, PTL DEF Spec

(* What is spoken is spoken in the language asked for.                      *)
THEOREM SynthesisSpokenAsAsked == Spec => []SpokenAsAsked
  <1>1. IInv => SpokenAsAsked
    BY DEF IInv
  <1>. QED BY SynthesisIInv, <1>1, PTL

(* The storage is not deleted while synthesizeText works in its buffer: only  *)
(* storage that was deleted before speak had the mutex is used, and then    *)
(* deletedUsed says so.                                                     *)
THEOREM SynthesisStorageHeld == Spec => []StorageHeld
  <1>1. IInv => StorageHeld
    BY DEF IInv
  <1>. QED BY SynthesisIInv, <1>1, PTL

(* No engine is left behind in another language than the one noted.         *)
THEOREM SynthesisVoiceIsCurrent == Spec => []VoiceIsCurrent
  <1>1. IInv => VoiceIsCurrent
    BY DEF IInv
  <1>. QED BY SynthesisIInv, <1>1, PTL

-----------------------------------------------------------------------------
(* What the client hears.                                                   *)

\* Before the samples' loop of a request, and in it.
Starting == pc \in {"setLanguage", "lockLanguage", "speak", "lockSpeak", "entry"}
Looping == pc \in {"outer", "get", "store", "chunk", "clear", "failed", "finish"}

\* All the engine has of the text is spoken and the loop goes on with the text.
SpokenOff == pc = "outer" \/ (pc \in {"chunk", "clear"} /\ ret = "idle")

Numbered(s) == \A i \in 1 .. Len(s) : s[i] = i

\* What the client has and what it will get of the buffer.
Delivered == heard \o Pieces(buffer)

\* A buffer is all pieces, or all zeros after the client took it.
Sounding(b) == \A i \in 1 .. Len(b) : b[i] # Silence
Blank(b) == Len(b) = Capacity /\ \A i \in 1 .. Len(b) : b[i] = Silence

\* Nothing is left over from an earlier request.
StartsAfresh == Starting => ~ started /\ heard = <<>> /\ done = 0 /\ ~ failed

BufferOK == /\ Looping => Blank(buffer) \/ Sounding(buffer)
            /\ outbuf # Silence

\* No more text is spoken after pico_getData failed.
FailedEnds == failed => \/ pc \in {"failed", "fail", "idle", "crashed"}
                        \/ pc \in {"chunk", "clear"} /\ ret # "idle"
                        \/ pc = "store" /\ ret = "error"

\* Heard and in the buffer are all the pieces made, but for the one in outbuf
\* and, once the loop is left early, the one the client refused.
SamplesInOrder ==
    ~ failed => /\ Numbered(heard)
                /\ Looping => Numbered(Delivered)
                /\ pc \in {"get", "finish"} \/ SpokenOff => Len(Delivered) = made
                /\ pc = "store" => Len(Delivered) = made - 1 /\ outbuf = made /\ ret = "busy"

\* The loop is aborted only by a stop or a refusal, else all text is spoken.
TextSpoken == /\ SpokenOff => toSpeak = 0
              /\ Looping /\ picoSynthAbort = 1 => stopped \/ refusing
              /\ pc = "finish" /\ ~ stopped /\ ~ refusing => remaining = 0 /\ toSpeak = 0

\* A request is finished at most once, at the end of it.
DoneAtEnd == done \in {0, 1} /\ (Looping => done = 0)

Delivering == /\ StartsAfresh /\ BufferOK /\ FailedEnds /\ SamplesInOrder
              /\ TextSpoken /\ DoneAtEnd /\ AllHeard

-----------------------------------------------------------------------------
(* Buffers.                                                                 *)

LEMMA SoundingPieces ==
    ASSUME NEW b \in Seq(Int), Sounding(b) PROVE Pieces(b) = b
  <1>1. {i \in DOMAIN b : b[i] = Silence} = {}
    BY SMT DEF Sounding
  <1>. QED BY <1>1, Zenon DEF Pieces

LEMMA BlankPieces ==
    ASSUME NEW b \in Seq(Int), Blank(b) PROVE Pieces(b) = <<>>
  <1>. DEFINE Zeros == {i \in DOMAIN b : b[i] = Silence}
              k == CHOOSE i \in Zeros : \A j \in Zeros : i =< j
  <1>1. Zeros = 1 .. Len(b) /\ 1 \in Zeros /\ \A j \in Zeros : 1 =< j /\ j \in Int
    BY SynthesisAssumption, SMT DEF Blank
  <1>. HIDE DEF Zeros
  <1>2. k \in Zeros /\ \A j \in Zeros : k =< j
    BY <1>1, Zenon
  <1>. HIDE DEF k
  <1>3. k = 1
    BY <1>1, <1>2, SMT
  <1>4. SubSeq(b, 1, k - 1) = <<>>
    BY <1>3, SMT
  <1>. QED BY <1>1, <1>4, Zenon DEF Pieces, Zeros, k

LEMMA NextNumber ==
    ASSUME NEW s \in Seq(Int), Numbered(s), NEW x, x = Len(s) + 1
    PROVE  Numbered(Append(s, x)) /\ Len(Append(s, x)) = x
  BY SMT DEF Numbered

\* A piece is put behind the others.
LEMMA PiecesAppend ==
    ASSUME NEW s \in Seq(Int), NEW b \in Seq(Int), NEW x \in Int, x # Silence, Sounding(b)
    PROVE  /\ Append(b, x) \in Seq(Int) /\ Len(Append(b, x)) = Len(b) + 1
           /\ Sounding(Append(b, x))
           /\ s \o Pieces(Append(b, x)) = Append(s \o Pieces(b), x)
  <1>1. Append(b, x) \in Seq(Int) /\ Len(Append(b, x)) = Len(b) + 1 /\ Sounding(Append(b, x))
    BY SMT DEF Sounding
  <1>2. s \o Append(b, x) = Append(s \o b, x)
    BY SMT
  <1>. QED BY <1>1, <1>2, SoundingPieces, Zenon

\* The client takes a buffer and gives back zeros.
LEMMA TakenDelivers ==
    ASSUME TypeOK, Looping, BufferOK, CallbackTaken(buffer)
    PROVE  /\ heard' = Delivered /\ heard' \in Seq(Int)
           /\ buffer' \in Seq(Int) /\ Len(buffer') = Capacity /\ Blank(buffer')
           /\ Delivered' = Delivered
           /\ started' \in BOOLEAN
  <1>1. buffer \in Seq(Int) /\ heard \in Seq(Int) /\ started \in BOOLEAN
    BY DEF TypeOK, LoopTypes, ClientTypes
  <1>2. Pieces(buffer) \in Seq(Int)
    <2>1. <<>> \in Seq(Int)
      BY SMT
    <2>. QED BY <1>1, <2>1, SoundingPieces, BlankPieces, Zenon DEF BufferOK
  <1>3. Delivered \in Seq(Int)
    BY <1>1, <1>2, SMT DEF Delivered
  <1>4. buffer = <<>> => Delivered = heard
    <2>1. ASSUME buffer = <<>> PROVE Pieces(buffer) = <<>>
      <3>1. Sounding(<<>>) /\ <<>> \in Seq(Int)
        BY SMT DEF Sounding
      <3>. QED BY <2>1, <3>1, SoundingPieces, Zenon
    <2>2. heard \o <<>> = heard
      BY <1>1, SMT
    <2>. QED BY <2>1, <2>2, Zenon DEF Delivered
  <1>5. heard' = Delivered
    BY <1>4, Zenon DEF CallbackTaken, TakeAudio, Delivered
  <1>6. buffer' = [i \in 1 .. Capacity |-> Silence] /\ started' \in BOOLEAN
    BY <1>1, Zenon DEF CallbackTaken, TakeAudio
  <1>7. buffer' \in Seq(Int) /\ Len(buffer') = Capacity /\ Blank(buffer')
    BY <1>6, SynthesisAssumption, SMT DEF Blank, Silence
  <1>8. Delivered' = heard' \o <<>>
    BY <1>7, BlankPieces, Zenon DEF Delivered
  <1>9. Delivered' = heard'
    BY <1>3, <1>5, <1>8, SMT
  <1>. QED BY <1>3, <1>5, <1>6, <1>7, <1>9, Zenon

-----------------------------------------------------------------------------
(* The steps around the samples' loop.                                      *)

LEMMA RequestDelivers ==
    ASSUME TypeOK, Delivering, NEW l \in Langs, Request(l)
    PROVE  TypeOK' /\ Delivering'
  <1>1. TypeOK'
    <2>1. ServiceTypes'
      BY SynthesisAssumption, SMT DEF TypeOK, ServiceTypes, Request, service, memory, tts
    <2>2. SpeakerTypes'
      BY DEF TypeOK, SpeakerTypes, ServiceTypes, Request
    <2>3. LoopTypes' /\ ClientTypes'
      <3>1. <<>> \in Seq(Int) /\ 0 \in Nat
        BY SMT
      <3>. QED BY <3>1 DEF TypeOK, LoopTypes, ClientTypes, Request, loop
    <2>. QED BY <2>1, <2>2, <2>3 DEF TypeOK
  <1>2. heard' = <<>> /\ ~ started' /\ done' = 0 /\ ~ failed' /\ pc' = "setLanguage" /\ outbuf' = outbuf
    BY Zenon DEF Request, loop
  <1>3. Numbered(heard')
    BY <1>2, SMT DEF Numbered
  <1>. QED BY <1>1, <1>2, <1>3
       DEF Delivering, StartsAfresh, BufferOK, FailedEnds, SamplesInOrder, TextSpoken, DoneAtEnd,
           AllHeard, Starting, Looping, SpokenOff

\* A call is answered, or the thread goes on to the next.
LEMMA CallDelivers ==
    ASSUME TypeOK, Delivering, CallSetLanguage \/ SetLanguage \/ CallSpeak \/ EnterSpeak
    PROVE  TypeOK' /\ Delivering'
  <1>1. TypeOK'
    <2>1. ServiceTypes' /\ SpeakerTypes'
      BY DEF TypeOK, ServiceTypes, SpeakerTypes, CallSetLanguage, CallSpeak, CallNative, SetLanguage,
             EnterSpeak, Uses, AnswerError, memory, SwitchSucceeds, SwitchFails, service, tts, Synthesizing
    <2>2. LoopTypes'
      BY DEF TypeOK, LoopTypes, CallSetLanguage, CallSpeak, CallNative, SetLanguage, EnterSpeak, loop
    <2>3. errors' \in Nat
      BY SMT DEF TypeOK, ClientTypes, CallSetLanguage, CallSpeak, CallNative, SetLanguage, EnterSpeak,
                 AnswerError, client
    <2>4. ClientTypes'
      BY <2>3 DEF TypeOK, ClientTypes, CallSetLanguage, CallSpeak, CallNative, SetLanguage, EnterSpeak,
                  AnswerError, client, history
    <2>. QED BY <2>1, <2>2, <2>4 DEF TypeOK
  <1>2. /\ pc \in {"setLanguage", "lockLanguage", "speak", "lockSpeak"}
        /\ pc' \in {"idle", "lockLanguage", "speak", "lockSpeak", "entry"}
        /\ UNCHANGED <<heard, started, done, failed, outbuf>>
    BY DEF CallSetLanguage, CallSpeak, CallNative, SetLanguage, EnterSpeak, AnswerError, loop,
           client, history
  <1>3. Numbered(<<>>)
    BY SMT DEF Numbered
  <1>. QED BY <1>1, <1>2, <1>3
       DEF Delivering, StartsAfresh, BufferOK, FailedEnds, SamplesInOrder, TextSpoken, DoneAtEnd,
           AllHeard, Starting, Looping, SpokenOff

LEMMA EntryDelivers ==
    ASSUME TypeOK, Delivering, Entry
    PROVE  TypeOK' /\ Delivering'
  <1>1. TypeOK'
    <2>1. ServiceTypes' /\ SpeakerTypes'
      BY DEF TypeOK, ServiceTypes, SpeakerTypes, Entry, SwitchSucceeds, SwitchFails, Elsewhere, memory,
             service, tts, Synthesizing
    <2>2. LoopTypes'
      <3>1. \/ UNCHANGED loop
            \/ /\ remaining' \in 1 .. MaxText /\ buffer' = <<>> /\ made' = 0 /\ outbuf' = Garbage
               /\ bytesRecv' \in {0, 1} /\ ret' = "ok" /\ toSpeak' = 0
        BY Zenon DEF Entry
      <3>2. CASE UNCHANGED loop
        BY <3>2 DEF TypeOK, LoopTypes, loop
      <3>3. ASSUME NEW n \in 1 .. MaxText PROVE n \in 0 .. MaxText
        BY SynthesisAssumption, SMT
      <3>4. <<>> \in Seq(Int) /\ Len(<<>>) =< Capacity /\ 0 \in Nat /\ Garbage \in Int
        BY SynthesisAssumption, SMT DEF Garbage
      <3>. QED BY <3>1, <3>2, <3>3, <3>4, Zenon DEF LoopTypes
    <2>3. ClientTypes'
      BY DEF TypeOK, ClientTypes, Entry, Elsewhere, client, history
    <2>. QED BY <2>1, <2>2, <2>3 DEF TypeOK
  <1>2. /\ pc = "entry" /\ pc' \in {"outer", "succeed", "fail"} /\ picoSynthAbort' = 0
        /\ UNCHANGED <<heard, started, done, failed>>
        /\ pc' # "outer" => outbuf' = outbuf
        /\ pc' = "outer" => buffer' = <<>> /\ made' = 0 /\ outbuf' = Garbage /\ toSpeak' = 0
    BY DEF Entry, loop, client, history
  <1>3. heard = <<>> /\ ~ started /\ done = 0 /\ ~ failed /\ outbuf # Silence
    BY <1>2 DEF Delivering, StartsAfresh, BufferOK, Starting
  <1>4. outbuf' # Silence
    BY <1>2, <1>3 DEF Garbage, Silence
  <1>5. Numbered(<<>>) /\ Sounding(<<>>) /\ <<>> \in Seq(Int) /\ <<>> \o <<>> = <<>> /\ Len(<<>>) = 0
    BY SMT DEF Numbered, Sounding
  <1>6. pc' = "outer" => Delivered' = <<>>
    BY <1>2, <1>3, <1>5, SoundingPieces, Zenon DEF Delivered
  <1>. QED BY <1>1, <1>2, <1>3, <1>4, <1>5, <1>6
       DEF Delivering, StartsAfresh, BufferOK, FailedEnds, SamplesInOrder, TextSpoken, DoneAtEnd,
           AllHeard, Starting, Looping, SpokenOff

LEMMA ReturnDelivers ==
    ASSUME TypeOK, Delivering, Return
    PROVE  TypeOK' /\ Delivering'
  <1>1. TypeOK'
    <2>1. ServiceTypes' /\ SpeakerTypes' /\ LoopTypes'
      BY DEF TypeOK, ServiceTypes, SpeakerTypes, LoopTypes, Return, AnswerError, Unlock, Elsewhere,
             service, memory, tts, loop, Synthesizing
    <2>2. errors' \in Nat
      BY SMT DEF TypeOK, ClientTypes, Return, AnswerError, client
    <2>3. ClientTypes'
      BY <2>2 DEF TypeOK, ClientTypes, Return, AnswerError, Elsewhere, client, history
    <2>. QED BY <2>1, <2>2, <2>3 DEF TypeOK
  <1>2. /\ pc \in {"succeed", "fail"} /\ pc' = "idle"
        /\ UNCHANGED <<heard, started, done, failed, outbuf>>
    BY DEF Return, AnswerError, loop, client, history
  <1>. QED BY <1>1, <1>2
       DEF Delivering, StartsAfresh, BufferOK, FailedEnds, SamplesInOrder, TextSpoken, DoneAtEnd,
           AllHeard, Starting, Looping, SpokenOff

\* Others stop the synthesis or refuse what it yields, and touch nothing else of it.
LEMMA OthersDeliver ==
    ASSUME TypeOK, IInv, Delivering,
           Refuse \/ Stop \/ StopSync \/ Synced \/ Shutdown \/ Forget \/ SetUp
    PROVE  TypeOK' /\ Delivering'
  <1>1. TypeOK'
    <2>1. ServiceTypes'
      <3>1. 0 \in 0 .. MaxProxies
        BY SynthesisAssumption, SMT
      <3>2. Forget => proxy \in 1 .. MaxProxies
        BY SynthesisAssumption, SMT DEF TypeOK, ServiceTypes, IInv, ProxyInUse, Forget
      <3>3. \A p \in 1 .. MaxProxies : p \in 0 .. MaxProxies
        BY SMT
      <3>4. CASE Refuse \/ Stop \/ StopSync \/ Synced
        <4>1. UNCHANGED <<proxy, shut, calls, storage, engineMutex, tts>>
          BY <3>4 DEF Refuse, Stop, StopSync, Synced, service, memory
        <4>2. main' \in {main, "waiting", "synced"} /\ picoSynthAbort' \in {picoSynthAbort, 1}
          BY <3>4 DEF Refuse, Stop, StopSync, StopEngine, Synced, service
        <4>3. deletedUsed' \in BOOLEAN
          <5>1. deletedUsed' = deletedUsed \/ \E p : deletedUsed' = (deletedUsed \/ storage # p)
            BY <3>4 DEF Refuse, Stop, Uses, StopSync, Synced, memory
          <5>. QED BY <5>1, Zenon DEF TypeOK, ServiceTypes
        <4>. QED BY <4>1, <4>2, <4>3 DEF TypeOK, ServiceTypes, tts
      <3>5. CASE Shutdown \/ Forget \/ SetUp
        BY <3>1, <3>2, <3>3, <3>5 DEF TypeOK, ServiceTypes, Shutdown, Forget, SetUp, memory, tts
      <3>. QED BY <3>4, <3>5
    <2>2. SpeakerTypes' /\ LoopTypes'
      BY DEF TypeOK, SpeakerTypes, LoopTypes, Refuse, Stop, StopSync, Synced, Shutdown, Forget, SetUp,
             loop, Synthesizing
    <2>3. ClientTypes'
      <3>1. stopped' = stopped \/ stopped' = (stopped \/ Synthesizing)
        BY DEF Refuse, Stop, StopSync, StopEngine, Synced, Shutdown, Forget, SetUp, history
      <3>2. stopped' \in BOOLEAN
        BY <3>1, Zenon DEF TypeOK, ClientTypes
      <3>. QED BY <3>2, Zenon
               DEF TypeOK, ClientTypes, Refuse, Stop, StopSync, Synced, Shutdown, Forget, SetUp,
                   client, history
    <2>. QED BY <2>1, <2>2, <2>3 DEF TypeOK
  <1>2. /\ UNCHANGED <<pc, remaining, toSpeak, made, outbuf, buffer, ret, heard, started, done, failed>>
        /\ refusing' = refusing \/ refusing' = TRUE
        /\ \/ UNCHANGED <<picoSynthAbort, stopped>>
           \/ stopped' = (stopped \/ Synthesizing)
    BY DEF Refuse, Stop, StopSync, StopEngine, Synced, Shutdown, Forget, SetUp, loop, client, history
  <1>3. /\ StartsAfresh' /\ BufferOK' /\ FailedEnds' /\ SamplesInOrder' /\ DoneAtEnd'
    BY <1>2 DEF Delivering, StartsAfresh, BufferOK, FailedEnds, SamplesInOrder, DoneAtEnd, Delivered,
                Starting, Looping, SpokenOff
  <1>4. refusing \in BOOLEAN /\ stopped \in BOOLEAN
    BY DEF TypeOK, ClientTypes
  <1>5. TextSpoken' /\ AllHeard'
    BY <1>2, <1>4 DEF Delivering, TextSpoken, AllHeard, Looping, SpokenOff, Synthesizing
  <1>. QED BY <1>1, <1>3, <1>5, Zenon DEF Delivering

\* The process ends: nothing more is delivered.
LEMMA CrashDelivers ==
    ASSUME TypeOK, Delivering, Crash
    PROVE  TypeOK' /\ Delivering'
  <1>1. /\ pc' = "crashed"
        /\ UNCHANGED service /\ UNCHANGED memory /\ UNCHANGED tts /\ UNCHANGED loop
        /\ UNCHANGED client /\ UNCHANGED history
        /\ UNCHANGED <<calls, engineMutex, picoSynthAbort, mine, asked, refusing>>
    BY DEF Crash
  <1>2. TypeOK'
    <2>1. ServiceTypes' /\ SpeakerTypes'
      BY <1>1, Zenon DEF TypeOK, ServiceTypes, SpeakerTypes, service, memory, tts
    <2>2. LoopTypes' /\ ClientTypes'
      BY <1>1, Zenon DEF TypeOK, LoopTypes, ClientTypes, loop, client, history
    <2>. QED BY <2>1, <2>2 DEF TypeOK
  <1>3. UNCHANGED <<outbuf, done, heard, failed>>
    BY <1>1 DEF loop, client, history
  <1>. QED BY <1>1, <1>2, <1>3
       DEF Delivering, StartsAfresh, BufferOK, FailedEnds, SamplesInOrder, TextSpoken, DoneAtEnd,
           AllHeard, Starting, Looping, SpokenOff

-----------------------------------------------------------------------------
(* The samples' loop.                                                       *)

\* A step of the loop changes neither the service nor who speaks in which language.
LEMMA LoopTypesKept ==
    ASSUME TypeOK, UNCHANGED <<Elsewhere, engineMutex, tts, asked>>,
           picoSynthAbort' \in {0, 1}, Synthesizing'
    PROVE  ServiceTypes' /\ SpeakerTypes'
  BY DEF TypeOK, ServiceTypes, SpeakerTypes, Elsewhere, service, memory, tts

LEMMA OuterDelivers ==
    ASSUME TypeOK, Delivering, Outer
    PROVE  TypeOK' /\ Delivering'
  <1>1. /\ pc = "outer" /\ pc' \in {"get", "finish", "fail"}
        /\ UNCHANGED <<Elsewhere, engineMutex, picoSynthAbort, tts, asked, client, history>>
        /\ UNCHANGED <<made, outbuf, bytesRecv, buffer, ret>>
    BY DEF Outer, loop
  <1>2. /\ UNCHANGED <<heard, done, started, stopped, failed, refusing>>
        /\ Delivered' = Delivered
    BY <1>1 DEF client, history, Elsewhere, Delivered
  <1>3. TypeOK'
    <2>1. picoSynthAbort' \in {0, 1} /\ Synthesizing'
      BY <1>1 DEF TypeOK, ServiceTypes, Synthesizing
    <2>2. remaining' \in 0 .. MaxText /\ toSpeak' \in Nat
      <3>1. remaining \in 0 .. MaxText /\ toSpeak \in Nat
        BY DEF TypeOK, LoopTypes
      <3>2. \/ UNCHANGED <<remaining, toSpeak>>
            \/ toSpeak' = 0 /\ remaining' = remaining
            \/ /\ remaining > 0 /\ remaining' = remaining - 1
               /\ \E n \in 0 .. MaxPieces : toSpeak' = toSpeak + n
        BY DEF Outer, loop
      <3>. QED BY <3>1, <3>2, SynthesisAssumption, SMT
    <2>3. LoopTypes' /\ ClientTypes'
      BY <1>1, <2>2 DEF TypeOK, LoopTypes, ClientTypes, Elsewhere, client, history
    <2>. QED BY <1>1, <2>1, <2>3, LoopTypesKept DEF TypeOK
  <1>4. pc' = "finish" => toSpeak' = 0 /\ (remaining' = 0 \/ picoSynthAbort = 1)
    <2>1. toSpeak = 0
      BY <1>1 DEF Delivering, TextSpoken, SpokenOff
    <2>. QED BY <2>1 DEF Outer, loop
  <1>5. ~ failed /\ Looping /\ SpokenOff
    BY <1>1 DEF Delivering, FailedEnds, Looping, SpokenOff
  <1>6. TextSpoken' /\ AllHeard'
    BY <1>1, <1>2, <1>4, <1>5 DEF Delivering, TextSpoken, AllHeard, Looping, SpokenOff
  <1>7. SamplesInOrder' /\ StartsAfresh' /\ BufferOK' /\ FailedEnds' /\ DoneAtEnd'
    BY <1>1, <1>2, <1>5
       DEF Delivering, SamplesInOrder, StartsAfresh, BufferOK, FailedEnds, DoneAtEnd, Starting,
           Looping, SpokenOff
  <1>. QED BY <1>3, <1>6, <1>7 DEF Delivering

LEMMA GetDelivers ==
    ASSUME TypeOK, Delivering,
           Get(GetAborted) \/ Get(GetPiece) \/ Get(GetNothing) \/ Get(GetIdle) \/ Get(GetError)
    PROVE  TypeOK' /\ Delivering'
  <1>1. /\ pc = "get" /\ pc' \in {"get", "store", "chunk"}
        /\ UNCHANGED <<Elsewhere, engineMutex, picoSynthAbort, tts, asked, client, stopped>>
        /\ UNCHANGED <<remaining, buffer>>
    BY DEF Get, GetAborted, GetPiece, GetNothing, GetIdle, GetError
  <1>2. /\ UNCHANGED <<heard, done, started, stopped, refusing>>
        /\ Delivered' = Delivered
    BY <1>1 DEF client, Elsewhere, Delivered
  <1>3. made \in Nat /\ toSpeak \in Nat /\ bytesRecv \in {0, 1} /\ outbuf \in Int /\ failed \in BOOLEAN
    BY DEF TypeOK, LoopTypes, ClientTypes
  <1>4. \/ /\ pc' = "store" /\ ret' = "busy" /\ UNCHANGED failed
           /\ toSpeak > 0 /\ toSpeak' = toSpeak - 1 /\ made' = made + 1 /\ outbuf' = made + 1
        \/ /\ pc' = "get" /\ ret' = "busy" /\ UNCHANGED <<failed, toSpeak, made, outbuf>>
        \/ /\ pc' = "chunk" /\ ret' = "ok" /\ toSpeak' = 0 /\ UNCHANGED <<failed, made, outbuf>>
        \/ /\ pc' = "chunk" /\ ret' = "idle" /\ toSpeak = 0 /\ UNCHANGED <<failed, toSpeak, made, outbuf>>
        \/ /\ pc' \in {"chunk", "store"} /\ ret' = "error" /\ failed' = TRUE
           /\ UNCHANGED <<toSpeak, made, outbuf>>
    BY DEF Get, GetAborted, GetPiece, GetNothing, GetIdle, GetError
  <1>5. bytesRecv' \in {0, 1}
    BY <1>3 DEF Get, GetAborted, GetPiece, GetNothing, GetIdle, GetError
  <1>6. toSpeak' \in Nat /\ made' \in Nat /\ outbuf' \in Int
    <2>1. toSpeak > 0 => toSpeak - 1 \in Nat
      BY <1>3, SMT
    <2>2. made + 1 \in Nat /\ made + 1 \in Int /\ 0 \in Nat
      BY <1>3, SMT
    <2>. QED BY <1>3, <1>4, <2>1, <2>2
  <1>7. TypeOK'
    <2>1. picoSynthAbort' \in {0, 1} /\ Synthesizing'
      BY <1>1 DEF TypeOK, ServiceTypes, Synthesizing
    <2>2. LoopTypes'
      BY <1>1, <1>4, <1>5, <1>6 DEF TypeOK, LoopTypes
    <2>3. failed' \in BOOLEAN
      BY <1>3, <1>4, Zenon
    <2>4. ClientTypes'
      BY <1>1, <2>3, Zenon DEF TypeOK, ClientTypes, Elsewhere, client
    <2>. QED BY <1>1, <2>1, <2>2, <2>4, LoopTypesKept DEF TypeOK
  <1>8. /\ ~ failed /\ Looping /\ Looping' /\ Numbered(heard) /\ Numbered(Delivered) /\ Len(Delivered) = made
        /\ outbuf # Silence /\ done = 0 /\ (Blank(buffer) \/ Sounding(buffer))
    BY <1>1 DEF Delivering, FailedEnds, SamplesInOrder, BufferOK, DoneAtEnd, Looping, SpokenOff
  <1>9. outbuf' # Silence
    <2>1. made + 1 # 0
      BY <1>3, SMT
    <2>. QED BY <1>4, <1>8, <2>1 DEF Silence
  <1>10. SamplesInOrder'
    <2>1. made' = made + 1 => Len(Delivered) = made' - 1
      BY <1>3, <1>8, SMT
    <2>. QED BY <1>1, <1>2, <1>4, <1>8, <2>1 DEF SamplesInOrder, Looping, SpokenOff
  <1>11. TextSpoken' /\ AllHeard' /\ StartsAfresh' /\ FailedEnds'
    BY <1>1, <1>2, <1>4, <1>8
       DEF Delivering, TextSpoken, AllHeard, StartsAfresh, FailedEnds, Starting, Looping, SpokenOff
  <1>12. BufferOK' /\ DoneAtEnd'
    BY <1>1, <1>2, <1>8, <1>9 DEF BufferOK, DoneAtEnd
  <1>. QED BY <1>7, <1>10, <1>11, <1>12 DEF Delivering

\* The piece goes to the buffer, to the next one once the client has taken this
\* one, or is lost because the client refused.
LEMMA StoreDelivers ==
    ASSUME TypeOK, Delivering, Store
    PROVE  TypeOK' /\ Delivering'
  <1>1. /\ pc = "store" /\ pc' \in {"get", "chunk"}
        /\ UNCHANGED <<Elsewhere, engineMutex, tts, asked, remaining, made, outbuf, bytesRecv, history>>
        /\ UNCHANGED <<done, errors, requestData>>
    BY DEF Store, StoreAfterCallback, CallbackRefused, Again, client
  <1>2. UNCHANGED <<refusing, stopped, failed>>
    BY <1>1 DEF Elsewhere, history
  <1>3. /\ Looping /\ Looping' /\ BufferOK /\ done = 0 /\ outbuf # Silence
        /\ ret \in {"busy", "error"} /\ (failed => ret = "error")
        /\ picoSynthAbort = 1 => stopped \/ refusing
        /\ ~ failed => /\ Numbered(heard) /\ Numbered(Delivered)
                       /\ Len(Delivered) = made - 1 /\ outbuf = made /\ ret = "busy"
    BY <1>1 DEF Delivering, FailedEnds, SamplesInOrder, BufferOK, DoneAtEnd, TextSpoken, Looping
  <1>4. /\ buffer \in Seq(Int) /\ Len(buffer) =< Capacity /\ heard \in Seq(Int) /\ outbuf \in Int
        /\ made \in Nat /\ started \in BOOLEAN /\ picoSynthAbort \in {0, 1} /\ toSpeak \in Nat
        /\ ret \in {"ok", "busy", "idle", "error"}
    BY DEF TypeOK, ServiceTypes, LoopTypes, ClientTypes
  <1>5. Blank(buffer) \/ Sounding(buffer)
    BY <1>3 DEF BufferOK
  <1>6. Pieces(buffer) \in Seq(Int)
    <2>1. <<>> \in Seq(Int)
      BY SMT
    <2>. QED BY <1>4, <1>5, <2>1, SoundingPieces, BlankPieces, Zenon
  <1>7. Delivered \in Seq(Int)
    BY <1>4, <1>6, SMT DEF Delivered
  \* What is to be shown of each of the three cases.
  <1>8. ASSUME buffer' \in Seq(Int), Len(buffer') =< Capacity, heard' \in Seq(Int),
               started' \in BOOLEAN, picoSynthAbort' \in {0, 1}, toSpeak' \in Nat,
               ret' \in {"ok", "busy", "error"}, Sounding(buffer') \/ buffer' = buffer,
               picoSynthAbort' = 1 => stopped \/ refusing,
               failed => pc' = "chunk",
               ~ failed => Numbered(heard') /\ Numbered(Delivered'),
               ~ failed /\ pc' = "get" => Len(Delivered') = made
        PROVE  TypeOK' /\ Delivering'
    <2>1. TypeOK'
      <3>1. Synthesizing'
        BY <1>1 DEF Synthesizing
      <3>2. LoopTypes'
        BY <1>1, <1>8 DEF TypeOK, LoopTypes
      <3>3. ClientTypes'
        BY <1>1, <1>8, Zenon DEF TypeOK, ClientTypes, Elsewhere, history
      <3>. QED BY <1>1, <1>8, <3>1, <3>2, <3>3, LoopTypesKept DEF TypeOK
    <2>2. BufferOK' /\ DoneAtEnd'
      BY <1>1, <1>3, <1>5, <1>8 DEF BufferOK, DoneAtEnd
    <2>3. SamplesInOrder' /\ FailedEnds' /\ StartsAfresh'
      BY <1>1, <1>2, <1>8 DEF SamplesInOrder, FailedEnds, StartsAfresh, Starting, SpokenOff
    <2>4. TextSpoken' /\ AllHeard'
      BY <1>1, <1>2, <1>3, <1>8 DEF TextSpoken, AllHeard, SpokenOff
    <2>. QED BY <2>1, <2>2, <2>3, <2>4 DEF Delivering
  <1>9. ~ failed => /\ Numbered(Append(Delivered, outbuf)) /\ Len(Append(Delivered, outbuf)) = made
    <2>1. ~ failed => outbuf = Len(Delivered) + 1
      BY <1>3, <1>4, <1>7, SMT
    <2>. QED BY <1>3, <1>7, <2>1, NextNumber
  <1>10. CASE /\ Fits /\ buffer' = Append(buffer, outbuf) /\ pc' = Again(ret)
              /\ UNCHANGED client /\ UNCHANGED <<toSpeak, ret, picoSynthAbort>>
    <2>1. Sounding(buffer)
      <3>1. ~ Blank(buffer)
        BY <1>4, <1>10, SynthesisAssumption, SMT DEF Blank, Fits
      <3>. QED BY <1>5, <3>1
    <2>2. /\ buffer' \in Seq(Int) /\ Len(buffer') = Len(buffer) + 1 /\ Sounding(buffer')
          /\ heard \o Pieces(buffer') = Append(Delivered, outbuf)
      BY <1>3, <1>4, <1>10, <2>1, PiecesAppend, Zenon DEF Delivered
    <2>3. Len(buffer') =< Capacity
      BY <1>4, <1>10, <2>2, SynthesisAssumption, SMT DEF Fits
    <2>4. heard' = heard /\ started' = started
      BY <1>10 DEF client
    <2>5. Delivered' = Append(Delivered, outbuf)
      BY <2>2, <2>4, Zenon DEF Delivered
    <2>. QED BY <1>3, <1>4, <1>8, <1>9, <1>10, <2>2, <2>3, <2>4, <2>5 DEF Again
  <1>11. CASE StoreAfterCallback
    <2>1. /\ heard' = Delivered /\ buffer' = <<outbuf>> /\ pc' = Again(ret) /\ started' = TRUE
          /\ UNCHANGED <<toSpeak, ret, picoSynthAbort>>
      BY <1>11 DEF StoreAfterCallback, Delivered
    <2>2. /\ <<>> \in Seq(Int) /\ Sounding(<<>>) /\ Append(<<>>, outbuf) = <<outbuf>>
      BY SMT DEF Sounding
    <2>3. /\ buffer' \in Seq(Int) /\ Sounding(buffer')
          /\ Delivered \o Pieces(buffer') = Append(Delivered \o Pieces(<<>>), outbuf)
      <3>1. /\ Append(<<>>, outbuf) \in Seq(Int) /\ Sounding(Append(<<>>, outbuf))
            /\ Delivered \o Pieces(Append(<<>>, outbuf)) = Append(Delivered \o Pieces(<<>>), outbuf)
        BY <1>3, <1>4, <1>7, <2>2, PiecesAppend
      <3>2. buffer' = Append(<<>>, outbuf)
        BY <2>1, <2>2, Zenon
      <3>. QED BY <3>1, <3>2, Zenon
    <2>4. Delivered \o Pieces(<<>>) = Delivered
      <3>1. Pieces(<<>>) = <<>>
        BY <2>2, SoundingPieces, Zenon
      <3>. QED BY <1>7, <3>1, SMT
    <2>5. Delivered' = Append(Delivered, outbuf)
      BY <2>1, <2>3, <2>4, Zenon DEF Delivered
    <2>6. Len(buffer') =< Capacity
      BY <2>1, SynthesisAssumption, SMT
    <2>. QED BY <1>3, <1>4, <1>7, <1>8, <1>9, <2>1, <2>3, <2>5, <2>6 DEF Again
  <1>12. CASE /\ CallbackRefused(buffer)
              /\ picoSynthAbort' = 1 /\ toSpeak' = 0 /\ ret' = "ok" /\ pc' = "chunk"
    <2>1. refusing /\ started' = TRUE /\ UNCHANGED <<heard, buffer>>
      BY <1>12 DEF CallbackRefused
    <2>2. Delivered' = Delivered
      BY <2>1 DEF Delivered
    <2>3. 0 \in Nat
      BY SMT
    <2>. QED BY <1>3, <1>4, <1>8, <1>12, <2>1, <2>2, <2>3
  <1>. QED BY <1>10, <1>11, <1>12 DEF Store

\* The rest of the buffer goes to the client, or it refuses it.
LEMMA ChunkDelivers ==
    ASSUME TypeOK, Delivering, Chunk
    PROVE  TypeOK' /\ Delivering'
  <1>1. /\ pc = "chunk" /\ pc' = "clear"
        /\ UNCHANGED <<Elsewhere, engineMutex, picoSynthAbort, tts, asked, remaining, toSpeak, made,
                       outbuf, bytesRecv, ret, history>>
    BY DEF Chunk
  <1>2. UNCHANGED <<refusing, stopped, failed>>
    BY <1>1 DEF Elsewhere, history
  <1>3. Looping /\ Looping' /\ BufferOK
    BY <1>1 DEF Delivering, Looping
  <1>4. UNCHANGED <<done, errors, requestData>>
    BY DEF Chunk, Pending, CallbackRefused, client
  <1>5. /\ buffer' \in Seq(Int) /\ Len(buffer') =< Capacity /\ heard' \in Seq(Int) /\ started' \in BOOLEAN
        /\ Blank(buffer') \/ buffer' = buffer
        /\ Delivered' = Delivered
        /\ heard' \in {heard, Delivered}
    <2>1. buffer \in Seq(Int) /\ Len(buffer) =< Capacity /\ heard \in Seq(Int) /\ started \in BOOLEAN
      BY DEF TypeOK, LoopTypes, ClientTypes
    <2>2. CASE CallbackTaken(buffer)
      <3>1. Capacity =< Capacity
        BY SynthesisAssumption, SMT
      <3>. QED BY <1>3, <2>2, <3>1, TakenDelivers
    <2>3. CASE CallbackRefused(buffer) \/ UNCHANGED <<client, buffer>>
      <3>1. UNCHANGED <<heard, buffer>> /\ started' \in BOOLEAN
        BY <2>1, <2>3 DEF CallbackRefused, client
      <3>. QED BY <2>1, <3>1 DEF Delivered
    <2>. QED BY <2>2, <2>3 DEF Chunk, Pending
  <1>6. TypeOK'
    <2>1. Synthesizing' /\ picoSynthAbort' \in {0, 1}
      BY <1>1 DEF TypeOK, ServiceTypes, Synthesizing
    <2>2. LoopTypes'
      BY <1>1, <1>5 DEF TypeOK, LoopTypes
    <2>3. ClientTypes'
      BY <1>1, <1>4, <1>5, Zenon DEF TypeOK, ClientTypes, Elsewhere, history
    <2>. QED BY <1>1, <2>1, <2>2, <2>3, LoopTypesKept DEF TypeOK
  <1>7. BufferOK' /\ DoneAtEnd' /\ FailedEnds' /\ StartsAfresh' /\ TextSpoken' /\ AllHeard'
    BY <1>1, <1>2, <1>3, <1>4, <1>5
       DEF Delivering, BufferOK, DoneAtEnd, FailedEnds, StartsAfresh, TextSpoken, AllHeard, Starting,
           Looping, SpokenOff
  <1>8. SamplesInOrder'
    BY <1>1, <1>2, <1>3, <1>5 DEF Delivering, SamplesInOrder, SpokenOff
  <1>. QED BY <1>6, <1>7, <1>8 DEF Delivering

LEMMA ClearDelivers ==
    ASSUME TypeOK, Delivering, Clear
    PROVE  TypeOK' /\ Delivering'
  <1>1. /\ pc = "clear" /\ pc' = (IF ret = "idle" THEN "outer" ELSE "failed") /\ picoSynthAbort' = 0
        /\ UNCHANGED <<Elsewhere, engineMutex, tts, asked, loop, client, history>>
    BY DEF Clear
  <1>2. /\ UNCHANGED <<refusing, stopped, failed, heard, done, started>>
        /\ UNCHANGED <<remaining, toSpeak, made, outbuf, buffer, ret>>
    BY <1>1 DEF Elsewhere, client, history, loop
  <1>3. Delivered' = Delivered /\ Looping /\ Looping'
    BY <1>1, <1>2 DEF Delivered, Looping
  <1>4. TypeOK'
    <2>1. Synthesizing' /\ picoSynthAbort' \in {0, 1}
      BY <1>1 DEF Synthesizing
    <2>2. LoopTypes' /\ ClientTypes'
      BY <1>1, Zenon DEF TypeOK, LoopTypes, ClientTypes, Elsewhere, loop, client, history
    <2>. QED BY <1>1, <2>1, <2>2, LoopTypesKept DEF TypeOK
  <1>5. BufferOK' /\ DoneAtEnd' /\ FailedEnds' /\ StartsAfresh' /\ TextSpoken' /\ AllHeard'
    BY <1>1, <1>2, <1>3
       DEF Delivering, BufferOK, DoneAtEnd, FailedEnds, StartsAfresh, TextSpoken, AllHeard, Starting,
           SpokenOff
  <1>6. SamplesInOrder'
    BY <1>1, <1>2, <1>3 DEF Delivering, SamplesInOrder, SpokenOff
  <1>. QED BY <1>4, <1>5, <1>6 DEF Delivering

\* The request is finished with all there is in the buffer.
LEMMA FinishDelivers ==
    ASSUME TypeOK, Delivering, Failed \/ Finish
    PROVE  TypeOK' /\ Delivering'
  <1>1. /\ \/ pc = "failed" /\ pc' = "fail" /\ toSpeak' = 0
           \/ pc = "finish" /\ pc' = "succeed" /\ toSpeak' = toSpeak
        /\ UNCHANGED <<Elsewhere, engineMutex, picoSynthAbort, tts, asked, remaining, made, outbuf,
                       bytesRecv, ret, history>>
        /\ Done(buffer)
    BY DEF Failed, Finish
  <1>2. UNCHANGED <<refusing, stopped, failed>>
    BY <1>1 DEF Elsewhere, history
  <1>3. Looping /\ ~ Looping' /\ BufferOK /\ done = 0 /\ ~ SpokenOff' /\ ~ Starting'
    BY <1>1 DEF Delivering, DoneAtEnd, Looping, SpokenOff, Starting
  <1>4. /\ buffer' \in Seq(Int) /\ Len(buffer') =< Capacity /\ heard' \in Seq(Int) /\ started' \in BOOLEAN
        /\ errors' = errors /\ requestData' \in BOOLEAN
        /\ \/ refusing /\ heard' = heard /\ done' = 0
           \/ heard' = Delivered /\ done' = 1
    <2>1. /\ buffer \in Seq(Int) /\ Len(buffer) =< Capacity /\ heard \in Seq(Int)
          /\ started \in BOOLEAN /\ requestData \in BOOLEAN
      BY DEF TypeOK, LoopTypes, ClientTypes
    <2>2. CASE CallbackTaken(buffer) /\ done' = done + 1 /\ requestData' = FALSE /\ UNCHANGED errors
      <3>1. Capacity =< Capacity /\ 0 + 1 = 1
        BY SynthesisAssumption, SMT
      <3>. QED BY <1>3, <2>2, <3>1, TakenDelivers
    <2>3. CASE CallbackRefused(buffer)
      <3>1. refusing /\ started' = TRUE /\ UNCHANGED <<heard, done, errors, requestData, buffer>>
        BY <2>3 DEF CallbackRefused
      <3>. QED BY <1>3, <2>1, <3>1
    <2>. QED BY <1>1, <2>2, <2>3 DEF Done
  <1>5. TypeOK'
    <2>1. Synthesizing' /\ picoSynthAbort' \in {0, 1}
      BY <1>1 DEF TypeOK, ServiceTypes, Synthesizing
    <2>2. LoopTypes'
      <3>1. toSpeak' \in Nat
        <4>1. 0 \in Nat
          BY SMT
        <4>. QED BY <1>1, <4>1 DEF TypeOK, LoopTypes
      <3>. QED BY <1>1, <1>4, <3>1 DEF TypeOK, LoopTypes
    <2>3. done' \in Nat
      BY <1>4, SMT
    <2>4. ClientTypes'
      BY <1>1, <1>4, <2>3, Zenon DEF TypeOK, ClientTypes, Elsewhere, history
    <2>. QED BY <1>1, <2>1, <2>2, <2>4, LoopTypesKept DEF TypeOK
  <1>6. BufferOK' /\ DoneAtEnd' /\ FailedEnds' /\ StartsAfresh' /\ TextSpoken'
    BY <1>1, <1>2, <1>3, <1>4
       DEF Delivering, BufferOK, DoneAtEnd, FailedEnds, StartsAfresh, TextSpoken
  <1>7. SamplesInOrder'
    BY <1>1, <1>2, <1>3, <1>4 DEF Delivering, SamplesInOrder
  <1>8. AllHeard'
    <2>1. pc' = "succeed" => pc = "finish" /\ toSpeak' = toSpeak /\ ~ failed
      BY <1>1 DEF Delivering, FailedEnds
    <2>2. pc = "finish" /\ ~ failed => Len(Delivered) = made
      BY DEF Delivering, SamplesInOrder
    <2>. QED BY <1>1, <1>2, <1>3, <1>4, <2>1, <2>2 DEF Delivering, TextSpoken, AllHeard
  <1>. QED BY <1>5, <1>6, <1>7, <1>8 DEF Delivering

-----------------------------------------------------------------------------
LEMMA StepDelivers ==
    ASSUME TypeOK, IInv, Delivering, [Next]_vars
    PROVE  TypeOK' /\ Delivering'
  <1>1. CASE \E l \in Langs : Request(l)
    BY <1>1, RequestDelivers
  <1>2. CASE Works
    BY <1>2, CallDelivers, EntryDelivers, OuterDelivers, StoreDelivers, ChunkDelivers, ClearDelivers,
       FinishDelivers, ReturnDelivers, GetDelivers DEF Works
  <1>3. CASE Produces \/ Get(GetNothing) \/ Get(GetError)
    BY <1>3, GetDelivers DEF Produces
  <1>4. CASE Refuse \/ Stop \/ StopSync \/ Synced \/ Shutdown \/ Forget \/ SetUp
    BY <1>4, OthersDeliver
  <1>5. CASE Crash
    BY <1>5, CrashDelivers
  <1>6. CASE UNCHANGED vars
    <2>1. UNCHANGED service /\ UNCHANGED memory /\ UNCHANGED tts /\ UNCHANGED loop /\ UNCHANGED client /\ UNCHANGED history
          /\ UNCHANGED <<calls, engineMutex, picoSynthAbort, pc, mine, asked, refusing>>
      BY <1>6 DEF vars
    <2>2. TypeOK'
      <3>1. ServiceTypes' /\ SpeakerTypes'
        BY <2>1, Zenon DEF TypeOK, ServiceTypes, SpeakerTypes, Synthesizing, service, memory, tts
      <3>2. LoopTypes' /\ ClientTypes'
        BY <2>1, Zenon DEF TypeOK, LoopTypes, ClientTypes, loop, client, history
      <3>. QED BY <3>1, <3>2 DEF TypeOK
    <2>3. UNCHANGED <<remaining, toSpeak, made, outbuf, buffer, ret, started, heard, done, stopped, failed>>
      BY <2>1 DEF loop, client, history
    <2>4. Delivering'
      BY <2>1, <2>3
         DEF Delivering, StartsAfresh, BufferOK, FailedEnds, SamplesInOrder, TextSpoken, DoneAtEnd,
             AllHeard, Starting, Looping, SpokenOff, Delivered
    <2>. QED BY <2>2, <2>4
  <1>. QED BY <1>1, <1>2, <1>3, <1>4, <1>5, <1>6 DEF Next

(* Types, and what is on its way to the client at any time.                 *)
THEOREM SynthesisDelivering == Spec => [](TypeOK /\ Delivering)
  <1>1. Init => TypeOK /\ Delivering
    <2>. SUFFICES ASSUME Init PROVE TypeOK /\ Delivering
      OBVIOUS
    <2>1. ServiceTypes
      <3>1. 0 \in 0 .. MaxProxies /\ 1 \in 0 .. MaxProxies /\ 0 \in 0 .. MaxCalls
        BY SynthesisAssumption, SMT
      <3>. QED BY <3>1, Zenon DEF Init, ServiceTypes
    <2>2. SpeakerTypes
      <3>1. 0 \in 0 .. MaxProxies
        BY SynthesisAssumption, SMT
      <3>. QED BY <3>1, Zenon DEF Init, SpeakerTypes
    <2>3. <<>> \in Seq(Int) /\ Len(<<>>) =< Capacity /\ 0 \in 0 .. MaxText /\ 0 \in Nat /\ Garbage \in Int
      BY SynthesisAssumption, SMT DEF Garbage
    <2>4. LoopTypes /\ ClientTypes
      BY <2>3, Zenon DEF Init, LoopTypes, ClientTypes
    <2>5. Numbered(<<>>) /\ Garbage # Silence
      BY SMT DEF Numbered, Garbage, Silence
    <2>6. Delivering
      BY <2>5 DEF Init, Delivering, StartsAfresh, BufferOK, FailedEnds, SamplesInOrder, TextSpoken,
                  DoneAtEnd, AllHeard, Starting, Looping, SpokenOff
    <2>. QED BY <2>1, <2>2, <2>4, <2>6 DEF TypeOK
  <1>. QED BY <1>1, StepDelivers, SynthesisIInv, PTL DEF Spec

(* Unless pico_getData fails, the client hears every piece once and in      *)
(* order, and all of them when the synthesis succeeds undisturbed, whatever *)
(* the size of the proxy's buffer (synthesizeText with __ttsSynthDoneCB).   *)
THEOREM SynthesisHeardAsSpoken == Spec => []HeardAsSpoken
  <1>1. TypeOK /\ Delivering => HeardAsSpoken
    BY DEF Delivering, SamplesInOrder, Numbered, HeardAsSpoken, HeardInOrder
  <1>. QED BY <1>1, SynthesisDelivering, PTL

(* Once the callback has finished a request and freed its data it is not    *)
(* called again for it (__ttsSynthDoneCB with TTS_SYNTH_DONE).              *)
THEOREM SynthesisNothingAfterDone == Spec => NothingAfterDone
  <1>. DEFINE Finished == done = 1 /\ calls' = calls => done' = 1 /\ heard' = heard /\ started' = started
  <1>1. TypeOK /\ Delivering /\ [Next]_vars => [Finished]_vars
    <2>. SUFFICES ASSUME TypeOK, Delivering, Next, done = 1, calls' = calls
                  PROVE  done' = 1 /\ heard' = heard /\ started' = started
      OBVIOUS
    <2>1. ~ Looping
      BY DEF Delivering, DoneAtEnd
    <2>2. \A l \in Langs : ~ Request(l)
      <3>1. calls \in Int
        BY SynthesisAssumption, SMT DEF TypeOK, ServiceTypes
      <3>2. calls + 1 # calls
        BY <3>1, SMT
      <3>. QED BY <3>2 DEF Request
    <2>3. CASE Works
      BY <2>1, <2>3 DEF Works, CallSetLanguage, SetLanguage, CallSpeak, CallNative, EnterSpeak, Entry,
                        Outer, Get, Store, Chunk, Clear, Failed, Finish, Return, AnswerError, Looping,
                        client
    <2>4. CASE Produces \/ Get(GetNothing) \/ Get(GetError)
      BY <2>1, <2>4 DEF Produces, Get, Looping
    <2>5. CASE Refuse \/ Stop \/ StopSync \/ Synced \/ Shutdown \/ Forget \/ SetUp
      BY <2>5 DEF Refuse, Stop, StopSync, Synced, Shutdown, Forget, SetUp, client
    <2>6. CASE Crash
      BY <2>6 DEF Crash, client
    <2>. QED BY <2>2, <2>3, <2>4, <2>5, <2>6 DEF Next
  <1>. QED BY <1>1, SynthesisDelivering, PTL DEF Spec, NothingAfterDone
=============================================================================
