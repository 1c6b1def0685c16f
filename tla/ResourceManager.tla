--------------------------- MODULE ResourceManager ---------------------------
(***************************************************************************)
(* The resource manager of picorsrc.c as the system-level functions of      *)
(* picoapi.c drive it, with the one engine a system can have: resources are *)
(* loaded from files and counted by the voices that use them, voice         *)
(* definitions name resources, an engine is created for a definition.       *)
(*                                                                          *)
(* A resource is its handle, the address of its record, which is free for   *)
(* the next resource once this one is unloaded.  The order of the           *)
(* manager's lists is left out: it would matter only if two resources or    *)
(* two definitions had the same name (see NamesUnique).                     *)
(***************************************************************************)
EXTENDS Integers, Sequences, FiniteSets

CONSTANTS Handles,        \* addresses a resource can have
          Names,          \* resource names of legal length
          DefaultName,    \* PICOKNOW_DEFAULT_RESOURCE_NAME
          LongNames,      \* resource names that are too long
          Truncated,      \* Truncated[n]: what is stored of a long name
          VoiceNames,     \* voice names of legal length
          LongVoiceNames, \* voice names that are too long
          KbIds,          \* kinds of knowledge bases
          KbsOf,          \* KbsOf[n]: those in resource n
          None,           \* the null pointer
          MaxResources,   \* PICO_MAX_NUM_RESOURCES
          MaxVdefs,       \* PICO_MAX_NUM_VOICE_DEFINITIONS
          MaxPerVoice,    \* PICO_MAX_NUM_RSRC_PER_VOICE
          MaxOpen         \* bound: files open at a time

\* A voice: the resources it locks, and where its knowledge bases are.
Voices == [res : Seq(Handles), kb : [KbIds -> Handles \cup {None}]]

\* MaxPerVoice fits a lock count, a signed byte: one engine can add no more.
ASSUME ResourceManagerAssumption ==
    /\ None \notin Handles /\ None \notin Voices
    /\ DefaultName \in Names
    /\ Truncated \in [LongNames -> Names]
    /\ KbsOf \in [Names -> SUBSET KbIds]
    /\ MaxResources \in Nat /\ MaxVdefs \in Nat /\ MaxOpen \in Nat
    /\ MaxPerVoice \in 1 .. 127

VARIABLES up,          \* between pico_initialize and pico_terminate
          loaded,      \* rm->resources
          numResources,
          name,        \* name[h]: a resource's name
          lockCount,   \* lockCount[h]: how often live voices use it
          openFiles,   \* resource files open
          vdefs,       \* vdefs[v]: the resource names of a definition, or None
          numVdefs,
          voice,       \* the engine's voice, or None without an engine
          freeVoices,  \* voice records for reuse, as they were left
          result       \* [call, handle, status] of the last call

resourceVars == <<loaded, numResources, name, lockCount>>
vdefVars == <<vdefs, numVdefs>>
voiceVars == <<voice, freeVoices>>
vars == <<up, loaded, numResources, name, lockCount, openFiles, vdefs, numVdefs,
          voice, freeVoices, result>>

Return(call, h, status) == result' = [call |-> call, handle |-> h, status |-> status]

Find(n) == CHOOSE h \in loaded : name[h] = n
IsLoaded(n) == \E h \in loaded : name[h] = n

-----------------------------------------------------------------------------
(* The system.                                                              *)

Init == /\ up = FALSE
        /\ loaded = {} /\ numResources = 0
        /\ name = [h \in Handles |-> DefaultName]
        /\ lockCount = [h \in Handles |-> 0]
        /\ vdefs = [v \in VoiceNames |-> None] /\ numVdefs = 0
        /\ voice = None /\ freeVoices = <<>>
        /\ openFiles = 0
        /\ result = [call |-> "none", handle |-> None, status |-> "OK"]

\* pico_initialize: a manager with the default resource and nothing else.
Initialize ==
    /\ ~ up
    /\ up' = TRUE
    /\ \E h \in Handles : /\ loaded' = {h}
                          /\ name' = [name EXCEPT ![h] = DefaultName]
    /\ numResources' = 1
    /\ Return("initialize", None, "OK")
    /\ UNCHANGED <<lockCount, openFiles, vdefVars, voiceVars>>

\* pico_terminate: all memory is given up at once; the files of the resources
\* are not looked at.
Terminate ==
    /\ up /\ up' = FALSE
    /\ loaded' = {} /\ numResources' = 0
    /\ name' = [h \in Handles |-> DefaultName]
    /\ lockCount' = [h \in Handles |-> 0]
    /\ vdefs' = [v \in VoiceNames |-> None] /\ numVdefs' = 0
    /\ voice' = None /\ freeVoices' = <<>>
    /\ Return("terminate", None, "OK")
    /\ UNCHANGED openFiles

-----------------------------------------------------------------------------
(* Resources.                                                               *)

LoadFails == /\ Return("load", None, "ERROR")
             /\ UNCHANGED <<up, resourceVars, vdefVars, voiceVars>>

\* Mutant of LoadResource: the resource is not looked for first.
LoadResourceAgain(n) ==
    /\ up
    /\ numResources < MaxResources /\ openFiles < MaxOpen
    /\ \E h \in Handles \ loaded :
         /\ loaded' = loaded \cup {h}
         /\ name' = [name EXCEPT ![h] = n]
         /\ lockCount' = [lockCount EXCEPT ![h] = 0]
         /\ Return("load", h, "OK")
    /\ numResources' = numResources + 1
    /\ openFiles' = openFiles + 1
    /\ UNCHANGED <<up, vdefVars, voiceVars>>

\* pico_loadResource, for a file with resource n.  What can be wrong with the
\* file shows before it is open, or later; then it stays open.  A resource
\* that is loaded already is no error, but there is no handle for it.
LoadResource(n) ==
    /\ up
    /\ \/ LoadFails /\ UNCHANGED openFiles
       \/ /\ numResources < MaxResources /\ openFiles < MaxOpen
          /\ openFiles' = openFiles + 1
          /\ \/ LoadFails
             \/ /\ IsLoaded(n)
                /\ Return("load", None, "OK")
                /\ UNCHANGED <<up, resourceVars, vdefVars, voiceVars>>
             \/ /\ ~ IsLoaded(n)
                /\ \E h \in Handles \ loaded :
                     /\ loaded' = loaded \cup {h}
                     /\ name' = [name EXCEPT ![h] = n]
                     /\ lockCount' = [lockCount EXCEPT ![h] = 0]
                     /\ Return("load", h, "OK")
                /\ numResources' = numResources + 1
                /\ UNCHANGED <<up, vdefVars, voiceVars>>

\* Mutant of UnloadResource: the last lock does not count.
UnloadResourceLastLock(h) ==
    /\ up /\ h \in loaded /\ name[h] # DefaultName
    /\ lockCount[h] < 2
    /\ loaded' = loaded \ {h}
    /\ numResources' = numResources - 1
    /\ openFiles' = openFiles - 1
    /\ Return("unload", h, "OK")
    /\ UNCHANGED <<up, name, lockCount, vdefVars, voiceVars>>

\* pico_unloadResource of a handle that loading returned.
UnloadResource(h) ==
    /\ up /\ h \in loaded /\ name[h] # DefaultName
    /\ \/ /\ lockCount[h] > 0
          /\ Return("unload", h, "BUSY")
          /\ UNCHANGED <<up, resourceVars, openFiles, vdefVars, voiceVars>>
       \/ /\ lockCount[h] <= 0
          /\ loaded' = loaded \ {h}
          /\ numResources' = numResources - 1
          /\ openFiles' = openFiles - 1
          /\ Return("unload", h, "OK")
          /\ UNCHANGED <<up, name, lockCount, vdefVars, voiceVars>>

-----------------------------------------------------------------------------
(* Voice definitions.                                                       *)

VdefCall(call, status) ==
    /\ up
    /\ Return(call, None, status)
    /\ UNCHANGED <<up, resourceVars, openFiles, voiceVars>>

\* Mutant of CreateVoiceDefinition: the limit is one too high.
CreateVoiceDefinitionOneMore(v) ==
    /\ v \in VoiceNames /\ vdefs[v] = None /\ numVdefs =< MaxVdefs
    /\ vdefs' = [vdefs EXCEPT ![v] = <<DefaultName>>]
    /\ numVdefs' = numVdefs + 1
    /\ VdefCall("createVoiceDefinition", "OK")

Definable(v) == v \in VoiceNames /\ vdefs[v] = None /\ numVdefs < MaxVdefs

\* A definition starts with the default resource.
CreateVoiceDefinition(v) ==
    \/ /\ Definable(v)
       /\ vdefs' = [vdefs EXCEPT ![v] = <<DefaultName>>]
       /\ numVdefs' = numVdefs + 1
       /\ VdefCall("createVoiceDefinition", "OK")
    \/ /\ ~ Definable(v)
       /\ UNCHANGED vdefVars
       /\ VdefCall("createVoiceDefinition", "ERROR")

Extensible(v) == vdefs[v] # None /\ Len(vdefs[v]) < MaxPerVoice

\* A name that is too long is an error, but what fits of it has been added.
AddResourceToVoiceDefinition(v, n) ==
    \/ /\ Extensible(v)
       /\ vdefs' = [vdefs EXCEPT ![v] = Append(@, IF n \in LongNames THEN Truncated[n] ELSE n)]
       /\ UNCHANGED numVdefs
       /\ VdefCall("addResource", IF n \in LongNames THEN "ERROR" ELSE "OK")
    \/ /\ ~ Extensible(v)
       /\ UNCHANGED vdefVars
       /\ VdefCall("addResource", "ERROR")

\* To release a definition that does not exist is no error.
ReleaseVoiceDefinition(v) ==
    /\ vdefs' = [vdefs EXCEPT ![v] = None]
    /\ numVdefs' = IF vdefs[v] = None THEN numVdefs ELSE numVdefs - 1
    /\ VdefCall("releaseVoiceDefinition", "OK")

-----------------------------------------------------------------------------
(* Voices and the engine.                                                   *)

Occurrences(h, v) == IF v = None THEN 0 ELSE Cardinality({i \in DOMAIN v.res : v.res[i] = h})

\* Mutant of Initialized: an old record keeps its knowledge bases.
InitializedLengthOnly(v) ==
    IF v = None THEN [res |-> <<>>, kb |-> [k \in KbIds |-> None]] ELSE [v EXCEPT !.res = <<>>]

\* picorsrc_initializeVoice
Initialized(v) == [res |-> <<>>, kb |-> [k \in KbIds |-> None]]

\* The record createVoice starts from: a new one or one from the free list.
BlankVoice == Initialized(IF freeVoices = <<>> THEN None ELSE Head(freeVoices))

\* The resources of definition def; each one's knowledge bases replace those
\* of the ones before it.
Filled(blank, def) ==
    LET res == [i \in DOMAIN def |-> Find(def[i])]
        Givers(k) == {i \in DOMAIN def : k \in KbsOf[def[i]]}
    IN [res |-> res,
        kb |-> [k \in KbIds |->
                  IF Givers(k) = {} THEN blank.kb[k]
                  ELSE res[CHOOSE i \in Givers(k) : \A j \in Givers(k) : j =< i]]]

Creatable(v) == /\ v \in VoiceNames /\ vdefs[v] # None
                /\ \A i \in DOMAIN vdefs[v] : IsLoaded(vdefs[v][i])

Locked(v) == [h \in Handles |-> IF h \in loaded THEN lockCount[h] + Occurrences(h, v) ELSE lockCount[h]]
Released(v) == [h \in Handles |-> lockCount[h] - Occurrences(h, v)]

EngineCall(call, status) ==
    /\ up
    /\ Return(call, None, status)
    /\ UNCHANGED <<up, loaded, numResources, name, openFiles, vdefVars>>

\* Mutant of NewEngineFails: the voice is not given back.
NewEngineFailsHoldingVoice(v) ==
    /\ voice = None
    /\ Creatable(v)
    /\ lockCount' = Locked(Filled(BlankVoice, vdefs[v]))
    /\ UNCHANGED voiceVars
    /\ EngineCall("newEngine", "ERROR")

\* pico_newEngine that fails once the voice was created: the control or a
\* buffer could not be.  The voice is released and kept for reuse.
NewEngineFails(v) ==
    /\ voice = None
    /\ Creatable(v)
    /\ freeVoices' = <<Filled(BlankVoice, vdefs[v])>> \o
                     (IF freeVoices = <<>> THEN <<>> ELSE Tail(freeVoices))
    /\ UNCHANGED <<voice, lockCount>>
    /\ EngineCall("newEngine", "ERROR")

\* pico_newEngine that fails before: there is an engine, no memory for another,
\* no such definition, or a resource of it that is not loaded.
NewEngineRefused(v) ==
    /\ UNCHANGED <<lockCount, voiceVars>>
    /\ EngineCall("newEngine", "ERROR")

NewEngine(v) ==
    /\ voice = None
    /\ Creatable(v)
    /\ voice' = Filled(BlankVoice, vdefs[v])
    /\ lockCount' = Locked(voice')
    /\ freeVoices' = IF freeVoices = <<>> THEN <<>> ELSE Tail(freeVoices)
    /\ EngineCall("newEngine", "OK")

DisposeEngine ==
    /\ voice # None
    /\ lockCount' = Released(voice)
    /\ freeVoices' = <<voice>> \o freeVoices
    /\ voice' = None
    /\ EngineCall("disposeEngine", "OK")

Next == \/ Initialize
        \/ Terminate
        \/ \E n \in Names : LoadResource(n)
        \/ \E h \in Handles : UnloadResource(h)
        \/ \E v \in VoiceNames \cup LongVoiceNames : CreateVoiceDefinition(v)
        \/ \E v \in VoiceNames, n \in Names \cup LongNames : AddResourceToVoiceDefinition(v, n)
        \/ \E v \in VoiceNames : ReleaseVoiceDefinition(v)
        \/ \E v \in VoiceNames : NewEngineFails(v) \/ NewEngineRefused(v) \/ NewEngine(v)
        \/ DisposeEngine

Spec == Init /\ [][Next]_vars

-----------------------------------------------------------------------------
Calls == {"none", "initialize", "terminate", "load", "unload", "createVoiceDefinition",
          "addResource", "releaseVoiceDefinition", "newEngine", "disposeEngine"}

Results == [call : Calls, handle : Handles \cup {None}, status : {"OK", "BUSY", "ERROR"}]

TypeOK == /\ up \in BOOLEAN
          /\ loaded \in SUBSET Handles
          /\ numResources \in Int
          /\ name \in [Handles -> Names]
          /\ lockCount \in [Handles -> Int]
          /\ openFiles \in Int /\ openFiles =< MaxOpen
          /\ vdefs \in [VoiceNames -> Seq(Names) \cup {None}]
          /\ numVdefs \in Int /\ numVdefs =< MaxVdefs
          /\ voice \in Voices \cup {None}
          /\ freeVoices \in Seq(Voices)
          /\ result \in Results

(* createVoice counts a resource once per mention, releaseVoice must take   *)
(* back exactly that, whatever was loaded, defined, released or failed in   *)
(* between.                                                                 *)
LocksMatch == \A h \in loaded : lockCount[h] = Occurrences(h, voice)

(* What an engine reads is loaded: neither the resources of its voice nor   *)
(* the knowledge bases its units look up belong to an unloaded resource,    *)
(* not even if its voice record was used before.                            *)
VoiceIsLoaded ==
    voice # None => /\ \A i \in DOMAIN voice.res : voice.res[i] \in loaded
                    /\ \A k \in KbIds : voice.kb[k] \in loaded \cup {None}

(* picoapi.h calls a resource's name unique: the manager finds resources by *)
(* it, and its counter, which limits loading, is the number of them.        *)
NamesUnique == /\ \A g, h \in loaded : name[g] = name[h] => g = h
               /\ numResources = Cardinality(loaded)

(* picoapi.h on pico_unloadResource: if no engine uses the resource, it is  *)
(* removed immediately, otherwise PICO_EXC_RESOURCE_BUSY is returned.       *)
UnloadIffUnused ==
    [][\A h \in Handles : result'.call = "unload" /\ result'.handle = h /\ result' # result =>
         /\ result'.status = "BUSY" <=> Occurrences(h, voice) > 0
         /\ result'.status = "OK" <=> h \notin loaded']_vars

(* picoapi.h on pico_terminate: lingware resources still loaded are         *)
(* unloaded automatically.  Unloading closes the file of each; only the     *)
(* default resource has none.                                               *)
TerminateUnloads == [][up /\ ~ up' => openFiles' = openFiles - (numResources - 1)]_vars
=============================================================================
