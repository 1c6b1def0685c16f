------------------------ MODULE ResourceManagerProofs ------------------------
(***************************************************************************)
(* Proofs about ResourceManager, for every set of resources, definitions    *)
(* and knowledge bases: lock counts are exact, and so an engine never uses  *)
(* what is not loaded.                                                      *)
(***************************************************************************)
EXTENDS ResourceManager, FiniteSetTheorems, WellFoundedInduction, TLAPS

\* Lock counts are exact only because what voices use is loaded and because a
\* terminated system leaves no locks behind: the three hold together.
DownIsBlank == ~ up => /\ \A h \in Handles : lockCount[h] = 0
                       /\ voice = None

-----------------------------------------------------------------------------
LEMMA OccurrencesNat ==
    ASSUME NEW v \in Voices \cup {None}, NEW h
    PROVE  /\ Occurrences(h, v) \in Nat
           /\ Occurrences(h, v) = 0 <=> \A i \in (IF v = None THEN {} ELSE DOMAIN v.res) : v.res[i] # h
  <1>1. CASE v = None
    BY <1>1, SMT DEF Occurrences
  <1>2. CASE v # None
    <2>. DEFINE S == {i \in DOMAIN v.res : v.res[i] = h}
    <2>1. PICK n \in Nat : DOMAIN v.res = 1 .. n
      BY <1>2, SMT DEF Voices
    <2>2. IsFiniteSet(1 .. n)
      BY FS_Interval, SMT
    <2>3. IsFiniteSet(S)
      <3>1. S \subseteq 1 .. n BY <2>1, Zenon
      <3>. QED BY <2>2, <3>1, FS_Subset, Zenon
    <2>4. Cardinality(S) \in Nat
      BY <2>3, FS_CardinalityType, Zenon
    <2>5. Cardinality(S) = 0 <=> S = {}
      BY <2>3, FS_EmptySet, Zenon
    <2>6. Occurrences(h, v) = Cardinality(S)
      BY <1>2, Zenon DEF Occurrences
    <2>. QED BY <1>2, <2>4, <2>5, <2>6, Zenon
  <1>. QED BY <1>1, <1>2, Zenon

\* The order of the naturals, without the library's operator for relations.
LEMMA NatOrderWellFounded == IsWellFoundedOn({p \in Nat \X Nat : p[1] < p[2]}, Nat)
  BY NatLessThanWellFounded DEF OpToRel

LEMMA SmallestOf ==
    ASSUME NEW T, T \subseteq Nat, T # {}
    PROVE  \E t \in T : \A u \in T : t =< u
  <1>. DEFINE R == {p \in Nat \X Nat : p[1] < p[2]}
  <1>1. PICK t \in T : \A u \in T : ~ (<<u, t>> \in R)
    <2>1. IsWellFoundedOn(R, Nat)
      BY NatOrderWellFounded, Zenon
    <2>. HIDE DEF R
    <2>. QED BY <2>1, WFMin, Zenon
  <1>2. ASSUME NEW u \in T PROVE t =< u
    <2>1. u \in Nat /\ t \in Nat
      BY Zenon
    <2>2. u < t => <<u, t>> \in R
      BY <2>1, SMT
    <2>. QED BY <1>1, <2>1, <2>2, SMT
  <1>. QED BY <1>2, Zenon

\* The last of some places of a sequence.
LEMMA LastPlace ==
    ASSUME NEW n \in Nat, NEW S, S \subseteq 1 .. n, S # {}
    PROVE  \E i \in S : \A j \in S : j =< i
  <1>1. \A i \in S : i \in Int /\ n - i \in Nat
    BY SMT
  <1>. DEFINE T == {n - i : i \in S}
  <1>2. T \subseteq Nat /\ T # {}
    BY <1>1, Zenon
  <1>. HIDE DEF T
  <1>3. PICK t \in T : \A u \in T : t =< u
    BY <1>2, SmallestOf, Zenon
  <1>4. PICK i \in S : t = n - i
    BY Zenon DEF T
  <1>5. ASSUME NEW j \in S PROVE j =< i
    <2>1. n - j \in T
      BY Zenon DEF T
    <2>2. n - i =< n - j
      BY <1>3, <1>4, <2>1, Zenon
    <2>. QED BY <1>1, <2>2, SMT
  <1>. QED BY <1>5, Zenon

\* A created voice is a voice, of loaded resources only.
LEMMA FilledVoice ==
    ASSUME TypeOK, NEW v, Creatable(v)
    PROVE  /\ Filled(BlankVoice, vdefs[v]) \in Voices
           /\ \A i \in DOMAIN Filled(BlankVoice, vdefs[v]).res :
                Filled(BlankVoice, vdefs[v]).res[i] \in loaded
           /\ \A k \in KbIds :
                \/ Filled(BlankVoice, vdefs[v]).kb[k] = None
                \/ \E i \in DOMAIN Filled(BlankVoice, vdefs[v]).res :
                     Filled(BlankVoice, vdefs[v]).kb[k] = Filled(BlankVoice, vdefs[v]).res[i]
  <1>. DEFINE d == vdefs[v]
              w == Filled(BlankVoice, d)
              res == [i \in DOMAIN d |-> Find(d[i])]
              Givers(k) == {i \in DOMAIN d : k \in KbsOf[d[i]]}
              kb == [k \in KbIds |->
                  IF Givers(k) = {} THEN BlankVoice.kb[k]
                  ELSE res[CHOOSE i \in Givers(k) : \A j \in Givers(k) : j =< i]]
  <1>1. d \in Seq(Names) /\ \A i \in DOMAIN d : IsLoaded(d[i])
    BY Zenon DEF TypeOK, Creatable
  <1>2. \A i \in DOMAIN d : Find(d[i]) \in loaded
    BY <1>1, Zenon DEF IsLoaded, Find
  <1>3. BlankVoice.kb = [k \in KbIds |-> None]
    BY Zenon DEF BlankVoice, Initialized
  <1>4. w = [res |-> res, kb |-> kb]
    BY Zenon DEF Filled
  <1>5. PICK n \in Nat : DOMAIN d = 1 .. n
    BY <1>1, SMT
  <1>. HIDE DEF d, w
  <1>6. \A i \in DOMAIN res : res[i] \in loaded
    BY <1>2, Zenon
  <1>7. ASSUME NEW k \in KbIds PROVE kb[k] = None \/ \E i \in DOMAIN res : kb[k] = res[i]
    <2>1. CASE Givers(k) = {}
      BY <2>1, <1>3, Zenon
    <2>2. CASE Givers(k) # {}
      <3>. DEFINE S == Givers(k)
                  l == CHOOSE i \in S : \A j \in S : j =< i
      <3>1. S \subseteq 1 .. n /\ S # {}
        BY <2>2, <1>5, Zenon
      <3>2. \E i \in S : \A j \in S : j =< i
        BY <3>1, LastPlace
      <3>3. l \in S
        BY <3>2, Zenon
      <3>4. l \in DOMAIN res
        BY <3>3, Zenon
      <3>5. kb[k] = res[l]
        BY <2>2, Zenon
      <3>. QED BY <3>4, <3>5, Zenon
    <2>. QED BY <2>1, <2>2, Zenon
  <1>8. loaded \subseteq Handles
    BY Zenon DEF TypeOK
  <1>9. res \in Seq(Handles)
    <2>1. \A i \in 1 .. n : Find(d[i]) \in Handles
      BY <1>2, <1>5, <1>8, Zenon
    <2>2. res = [i \in 1 .. n |-> Find(d[i])]
      BY <1>5, Zenon
    <2>. QED BY <2>1, <2>2, SMT
  <1>10. kb \in [KbIds -> Handles \cup {None}]
    BY <1>6, <1>7, <1>8, Zenon
  <1>. HIDE DEF res, kb
  <1>11. w \in Voices /\ w.res = res /\ w.kb = kb
    BY <1>4, <1>9, <1>10, Zenon DEF Voices
  <1>12. /\ w \in Voices
         /\ \A i \in DOMAIN w.res : w.res[i] \in loaded
         /\ \A k \in KbIds : w.kb[k] = None \/ \E i \in DOMAIN w.res : w.kb[k] = w.res[i]
    BY <1>6, <1>7, <1>11, Zenon
  <1>. QED BY <1>12, Zenon DEF w, d

-----------------------------------------------------------------------------
(* The types.                                                               *)

LEMMA ReturnType ==
    ASSUME NEW call \in Calls, NEW h \in Handles \cup {None}, NEW status \in {"OK", "BUSY", "ERROR"},
           Return(call, h, status)
    PROVE  result' \in Results
  BY Zenon DEF Return, Results

LEMMA LocksType ==
    ASSUME TypeOK, NEW v \in Voices \cup {None}
    PROVE  Locked(v) \in [Handles -> Int] /\ Released(v) \in [Handles -> Int]
  <1>1. \A h \in Handles : lockCount[h] \in Int /\ Occurrences(h, v) \in Int
    BY OccurrencesNat, SMT DEF TypeOK
  <1>2. \A h \in Handles : /\ lockCount[h] + Occurrences(h, v) \in Int
                           /\ lockCount[h] - Occurrences(h, v) \in Int
    BY <1>1, SMT
  <1>. QED BY <1>1, <1>2, Zenon DEF Locked, Released

LEMMA LoadTypes ==
    ASSUME TypeOK, NEW n \in Names, LoadResource(n) PROVE TypeOK'
  <1>1. openFiles' \in Int /\ openFiles' =< MaxOpen
    <2>1. UNCHANGED openFiles \/ (openFiles < MaxOpen /\ openFiles' = openFiles + 1)
      BY Zenon DEF LoadResource
    <2>. QED BY <2>1, ResourceManagerAssumption, SMT DEF TypeOK
  <1>2. ASSUME NEW status \in {"OK", "ERROR"}, Return("load", None, status),
               UNCHANGED <<up, resourceVars, vdefVars, voiceVars>>
        PROVE  TypeOK'
    <2>1. result' \in Results
      BY <1>2, ReturnType, Zenon DEF Calls
    <2>. QED BY <1>1, <1>2, <2>1, Zenon DEF TypeOK, resourceVars, vdefVars, voiceVars
  <1>3. ASSUME NEW h \in Handles \ loaded,
               loaded' = loaded \cup {h}, name' = [name EXCEPT ![h] = n],
               lockCount' = [lockCount EXCEPT ![h] = 0], Return("load", h, "OK"),
               numResources' = numResources + 1, UNCHANGED <<up, vdefVars, voiceVars>>
        PROVE  TypeOK'
    <2>1. /\ loaded' \in SUBSET Handles /\ name' \in [Handles -> Names]
          /\ numResources' \in Int /\ lockCount' \in [Handles -> Int]
      BY <1>3, SMT DEF TypeOK
    <2>2. result' \in Results
      BY <1>3, ReturnType, Zenon DEF Calls
    <2>. QED BY <1>1, <1>3, <2>1, <2>2, Zenon DEF TypeOK, vdefVars, voiceVars
  <1>. QED BY <1>2, <1>3, Zenon DEF LoadResource, LoadFails

LEMMA UnloadTypes ==
    ASSUME TypeOK, NEW h \in Handles, UnloadResource(h) PROVE TypeOK'
  <1>1. openFiles - 1 \in Int /\ openFiles - 1 =< MaxOpen /\ numResources - 1 \in Int
    BY ResourceManagerAssumption, SMT DEF TypeOK
  <1>2. result' \in Results
    BY ReturnType, Zenon DEF UnloadResource, Calls
  <1>. QED BY <1>1, <1>2, Zenon
           DEF UnloadResource, TypeOK, resourceVars, vdefVars, voiceVars

LEMMA VdefTypes ==
    ASSUME TypeOK, NEW call \in Calls, NEW status \in {"OK", "ERROR"}, VdefCall(call, status),
           vdefs' \in [VoiceNames -> Seq(Names) \cup {None}],
           numVdefs' \in Int, numVdefs' =< MaxVdefs
    PROVE  TypeOK'
  <1>1. result' \in Results
    BY ReturnType, Zenon DEF VdefCall
  <1>. QED BY <1>1, Zenon DEF VdefCall, TypeOK, resourceVars, voiceVars

LEMMA EngineTypes ==
    ASSUME TypeOK, NEW call \in Calls, NEW status \in {"OK", "ERROR"}, EngineCall(call, status),
           lockCount' \in [Handles -> Int], voice' \in Voices \cup {None}, freeVoices' \in Seq(Voices)
    PROVE  TypeOK'
  <1>1. result' \in Results
    BY ReturnType, Zenon DEF EngineCall
  <1>. QED BY <1>1, Zenon DEF EngineCall, TypeOK, vdefVars

\* Type correctness of the resource manager, through every failure path.
THEOREM ResourceTypeOK == Spec => []TypeOK
  <1>1. Init => TypeOK
    <2>1. /\ 0 \in Int /\ 0 =< MaxOpen /\ 0 =< MaxVdefs
          /\ <<>> \in Seq(Voices)
      BY ResourceManagerAssumption, SMT
    <2>2. DefaultName \in Names
      BY ResourceManagerAssumption, Zenon
    <2>. SUFFICES ASSUME Init PROVE TypeOK
      OBVIOUS
    <2>3. result \in Results
      BY Zenon DEF Init, Results, Calls
    <2>4. name \in [Handles -> Names] /\ lockCount \in [Handles -> Int]
      BY <2>1, <2>2, Zenon DEF Init
    <2>5. openFiles \in Int /\ openFiles =< MaxOpen /\ numVdefs \in Int /\ numVdefs =< MaxVdefs
      BY <2>1, Zenon DEF Init
    <2>. QED BY <2>1, <2>3, <2>4, <2>5, Zenon DEF Init, TypeOK
  <1>2. TypeOK /\ [Next]_vars => TypeOK'
    <2>. SUFFICES ASSUME TypeOK, [Next]_vars PROVE TypeOK'
      OBVIOUS
    <2>1. DefaultName \in Names /\ MaxVdefs \in Int /\ 0 =< MaxVdefs /\ MaxOpen \in Int /\ 0 =< MaxOpen
      BY ResourceManagerAssumption, SMT
    <2>2. ASSUME Initialize PROVE TypeOK'
      <3>1. result' \in Results
        BY <2>2, ReturnType, Zenon DEF Initialize, Calls
      <3>2. numResources' \in Int
        BY <2>2, SMT DEF Initialize
      <3>. QED BY <2>1, <2>2, <3>1, <3>2, Zenon DEF Initialize, TypeOK, vdefVars, voiceVars
    <2>3. ASSUME Terminate PROVE TypeOK'
      <3>1. result' \in Results
        BY <2>3, ReturnType, Zenon DEF Terminate, Calls
      <3>2. 0 \in Int /\ <<>> \in Seq(Voices)
        BY SMT
      <3>. QED BY <2>1, <2>3, <3>1, <3>2, Zenon DEF Terminate, TypeOK
    <2>4. ASSUME NEW n \in Names, LoadResource(n) PROVE TypeOK'
      BY <2>4, LoadTypes, Zenon
    <2>5. ASSUME NEW h \in Handles, UnloadResource(h) PROVE TypeOK'
      BY <2>5, UnloadTypes, Zenon
    <2>6. ASSUME NEW v \in VoiceNames \cup LongVoiceNames, CreateVoiceDefinition(v) PROVE TypeOK'
      <3>1. /\ vdefs' \in [VoiceNames -> Seq(Names) \cup {None}]
            /\ numVdefs' \in Int /\ numVdefs' =< MaxVdefs
        <4>1. <<DefaultName>> \in Seq(Names)
          BY <2>1, SMT
        <4>2. \/ /\ numVdefs < MaxVdefs /\ numVdefs' = numVdefs + 1
                 /\ vdefs' = [vdefs EXCEPT ![v] = <<DefaultName>>]
              \/ UNCHANGED vdefVars
          BY <2>6, Zenon DEF CreateVoiceDefinition, Definable
        <4>3. numVdefs' \in Int /\ numVdefs' =< MaxVdefs
          BY <2>1, <4>2, SMT DEF TypeOK, vdefVars
        <4>. QED BY <4>1, <4>2, <4>3, Zenon DEF TypeOK, vdefVars
      <3>2. \E status \in {"OK", "ERROR"} : VdefCall("createVoiceDefinition", status)
        BY <2>6, Zenon DEF CreateVoiceDefinition
      <3>. QED BY <3>1, <3>2, VdefTypes, Zenon DEF Calls
    <2>7. ASSUME NEW v \in VoiceNames, NEW n \in Names \cup LongNames, AddResourceToVoiceDefinition(v, n)
          PROVE  TypeOK'
      <3>. DEFINE m == IF n \in LongNames THEN Truncated[n] ELSE n
      <3>1. m \in Names
        BY ResourceManagerAssumption, Zenon
      <3>2. \/ vdefs' = [vdefs EXCEPT ![v] = Append(@, m)] /\ vdefs[v] # None
            \/ UNCHANGED vdefs
        BY <2>7, Zenon DEF AddResourceToVoiceDefinition, Extensible, vdefVars
      <3>. HIDE DEF m
      <3>3. vdefs' \in [VoiceNames -> Seq(Names) \cup {None}]
        <4>1. vdefs \in [VoiceNames -> Seq(Names) \cup {None}]
          BY Zenon DEF TypeOK
        <4>2. vdefs[v] # None => Append(vdefs[v], m) \in Seq(Names)
          BY <3>1, <4>1, SMT
        <4>. QED BY <3>2, <4>1, <4>2, Zenon
      <3>4. UNCHANGED numVdefs /\ \E status \in {"OK", "ERROR"} : VdefCall("addResource", status)
        BY <2>7, Zenon DEF AddResourceToVoiceDefinition, vdefVars
      <3>. QED BY <3>3, <3>4, VdefTypes, Zenon DEF Calls, TypeOK
    <2>8. ASSUME NEW v \in VoiceNames, ReleaseVoiceDefinition(v) PROVE TypeOK'
      <3>1. /\ vdefs' \in [VoiceNames -> Seq(Names) \cup {None}]
            /\ numVdefs' \in Int /\ numVdefs' =< MaxVdefs
        BY <2>1, <2>8, SMT DEF ReleaseVoiceDefinition, TypeOK
      <3>. QED BY <2>8, <3>1, VdefTypes, Zenon DEF ReleaseVoiceDefinition, Calls
    <2>9. ASSUME NEW v \in VoiceNames, NewEngineFails(v) PROVE TypeOK'
      <3>1. Filled(BlankVoice, vdefs[v]) \in Voices
        BY <2>9, FilledVoice, Zenon DEF NewEngineFails
      <3>2. freeVoices' \in Seq(Voices)
        BY <2>9, <3>1, SMT DEF NewEngineFails, TypeOK
      <3>. QED BY <2>9, <3>2, EngineTypes, Zenon DEF NewEngineFails, Calls, TypeOK
    <2>10. ASSUME NEW v \in VoiceNames, NewEngineRefused(v) PROVE TypeOK'
      BY <2>10, EngineTypes, Zenon DEF NewEngineRefused, Calls, TypeOK, voiceVars
    <2>11. ASSUME NEW v \in VoiceNames, NewEngine(v) PROVE TypeOK'
      <3>1. voice' \in Voices
        BY <2>11, FilledVoice, Zenon DEF NewEngine
      <3>2. lockCount' \in [Handles -> Int]
        BY <2>11, <3>1, LocksType, Zenon DEF NewEngine
      <3>3. freeVoices' \in Seq(Voices)
        BY <2>11, SMT DEF NewEngine, TypeOK
      <3>. QED BY <2>11, <3>1, <3>2, <3>3, EngineTypes, Zenon DEF NewEngine, Calls
    <2>12. ASSUME DisposeEngine PROVE TypeOK'
      <3>1. voice \in Voices \cup {None}
        BY Zenon DEF TypeOK
      <3>2. lockCount' \in [Handles -> Int]
        BY <2>12, <3>1, LocksType, Zenon DEF DisposeEngine
      <3>3. freeVoices' \in Seq(Voices)
        BY <2>12, SMT DEF DisposeEngine, TypeOK
      <3>. QED BY <2>12, <3>2, <3>3, EngineTypes, Zenon DEF DisposeEngine, Calls
    <2>13. CASE UNCHANGED vars
      BY <2>13, Zenon DEF vars, TypeOK
    <2>. QED BY <2>2, <2>3, <2>4, <2>5, <2>6, <2>7, <2>8, <2>9, <2>10, <2>11, <2>12, <2>13, Zenon DEF Next
  <1>. QED BY <1>1, <1>2, PTL DEF Spec

-----------------------------------------------------------------------------
(* Lock counts are exact and what an engine uses is loaded.                 *)

\* A voice has knowledge bases of its own resources only: their locks cover them.
KbsAreOfResources ==
    voice # None => \A k \in KbIds : \/ voice.kb[k] = None
                                     \/ \E i \in DOMAIN voice.res : voice.kb[k] = voice.res[i]

IInv == LocksMatch /\ VoiceIsLoaded /\ DownIsBlank /\ KbsAreOfResources

\* What is not loaded is not in a voice.
LEMMA UnloadedUnused ==
    ASSUME TypeOK, VoiceIsLoaded, NEW h, h \notin loaded
    PROVE  Occurrences(h, voice) = 0
  <1>1. voice \in Voices \cup {None}
    BY Zenon DEF TypeOK
  <1>2. \A i \in (IF voice = None THEN {} ELSE DOMAIN voice.res) : voice.res[i] # h
    BY Zenon DEF VoiceIsLoaded
  <1>. QED BY <1>1, <1>2, OccurrencesNat, Zenon

\* A resource without locks is in no voice, and neither are its knowledge bases.
LEMMA UnlockedUnused ==
    ASSUME TypeOK, IInv, NEW h \in loaded, lockCount[h] <= 0
    PROVE  voice # None => /\ \A i \in DOMAIN voice.res : voice.res[i] # h
                           /\ \A k \in KbIds : voice.kb[k] # h
  <1>1. voice \in Voices \cup {None}
    BY Zenon DEF TypeOK
  <1>2. Occurrences(h, voice) \in Nat /\ lockCount[h] = Occurrences(h, voice)
    BY <1>1, OccurrencesNat, Zenon DEF IInv, LocksMatch
  <1>3. Occurrences(h, voice) = 0
    BY <1>2, SMT
  <1>4. voice # None => \A i \in DOMAIN voice.res : voice.res[i] # h
    BY <1>1, <1>3, OccurrencesNat, Zenon
  <1>5. h # None
    BY ResourceManagerAssumption, Zenon DEF TypeOK
  <1>. QED BY <1>4, <1>5, Zenon DEF IInv, KbsAreOfResources

\* The calls that touch neither the resources nor the voice.
LEMMA OtherCalls ==
    ASSUME IInv, UNCHANGED <<up, loaded, lockCount, voice>> PROVE IInv'
  BY Zenon DEF IInv, LocksMatch, VoiceIsLoaded, DownIsBlank, KbsAreOfResources, Occurrences

\* The invariant holds: counts, voices and knowledge bases agree.
THEOREM ResourceIInv == Spec => []IInv
  <1>1. Init => IInv
    BY Zenon DEF Init, IInv, LocksMatch, VoiceIsLoaded, DownIsBlank, KbsAreOfResources
  <1>2. TypeOK /\ IInv /\ [Next]_vars => IInv'
    <2>. SUFFICES ASSUME TypeOK, IInv, [Next]_vars PROVE IInv'
      OBVIOUS
    <2>1. voice \in Voices \cup {None}
      BY Zenon DEF TypeOK
    <2>2. ASSUME Initialize PROVE IInv'
      <3>1. voice' = None /\ \A h \in Handles : lockCount'[h] = 0
        BY <2>2, Zenon DEF Initialize, IInv, DownIsBlank, voiceVars
      <3>2. \A h \in loaded' : h \in Handles
        BY <2>2, Zenon DEF Initialize
      <3>. QED BY <2>2, <3>1, <3>2, Zenon
               DEF Initialize, IInv, LocksMatch, VoiceIsLoaded, DownIsBlank, KbsAreOfResources, Occurrences
    <2>3. ASSUME Terminate PROVE IInv'
      BY <2>3, Zenon DEF Terminate, IInv, LocksMatch, VoiceIsLoaded, DownIsBlank, KbsAreOfResources
    <2>4. ASSUME NEW n \in Names, LoadResource(n) PROVE IInv'
      <3>1. CASE UNCHANGED <<up, loaded, lockCount, voice>>
        BY <3>1, OtherCalls, Zenon
      <3>2. ASSUME NEW h \in Handles \ loaded, up, UNCHANGED <<up, voice>>,
                   loaded' = loaded \cup {h}, lockCount' = [lockCount EXCEPT ![h] = 0]
            PROVE  IInv'
        <4>1. Occurrences(h, voice) = 0
          BY <3>2, UnloadedUnused, Zenon DEF IInv
        <4>2. lockCount'[h] = 0 /\ \A g \in loaded : lockCount'[g] = lockCount[g]
          BY <3>2, Zenon DEF TypeOK
        <4>3. LocksMatch'
          BY <3>2, <4>1, <4>2, Zenon DEF IInv, LocksMatch, Occurrences
        <4>4. VoiceIsLoaded'
          BY <3>2, Zenon DEF IInv, VoiceIsLoaded
        <4>. QED BY <3>2, <4>3, <4>4, Zenon DEF IInv, DownIsBlank, KbsAreOfResources
      <3>. QED BY <2>4, <3>1, <3>2, Zenon
               DEF LoadResource, LoadFails, resourceVars, vdefVars, voiceVars
    <2>5. ASSUME NEW h \in Handles, UnloadResource(h) PROVE IInv'
      <3>1. CASE UNCHANGED <<up, loaded, lockCount, voice>>
        BY <3>1, OtherCalls, Zenon
      <3>2. CASE /\ up /\ h \in loaded /\ lockCount[h] <= 0
                 /\ loaded' = loaded \ {h} /\ UNCHANGED <<up, lockCount, voice>>
        <4>1. voice # None => /\ \A i \in DOMAIN voice.res : voice.res[i] # h
                              /\ \A k \in KbIds : voice.kb[k] # h
          BY <3>2, UnlockedUnused, Zenon
        <4>2. LocksMatch'
          BY <3>2, Zenon DEF IInv, LocksMatch, Occurrences
        <4>3. VoiceIsLoaded'
          BY <3>2, <4>1, Zenon DEF IInv, VoiceIsLoaded
        <4>. QED BY <3>2, <4>2, <4>3, Zenon DEF IInv, DownIsBlank, KbsAreOfResources
      <3>. QED BY <2>5, <3>1, <3>2, Zenon DEF UnloadResource, resourceVars, vdefVars, voiceVars
    <2>6. ASSUME NEW call, NEW status, VdefCall(call, status) PROVE IInv'
      BY <2>6, OtherCalls, Zenon DEF VdefCall, resourceVars, voiceVars
    <2>7. ASSUME NEW v \in VoiceNames, NewEngineFails(v) \/ NewEngineRefused(v) PROVE IInv'
      BY <2>7, OtherCalls, Zenon DEF NewEngineFails, NewEngineRefused, EngineCall, voiceVars
    <2>8. ASSUME NEW v \in VoiceNames, NewEngine(v) PROVE IInv'
      <3>. DEFINE w == Filled(BlankVoice, vdefs[v])
      <3>1. /\ up /\ UNCHANGED <<up, loaded>> /\ voice = None
            /\ voice' = w /\ lockCount' = Locked(w)
        BY <2>8, Zenon DEF NewEngine, EngineCall
      <3>2. /\ w \in Voices
            /\ \A i \in DOMAIN w.res : w.res[i] \in loaded
            /\ \A k \in KbIds : w.kb[k] = None \/ \E i \in DOMAIN w.res : w.kb[k] = w.res[i]
        BY <2>8, FilledVoice, Zenon DEF NewEngine
      <3>. HIDE DEF w
      <3>3. \A h \in loaded : h \in Handles /\ lockCount[h] = 0
        BY <3>1, Zenon DEF IInv, LocksMatch, Occurrences, TypeOK
      <3>4. \A h \in loaded : Occurrences(h, w) \in Nat
        BY <3>2, OccurrencesNat, Zenon
      <3>5. \A h \in loaded : lockCount'[h] = lockCount[h] + Occurrences(h, w)
        BY <3>1, <3>3, Zenon DEF Locked
      <3>6. \A h \in loaded : lockCount'[h] = Occurrences(h, w)
        BY <3>3, <3>4, <3>5, SMT
      <3>7. LocksMatch'
        BY <3>1, <3>6, Zenon DEF LocksMatch, Occurrences
      <3>. QED BY <3>1, <3>2, <3>7, Zenon DEF IInv, VoiceIsLoaded, DownIsBlank, KbsAreOfResources
    <2>9. ASSUME DisposeEngine PROVE IInv'
      <3>1. up /\ UNCHANGED <<up, loaded>> /\ voice' = None /\ lockCount' = Released(voice)
        BY <2>9, Zenon DEF DisposeEngine, EngineCall
      <3>2. \A h \in loaded : h \in Handles /\ lockCount[h] = Occurrences(h, voice)
        BY Zenon DEF IInv, LocksMatch, TypeOK
      <3>3. \A h \in loaded : lockCount'[h] = lockCount[h] - Occurrences(h, voice)
        BY <3>1, <3>2, Zenon DEF Released
      <3>4. \A h \in loaded : Occurrences(h, voice) \in Nat
        BY <2>1, OccurrencesNat, Zenon
      <3>5. \A h \in loaded : lockCount'[h] = 0
        BY <3>2, <3>3, <3>4, SMT
      <3>. QED BY <3>1, <3>5, Zenon
               DEF IInv, LocksMatch, VoiceIsLoaded, DownIsBlank, KbsAreOfResources, Occurrences
    <2>10. CASE UNCHANGED vars
      BY <2>10, OtherCalls, Zenon DEF vars
    <2>11. ASSUME NEW v \in VoiceNames \cup LongVoiceNames, CreateVoiceDefinition(v) PROVE IInv'
      BY <2>6, <2>11, Zenon DEF CreateVoiceDefinition
    <2>12. ASSUME NEW v \in VoiceNames, NEW n \in Names \cup LongNames, AddResourceToVoiceDefinition(v, n)
           PROVE  IInv'
      BY <2>6, <2>12, Zenon DEF AddResourceToVoiceDefinition
    <2>13. ASSUME NEW v \in VoiceNames, ReleaseVoiceDefinition(v) PROVE IInv'
      BY <2>6, <2>13, Zenon DEF ReleaseVoiceDefinition
    <2>. QED BY <2>2, <2>3, <2>4, <2>5, <2>7, <2>8, <2>9, <2>10, <2>11, <2>12, <2>13, Zenon DEF Next
  <1>. QED BY <1>1, <1>2, ResourceTypeOK, PTL DEF Spec

\* Each resource is locked exactly as often as the engine's voice mentions it
\* (createVoice and releaseVoice).
THEOREM ResourceLocksMatch == Spec => []LocksMatch
  <1>1. IInv => LocksMatch
    BY Zenon DEF IInv
  <1>. QED BY <1>1, ResourceIInv, PTL

\* An engine uses loaded resources and knowledge bases only (unloadResource
\* against createVoice).
THEOREM ResourceVoiceIsLoaded == Spec => []VoiceIsLoaded
  <1>1. IInv => VoiceIsLoaded
    BY Zenon DEF IInv
  <1>. QED BY <1>1, ResourceIInv, PTL

\* An unload answers BUSY exactly for what the engine uses, and otherwise
\* removes the resource (picorsrc_unloadResource against its promise in picoapi.h).
THEOREM ResourceUnloadIffUnused == Spec => UnloadIffUnused
  <1>. DEFINE Answer(h) ==
                result'.call = "unload" /\ result'.handle = h /\ result' # result =>
                  /\ result'.status = "BUSY" <=> Occurrences(h, voice) > 0
                  /\ result'.status = "OK" <=> h \notin loaded'
  <1>1. TypeOK /\ IInv /\ [Next]_vars => [\A h \in Handles : Answer(h)]_vars
    <2>. SUFFICES ASSUME TypeOK, IInv, Next PROVE \A h \in Handles : Answer(h)
      OBVIOUS
    <2>1. ASSUME NEW call, call # "unload", NEW g, NEW status, Return(call, g, status)
          PROVE  \A h \in Handles : Answer(h)
      BY <2>1, Zenon DEF Return
    <2>2. ASSUME NEW g \in Handles, UnloadResource(g) PROVE \A h \in Handles : Answer(h)
      <3>1. /\ g \in loaded /\ lockCount[g] \in Int
            /\ lockCount[g] = Occurrences(g, voice)
        BY <2>2, Zenon DEF UnloadResource, TypeOK, IInv, LocksMatch
      <3>2. CASE lockCount[g] > 0 /\ Return("unload", g, "BUSY") /\ UNCHANGED resourceVars
        BY <3>1, <3>2, Zenon DEF Return, resourceVars
      <3>3. CASE lockCount[g] <= 0 /\ Return("unload", g, "OK") /\ loaded' = loaded \ {g}
        <4>1. ~ (Occurrences(g, voice) > 0)
          BY <3>1, <3>3, SMT
        <4>. QED BY <3>3, <4>1, Zenon DEF Return
      <3>. QED BY <2>2, <3>2, <3>3, Zenon DEF UnloadResource
    <2>3. ASSUME NEW n \in Names, LoadResource(n)
          PROVE  \E call, g, status : call # "unload" /\ Return(call, g, status)
      <3>1. "load" # "unload"
        OBVIOUS
      <3>. QED BY <2>3, <3>1, Zenon DEF LoadResource, LoadFails
    <2>4. ASSUME NEW call, call # "unload", NEW status, VdefCall(call, status) \/ EngineCall(call, status)
          PROVE  \A h \in Handles : Answer(h)
      BY <2>1, <2>4, Zenon DEF VdefCall, EngineCall
    <2>5. ASSUME Initialize \/ Terminate PROVE \A h \in Handles : Answer(h)
      BY <2>1, <2>5, Zenon DEF Initialize, Terminate
    <2>6. ASSUME NEW v \in VoiceNames \cup LongVoiceNames, CreateVoiceDefinition(v)
          PROVE  \A h \in Handles : Answer(h)
      BY <2>4, <2>6, Zenon DEF CreateVoiceDefinition
    <2>7. ASSUME NEW v \in VoiceNames, NEW n, AddResourceToVoiceDefinition(v, n) \/ ReleaseVoiceDefinition(v)
          PROVE  \A h \in Handles : Answer(h)
      BY <2>4, <2>7, Zenon DEF AddResourceToVoiceDefinition, ReleaseVoiceDefinition
    <2>8. ASSUME NEW v \in VoiceNames, NewEngineFails(v) \/ NewEngineRefused(v) \/ NewEngine(v)
          PROVE  \A h \in Handles : Answer(h)
      BY <2>4, <2>8, Zenon DEF NewEngineFails, NewEngineRefused, NewEngine
    <2>9. ASSUME DisposeEngine PROVE \A h \in Handles : Answer(h)
      BY <2>4, <2>9, Zenon DEF DisposeEngine
    <2>10. ASSUME NEW n \in Names, LoadResource(n) PROVE \A h \in Handles : Answer(h)
      BY <2>1, <2>3, <2>10, Zenon
    <2>. HIDE DEF Answer
    <2>. QED BY <2>2, <2>5, <2>6, <2>7, <2>8, <2>9, <2>10, Zenon DEF Next
  <1>. QED BY <1>1, ResourceTypeOK, ResourceIInv, PTL DEF Spec, UnloadIffUnused

-----------------------------------------------------------------------------
(* Names are unique and the counter is right.                               *)

\* The counter can be the number of resources only while that is finite.
NamesInv == IsFiniteSet(loaded) /\ NamesUnique

\* The calls that leave the list of resources alone.
LEMMA ListUntouched ==
    ASSUME NamesInv, UNCHANGED <<loaded, numResources, name>> PROVE NamesInv'
  BY Zenon DEF NamesInv, NamesUnique

\* The resource manager finds a resource by its name, and its counter is the
\* number of its resources (loadResource, unloadResource and the limit
\* PICO_MAX_NUM_RESOURCES), whichever load failed or found the name taken.
THEOREM ResourceNamesUnique == Spec => []NamesUnique
  <1>1. Init => NamesInv
    BY FS_EmptySet, Zenon DEF Init, NamesInv, NamesUnique
  <1>2. TypeOK /\ NamesInv /\ [Next]_vars => NamesInv'
    <2>. SUFFICES ASSUME TypeOK, NamesInv, [Next]_vars PROVE NamesInv'
      OBVIOUS
    <2>1. /\ name \in [Handles -> Names] /\ numResources \in Int
          /\ IsFiniteSet(loaded) /\ numResources = Cardinality(loaded)
          /\ \A g, h \in loaded : name[g] = name[h] => g = h
          /\ loaded \subseteq Handles
      BY Zenon DEF TypeOK, NamesInv, NamesUnique
    <2>2. ASSUME Initialize PROVE NamesInv'
      <3>1. PICK h \in Handles : loaded' = {h}
        BY <2>2, Zenon DEF Initialize
      <3>2. IsFiniteSet({h}) /\ Cardinality({h}) = 1
        BY FS_Singleton, Zenon
      <3>3. numResources' = 1
        BY <2>2, Zenon DEF Initialize
      <3>. QED BY <3>1, <3>2, <3>3, Zenon DEF NamesInv, NamesUnique
    <2>3. ASSUME Terminate PROVE NamesInv'
      BY <2>3, FS_EmptySet, Zenon DEF Terminate, NamesInv, NamesUnique
    <2>4. ASSUME NEW n \in Names, LoadResource(n) PROVE NamesInv'
      <3>1. ASSUME NEW h \in Handles \ loaded, ~ IsLoaded(n),
                   loaded' = loaded \cup {h}, name' = [name EXCEPT ![h] = n],
                   numResources' = numResources + 1
            PROVE  NamesInv'
        <4>1. IsFiniteSet(loaded') /\ numResources' = Cardinality(loaded')
          BY <2>1, <3>1, FS_AddElement, Zenon
        <4>2. name'[h] = n /\ \A g \in loaded : name'[g] = name[g] /\ name[g] # n
          BY <2>1, <3>1, Zenon DEF IsLoaded
        <4>3. \A f, g \in loaded' : name'[f] = name'[g] => f = g
          BY <2>1, <3>1, <4>2, Zenon
        <4>. QED BY <4>1, <4>3, Zenon DEF NamesInv, NamesUnique
      <3>. QED BY <2>4, <3>1, ListUntouched, Zenon DEF LoadResource, LoadFails, resourceVars
    <2>5. ASSUME NEW h \in Handles, UnloadResource(h) PROVE NamesInv'
      <3>1. CASE /\ h \in loaded /\ loaded' = loaded \ {h} /\ UNCHANGED name
                 /\ numResources' = numResources - 1
        <4>1. IsFiniteSet(loaded') /\ numResources' = Cardinality(loaded')
          BY <2>1, <3>1, FS_RemoveElement, Zenon
        <4>. QED BY <2>1, <3>1, <4>1, Zenon DEF NamesInv, NamesUnique
      <3>. QED BY <2>5, <3>1, ListUntouched, Zenon DEF UnloadResource, resourceVars
    <2>6. ASSUME NEW call, NEW status, VdefCall(call, status) \/ EngineCall(call, status)
          PROVE  NamesInv'
      BY <2>6, ListUntouched, Zenon DEF VdefCall, EngineCall, resourceVars
    <2>7. ASSUME NEW v \in VoiceNames \cup LongVoiceNames, CreateVoiceDefinition(v) PROVE NamesInv'
      BY <2>6, <2>7, Zenon DEF CreateVoiceDefinition
    <2>8. ASSUME NEW v \in VoiceNames, NEW n,
                 AddResourceToVoiceDefinition(v, n) \/ ReleaseVoiceDefinition(v)
          PROVE  NamesInv'
      BY <2>6, <2>8, Zenon DEF AddResourceToVoiceDefinition, ReleaseVoiceDefinition
    <2>9. ASSUME NEW v \in VoiceNames, NewEngineFails(v) \/ NewEngineRefused(v) \/ NewEngine(v)
          PROVE  NamesInv'
      BY <2>6, <2>9, Zenon DEF NewEngineFails, NewEngineRefused, NewEngine
    <2>10. ASSUME DisposeEngine PROVE NamesInv'
      BY <2>6, <2>10, Zenon DEF DisposeEngine
    <2>11. CASE UNCHANGED vars
      BY <2>11, ListUntouched, Zenon DEF vars
    <2>. QED BY <2>2, <2>3, <2>4, <2>5, <2>7, <2>8, <2>9, <2>10, <2>11, Zenon DEF Next
  <1>3. NamesInv => NamesUnique
    BY Zenon DEF NamesInv
  <1>. QED BY <1>1, <1>2, <1>3, ResourceTypeOK, PTL DEF Spec
=============================================================================
